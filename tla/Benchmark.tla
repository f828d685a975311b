------------------------------ MODULE Benchmark ------------------------------
(***************************************************************************)
(* One fraction of the degradation benchmark (tierbuf-bench/src/main.rs):  *)
(* a warm-up phase, a snapshot of the manager's statistics, a measurement  *)
(* phase, a second snapshot, and the row made of both.  A phase is worker  *)
(* threads that start together behind two barriers, fix pages until the    *)
(* deadline and count what they did.  Prefetch workers of the manager go   *)
(* on reading through both snapshots.                                      *)
(*                                                                         *)
(* Pages, the access distribution and times are left out: a point or a     *)
(* scan access hits DRAM or a lower tier, and a deadline passes some time. *)
(***************************************************************************)
EXTENDS StatsRecorder, Functions

CONSTANTS
    BenchWorkers,      \* the worker threads
    Prefetchers,       \* prefetch workers of the manager
    SampleEvery,       \* SAMPLE_EVERY_OPERATIONS
    SampleCapacity,    \* MAX_LATENCY_SAMPLES_PER_WORKER
    MaxOps,            \* bound: operations of a phase
    MaxTransfers,      \* bound: tier reads and writes of the prefetchers
    NoStats            \* not taken yet

Kinds == {"point", "scan"}

ASSUME BenchAssumption ==
    /\ Recorders = BenchWorkers \cup Prefetchers
    /\ Events = {"dram_hit", "demand_hit"}
    /\ SampleEvery \in Nat \ {0} /\ SampleCapacity \in Nat \ {0}
    /\ MaxOps \in Nat
    \* No demand counter saturates: u64::MAX fixes are out of reach.
    /\ 2 * MaxOps <= MaxCount

VARIABLES
    driver,            \* run_fraction: program counter
    phase,             \* the phase that runs: "Warmup" or "Measurement"
    deadline,          \* the published deadline: "none", "ahead", "passed"
    bench,             \* bench[w]: program counter and counts of a worker
    transfers,         \* transfers of the prefetchers so far
    before, after      \* the two snapshots

benchVars == <<driver, phase, deadline, bench, transfers, before, after, statsVars>>

\* WorkerResult: operations, and per kind its operations, DRAM hits and
\* latency samples.
Fresh ==
    [pc |-> "ready", kind |-> "point", source |-> "none", operations |-> 0,
     samples |-> 0, ops |-> [k \in Kinds |-> 0],
     dram_hits |-> [k \in Kinds |-> 0], kind_samples |-> [k \in Kinds |-> 0]]

BenchInit ==
    /\ StatsInit
    /\ driver = "ready" /\ phase = "Warmup" /\ deadline = "none"
    /\ bench = [w \in BenchWorkers |-> Fresh]
    /\ transfers = 0
    /\ before = NoStats /\ after = NoStats

phaseVars == <<phase, transfers, before, after>>

-----------------------------------------------------------------------------
(* run_phase                                                               *)

All(place) == \A w \in BenchWorkers : bench[w].pc = place
AllGo(place) == bench' = [w \in BenchWorkers |-> [bench[w] EXCEPT !.pc = place]]

ReadyBarrier ==
    /\ driver = "ready" /\ All("ready")
    /\ driver' = "publish"
    /\ AllGo("start")
    /\ UNCHANGED <<phaseVars, deadline, statsVars>>

PublishDeadline ==
    /\ driver = "publish"
    /\ deadline' = "ahead"
    /\ driver' = "start"
    /\ UNCHANGED <<phaseVars, bench, statsVars>>

StartBarrier ==
    /\ driver = "start" /\ All("start")
    /\ driver' = "join"
    /\ AllGo("run")
    /\ UNCHANGED <<phaseVars, deadline, statsVars>>

DeadlinePasses ==
    /\ deadline = "ahead"
    /\ deadline' = "passed"
    /\ UNCHANGED <<phaseVars, driver, bench, statsVars>>

\* Mutant: the phase ends with its deadline, its workers still in a fix.
PhaseEndsAtDeadline ==
    /\ driver = "join" /\ deadline = "passed"
    /\ driver' = "phase_done"
    /\ UNCHANGED <<phaseVars, deadline, bench, statsVars>>

\* Every worker is joined; the first error fails the phase.
JoinWorkers ==
    /\ driver = "join"
    /\ \A w \in BenchWorkers : bench[w].pc \in {"done", "failed"}
    /\ driver' = IF All("done") THEN "phase_done" ELSE "shutdown"
    /\ UNCHANGED <<phaseVars, deadline, bench, statsVars>>

-----------------------------------------------------------------------------
(* run_worker and fix_and_verify                                           *)

\* Operations counted or under way.
Started(w) ==
    bench[w].operations + (IF bench[w].pc \in {"fix", "reading", "count"} THEN 1 ELSE 0)

\* The kind and the source of an operation end with it.
Leaves(b, place) == [b EXCEPT !.pc = place, !.kind = "point", !.source = "none"]

Goes(w, place) == bench' = [bench EXCEPT ![w].pc = place]

OperationStarts(w) ==
    /\ bench[w].pc = "run" /\ deadline = "ahead"
    /\ SumFunction([v \in BenchWorkers |-> Started(v)]) < MaxOps
    /\ \E k \in Kinds : bench' = [bench EXCEPT ![w].pc = "fix", ![w].kind = k]
    /\ UNCHANGED <<phaseVars, driver, deadline, statsVars>>

WorkerEnds(w) ==
    /\ bench[w].pc = "run" /\ deadline = "passed"
    /\ Goes(w, "done")
    /\ UNCHANGED <<phaseVars, driver, deadline, statsVars>>

\* The fault of this fix reads its page itself, or follows another's; it may
\* come to read again when its page is gone before it is latched.
FixReads(w) ==
    /\ bench[w].pc = "fix"
    /\ transfers < MaxTransfers /\ transfers' = transfers + 1
    /\ RecordTransfer(w, "read")
    /\ Goes(w, "reading")
    /\ UNCHANGED <<phase, before, after, driver, deadline>>

FixRead(w) ==
    /\ bench[w].pc = "reading"
    /\ RecordBytes(w)
    /\ bench' = [bench EXCEPT ![w].pc = "fix", ![w].source = "demand_hit"]
    /\ UNCHANGED <<phaseVars, driver, deadline>>

\* A fix succeeds once, and records one hit, of its source, as it does.
FixSucceeds(w) ==
    /\ bench[w].pc = "fix"
    /\ \E source \in Events :
          /\ bench[w].source \in {"none", source}
          /\ RecordEvent(source)
          /\ bench' = [bench EXCEPT ![w].pc = "count", ![w].source = source]
    /\ UNCHANGED <<phaseVars, driver, deadline>>

\* PoolExhausted and Contended are tried again, until the retry deadline;
\* any other error, or a fixed page with another page's marker, ends the worker.
FixRetried(w) ==
    /\ bench[w].pc = "fix" /\ bench[w].source # "none"
    /\ bench' = [bench EXCEPT ![w].source = "none"]
    /\ UNCHANGED <<phaseVars, driver, deadline, statsVars>>

FixFails(w) ==
    /\ bench[w].pc \in {"fix", "count"}
    /\ bench' = [bench EXCEPT ![w] = Leaves(@, "failed")]
    /\ UNCHANGED <<phaseVars, driver, deadline, statsVars>>

\* LatencySampler::record keeps at most its capacity.
Sampled(n, ops) ==
    IF phase = "Measurement" /\ ops % SampleEvery = 0 /\ n < SampleCapacity
    THEN n + 1 ELSE n

\* The result of worker b with the operation it has just done.
CountedOp(b) ==
    [Leaves(b, "run") EXCEPT
              !.samples = Sampled(@, b.operations),
              !.kind_samples[b.kind] = Sampled(@, b.ops[b.kind]),
              !.operations = @ + 1,
              !.ops[b.kind] = @ + 1,
              !.dram_hits[b.kind] = IF b.source = "dram_hit" THEN @ + 1 ELSE @]

CountOperation(w) ==
    /\ bench[w].pc = "count"
    /\ bench' = [bench EXCEPT ![w] = CountedOp(bench[w])]
    /\ UNCHANGED <<phaseVars, driver, deadline, statsVars>>

-----------------------------------------------------------------------------
(* run_fraction                                                            *)

\* manager.stats() between the phases, and the workers of the second.
SnapshotBefore ==
    /\ driver = "phase_done" /\ phase = "Warmup"
    /\ GateFree
    /\ before' = snapshot
    /\ phase' = "Measurement" /\ deadline' = "none"
    /\ driver' = "ready"
    /\ bench' = [w \in BenchWorkers |-> Fresh]
    /\ UNCHANGED <<transfers, after, statsVars>>

SnapshotAfter ==
    /\ driver = "phase_done" /\ phase = "Measurement"
    /\ GateFree
    /\ after' = snapshot
    /\ driver' = "report"
    /\ UNCHANGED <<phase, deadline, bench, transfers, before, statsVars>>

\* The row or its error; either way the manager is shut down.
ReportEnds ==
    /\ driver = "report"
    /\ driver' = "shutdown"
    /\ UNCHANGED <<phaseVars, deadline, bench, statsVars>>

\* Prefetch workers read, evictors write, whatever the benchmark does.
PrefetcherTransfers(r) ==
    /\ transfers < MaxTransfers /\ transfers' = transfers + 1
    /\ \E x \in Transfers : RecordTransfer(r, x)
    /\ UNCHANGED <<phase, before, after, driver, deadline, bench>>

PrefetcherBytes(r) ==
    /\ RecordBytes(r)
    /\ UNCHANGED <<phaseVars, driver, deadline, bench>>

BenchStep ==
    \/ ReadyBarrier \/ PublishDeadline \/ StartBarrier \/ DeadlinePasses \/ JoinWorkers
    \/ \E w \in BenchWorkers :
          \/ OperationStarts(w) \/ WorkerEnds(w) \/ FixReads(w) \/ FixRead(w)
          \/ FixSucceeds(w) \/ FixRetried(w) \/ FixFails(w) \/ CountOperation(w)
    \/ SnapshotBefore \/ SnapshotAfter \/ ReportEnds
    \/ \E r \in Prefetchers : PrefetcherTransfers(r) \/ PrefetcherBytes(r)

-----------------------------------------------------------------------------
(* BenchRow::from_measurement                                              *)

\* PhaseResult: the workers' counts added up.
operations == SumFunction([w \in BenchWorkers |-> bench[w].operations])
samples_taken == SumFunction([w \in BenchWorkers |-> bench[w].samples])
kind_operations(k) == SumFunction([w \in BenchWorkers |-> bench[w].ops[k]])
kind_dram_hits(k) == SumFunction([w \in BenchWorkers |-> bench[w].dram_hits[k]])
kind_samples(k) == SumFunction([w \in BenchWorkers |-> bench[w].kind_samples[k]])

\* demand_hit_delta, and tier_stats_delta for the other counters.
delta(c) == after.count[c] - before.count[c]
bytes_delta(x) == after.bytes[x] - before.bytes[x]

\* The index percentile takes of n sorted samples.
rank(n, requested) == (n * requested + 99) \div 100 - 1
HasPercentiles(n) == \A q \in {50, 99} : rank(n, q) \in 0 .. (n - 1)

(***************************************************************************)
(* A snapshot is exact: bytes and counts of tier reads and writes belong   *)
(* to the same events, up to saturation, and no counter ever falls behind  *)
(* a snapshot taken of it (StatsRecorder::snapshot; tier_stats_delta would *)
(* report a regressed counter).                                            *)
(***************************************************************************)
SnapshotCoherent ==
    \A s \in {before, after} \ {NoStats} :
        /\ \A x \in Transfers :
              /\ s.bytes[x] = saturating_add(0, PageLength * s.count[x])
              /\ s.bytes[x] <= bytes[x]
        /\ \A c \in Counters : s.count[c] <= count[c]

(***************************************************************************)
(* A finished measurement always makes a row: whatever the workers and the *)
(* prefetchers of the manager did around the two snapshots, every measured *)
(* operation was of one kind and was recorded by the manager exactly once, *)
(* as a DRAM hit or a lower-tier hit, between the snapshots, each kind     *)
(* that ran has latency samples with percentiles, and no counter regressed *)
(* (the errors of from_measurement and demand_hit_delta; README.md: "The   *)
(* two rates sum to 1.0").                                                 *)
(***************************************************************************)
MeasurementConsistent ==
    driver = "report" /\ operations > 0 =>
        /\ HasPercentiles(samples_taken)
        /\ \A k \in Kinds : kind_operations(k) > 0 => HasPercentiles(kind_samples(k))
        /\ kind_operations("point") + kind_operations("scan") = operations
        /\ \A k \in Kinds : kind_dram_hits(k) <= kind_operations(k)
        /\ delta("dram_hit") + delta("demand_hit") = operations
        /\ kind_dram_hits("point") + kind_dram_hits("scan") = delta("dram_hit")
        /\ \A c \in Counters : delta(c) >= 0
        /\ \A x \in Transfers : bytes_delta(x) >= 0
=============================================================================
