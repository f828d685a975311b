# Formal verification of tierbuf

TLA+ specifications of the core of **tierbuf** (`src/crates/tierbuf`), a tiered
buffer manager: a fixed set of 64-KiB DRAM frames caches logical pages whose
backing copies live on slower tiers.  Pages move between DRAM and the tiers
while callers hold guards on them, a cooler evicts, prefetch workers fault
ahead, and shutdown flushes.  Nearly all of the correctness of the program is in
the interleaving of these threads, which is what the specifications explore.  Beside
the page protocol they cover the policy's heat and demotion choices, the cost and
statistics accounting, the background workers as threads, and the measurement
window of the benchmark (`src/crates/tierbuf-bench`).

## 1. The system

### Components, their state and operations

| Component | Source | State | Operations |
|---|---|---|---|
| Hybrid latch | `latch.rs` | one word: 48-bit version, 16-bit lock state | `lock_shared`, `lock_exclusive`, `try_upgrade`, `optimistic`, `validate`, guard drops |
| Swip (tagged page handle) | `swip.rs` | one atomic word: Evicted(pid), Hot(frame) or Cooling(frame) | `load`, `try_swizzle`, `try_mark_cooling`, `try_resurrect`, `try_unswizzle` |
| Frame and frame table | `frame.rs` | per frame: pid, owner, `pin_control` (pins or EVICTING), generation, dirty, latch, bytes; free queue | `try_pin`, `unpin`, `try_claim_eviction`, `release_eviction`, `publish_reserved_pin`, `install`, `clear_after_eviction`, `pop_free`, `push_free` |
| Cooling queue | `cooling.rs` | FIFO of tickets (frame, pid, generation) | `push_unique`, `pop` |
| Fault coordinator | `pool.rs:168-384` | per page: active flight, completed flight, next generation; mutex and condvar | `enter`, `complete`, `finish`, leader's `Drop` |
| Page directory | `pool.rs:100-160` | pid to backing location | `lookup`, `backing`, `insert`, `restore` |
| Buffer manager API | `pool.rs` | the pages map, `next_pid`, `stopping`, operation gate | `allocate`, `fix_shared[_with]`, `fix_exclusive`, `fix_optimistic`, guards |
| Eviction and cooling | `pool.rs:1173-1470` | cooling queue, sample cursor | `acquire_frame`, `enqueue_cold_candidates`, `background_cooling_step`, `evict_ticket` |
| Prefetch | `pool.rs:858-933, 1584-1671` | pending set, in-flight count, bounded channel, markers | `prefetch`, worker loop, `prefetch_fault` |
| Shutdown | `pool.rs:964-987, 1488-1534` | shutdown lock, stopping flag | `shutdown`, `join_workers`, `flush_resident_pages` |
| File tier | `tier/file.rs` | held slots, stack of freed slots, high-water mark, bytes | `read`, `write`, `free`, `used_bytes` |
| Mock tier | `tier/mock.rs` | a map of pages, freed slots, high-water mark, read attempts and the one to fail | `read`, `write`, `free`, `fail_nth_read` |
| Write budget | `tier/mod.rs` | available bytes, fraction of a byte | `try_consume`, `tick` |
| io_uring reader | `uring.rs`, `sys/uring.rs` | command channel, pending and in-flight requests, rings | `read`, `shutdown`, the ring thread |
| Economic policy and heat | `policy/` | the epoch; per frame one word of heat and epoch | `on_access`, `on_epoch`, `demotion_target`, `admit_to_dram` |
| Cooler and epoch worker | `pool.rs:386-401, 989-1135, 1292-1326, 2131-2159` | their signals, `fault_ins_this_epoch`, `exhausted_frame_request`, the weak handles | the two loops, `background_cooling_step`, `tick_epoch`, `wait_for_worker`, `Drop` |
| Residency cost | `metrics.rs:366-578` | residency and cost per tier, the all-DRAM counterfactual | `tick`, `report` |
| Statistics | `metrics.rs:40-330` | saturating counters behind a gate | `record_*`, `snapshot` |
| Benchmark | `tierbuf-bench/src/main.rs` | per worker: operations, hits, samples; two snapshots | `run_fraction`, `run_phase`, `run_worker`, `from_measurement` |

### How they interact

A **fix** loads the page's Swip.  If it names a frame it pins the frame, takes
its latch, and only then checks that the frame is still the page's (the Swip is
not protected by anything while this happens); if not, it drops both and tries
again.  If the page is evicted it enters the page's **fault coordinator**: one
caller leads, the others sleep and replay its outcome.  The leader looks the
backing location up, **acquires a frame** (from the free queue, or by sampling
candidates into the cooling queue and evicting tickets itself), reads, installs,
converts its reservation into a pin, publishes the frame in the Swip and unpins.

**evict_ticket** checks its ticket, reserves the frame (zero pins to EVICTING),
takes the exclusive latch, checks the ticket again, writes the page if it is
dirty or has no backing, publishes the location, withdraws the Swip, removes the
prefetch marker, clears the frame, releases it, returns it to the free queue and
frees the superseded slot.  It runs in foreground threads, in the cooler and in
the shutdown flush.

Below the pool, a tier **write** may be refused by the tier's write budget, by a
full slot allocator or by the device.  A fault reads its backing page through the
tier or, when the tier has a file descriptor, through the **io_uring reader**: the
caller sends a request to one ring thread, which owns the page the kernel writes
into until the completion is seen.

Which tier an eviction writes to is the **policy's** choice, made from the frame's
heat and a table of the tiers that is read just before; the write-back then walks
from that tier downwards.  The **epoch worker** advances the heat clock, refills
budgets, zeroes the fault count and samples frames and tiers for the cost report.
The **cooler** sleeps until its interval passes or an exhausted caller signals it.
Both hold the manager only weakly and end with `shutdown` or with the last handle.

**Prefetch** checks a frame out in the caller's thread, sends it through a
channel, and a worker faults the page with that frame in the same coordinator.

### What is hard

* every address taken from a Swip, every cooling ticket and every looked-up
  location is stale by the time it is used; correctness rests on the second check;
* a frame has four kinds of owner (free queue, checkout, prefetch task, page) and
  changes hands without a lock;
* the coordinator recognises its flights by a wrapping number and shares one
  condition variable among two kinds of sleeper;
* the exclusive latch is released by a load and a store, not a compare-exchange;
* errors (exhausted pool, denied write, failed read, shutdown) may strike at any
  of these points and must give back exactly what was taken;
* the kernel writes into a request's page while the thread that owns the page may
  be failing, and completions are matched by a wrapping number;
* the budget's refill moves credit between two atomics in separate steps;
* prefetch submission does not take part in the operation gate that shutdown uses;
* the cooler's request flag is swapped away before the mode is looked at, and a
  worker may be the one to drop the manager it works for;
* heat, costs and statistics are read piecemeal while what they describe changes.

`PROJECT.json` lists each of these hazards at its line, with the properties that
cover it.

## 2. Modules

| Module | Models | Extends / uses |
|---|---|---|
| `SingleFlight` | abstract: a page's fault is a sequence of flights, each with one leader, joined by followers that receive that flight's outcome | |
| `FaultCoordinator` | `FaultCoordinator`, its mutex-protected state and condition variable | instantiates `SingleFlight` |
| `FaultCoordinatorProofs` | inductive invariant and refinement, proved | `FaultCoordinator` |
| `HybridLatch` | every load, compare-exchange and store of the latch word | |
| `HybridLatchProofs` | inductive invariant and theorems | `HybridLatch` |
| `PoolState` | the shared state and the atomic operations on it | |
| `Eviction` | sampling, tickets, `evict_ticket` | `PoolState` |
| `FaultIn` | `acquire_frame`, `fault`, `prefetch_fault` | `Eviction` |
| `BufferPool` | the API, guards, prefetch, cooler, shutdown; `Spec` | `FaultIn` |
| `PageStore` | abstract: pages with one current value and a readers-writer guard | |
| `PoolProperties` | the pool's properties, fairness, and the refinement mapping | `BufferPool`, instantiates `PageStore` |
| `PoolInvariant` | the pool's inductive invariant; the steps of `evict_ticket` and of the frame search preserve it | `PoolProperties` |
| `PoolProofs` | the other steps, the theorems about guards, frames and pins, and those about prefetch requests, markers and the flush | `PoolInvariant` |
| `PoolDataProofs` | the invariant about bytes and slots, its theorems, and the refinement of `PageStore` | `PoolProofs` |
| `UringReader` | readers, stoppers, the ring thread, both rings and the kernel's part in them | |
| `UringReaderProofs` | inductive invariant and theorems | `UringReader` |
| `SlotStore` | abstract: what the trait `TierBackend` promises | |
| `FileTier` | the slot allocator and the contents of the backing file | instantiates `SlotStore` |
| `WriteBudget` | evictors that consume and write, tickers that refill | |
| `BudgetedTier` | an eviction's use of both: pay, then write | `FileTier`, `WriteBudget` |
| `TierProofs` | inductive invariants of the file tier and of the budget, partition and refinement, and what holds of both together | `BudgetedTier` |
| `HeatTracker` | a frame's heat word, the epoch, racing accesses | |
| `Demotion` | the economic policy's choice and the walk of `evict_ticket` | `HeatTracker` |
| `Workers` | cooler and epoch threads, their signals, modes and ends | |
| `ResidencyCost` | `tick_epoch`'s sampling and `ResidencyCost` beside moving pages | |
| `StatsRecorder` | the counters and their snapshot | |
| `Benchmark` | one fraction of the degradation benchmark over the statistics | `StatsRecorder` |
| `MockTier` | the in-memory tier | instantiates `SlotStore` |
| `Services` | the seven modules above side by side; `Spec`, `Fairness` | all seven |
| `ServicesProofs` | inductive invariants of heat, demotion, statistics, benchmark and costs, and the mock tier's refinement | `Services` |
| `MCFaultCoordinator`, `MCHybridLatch`, `MCPool`, `MCUringReader`, `MCBudgetedTier`, `MCServices` | instances for TLC | |

The pool uses the coordinator and the latch through their abstractions: `leader[p]`
and the place `follow` are `SingleFlight`'s flight, which the coordinator is
proved to implement, and a frame's latch is the set of its holders, which
`HybridLatchProofs!Exclusion` justifies.  It sees a tier as a set of slots of which
a write takes some free one or fails, which is `SlotStore`, a refused budget as a
failed write, and an io_uring read as a read that returns the page or fails, which
is what `UringReader` checks of the engine.

### State and actions

Each action is one atomic step of the code: one atomic read-modify-write, one
critical section of a mutex, or one run of thread-local code with at most one
access to shared state.  A thread's program counter and locals are `th[t]`.  Where
the model merges accesses that the code makes separately:

* a frame's `pid` and `owner_swip` are one field.  Both are written under the
  reservation and the exclusive latch (`install`, `clear_after_eviction`), and the
  only reader that does not hold either, the sampler, is given both possible
  owners (`MarkCandidate`);
* `resident_is_exact` and `exact_cooling_owner` read the Swip, the pid and the
  generation at once.  Under pin or reservation, which is where the answer is
  used, none of them can change except Hot/Cooling, which either answer admits;
  the unprotected first check of `evict_ticket` is repeated under reservation;
* the flush's load and mark of a Swip are one step; workers have been joined by
  then and only guards remain, which do not touch the word;
* the pending set and the in-flight count of prefetch are one set.  The code's two
  steps differ only in transient skips;
* `try_send` never finds the channel full, because its capacity is the in-flight
  limit, each task in it holding an in-flight slot;
* the loop over tiers in `evict_ticket` ends in some free slot or in failure: which
  tier, and whether the budget, capacity or device refused, is nondeterministic;
* the failure branches of `try_swizzle` and `try_unswizzle` are left out because
  `PublishCannotFail` shows that they cannot be taken;
* an optimistic snapshot's version is valid as long as no exclusive section began
  since it was taken: each frame keeps the set `snaps` of snapshots still valid,
  and every `LockExclusive` empties it.  That a version comparison means this, short
  of a full turn of 2^48, is `HybridLatchProofs!ValidatedReadsSound`;
* a thread holds at most one guard at a time.

In `UringReader` a request is named by the reader that makes it, and an entry of the
rings carries the request whose page its pointer means beside its `user_data`, so
that answering the wrong caller is visible.  `push_read` can only fail on a full
submission queue (a page's length fits `u32`), so `submit_pending`'s other error
branch is left out; the branch for an unknown `user_data` is shown dead by
`CompletionMatches`.  `FileTier` takes one step per operation because
each operation holds the state mutex throughout; `FileTier`'s failed write may leave
any mixture of old and new bytes.  In `WriteBudget` the compare-exchange loops of
`atomic.rs` around a pure function are one step; `tick`'s loop over the remainder,
whose result is used in a second atomic, is not.

`Services` puts parts side by side that share no state (demotion reads the heat, and
both are in it).  The constant `Casts` and the variable `cast` choose which part a
behaviour is about; the others stay as they begin, so the states of the run are the
sum of the parts' and not their product.  In the parts themselves:

* `HeatTracker`: an access is the load of the epoch, the load of the word and the
  compare-exchange, which may fail spuriously.  Accessors hold the frame's latch, so
  the word is reset only when no access is under way.  `ideal` is not in the code: it
  is the heat of a tracker whose accesses take effect in one step;
* `Demotion`: prices, latencies and costs are integers compared exactly, where the
  code divides doubles; a negative value stands for NaN, infinite or negative.  The
  tier table is read a tier at a time while budgets move;
* `Workers`: what a pass evicts and whether it succeeds is nondeterministic.  The mode
  and the cooling target, zero or not, are chosen initially and never change.
  `wait_for_worker` is its first check, its check and comparison under the mutex, and
  its sleep; `notify` needs that mutex.  Callers borrow the owner's handle, as the API
  takes `&self`.  `generation` does not wrap;
* `ResidencyCost`: costs are pages times time times price, and the code's GiB and
  month only scale them.  One lower tier; evictions, allocations and faults are the
  steps that change what a sample sees;
* `StatsRecorder`: an event of one counter is one step, one of two counters is two;
* `Benchmark`: a fix hits DRAM or a lower tier; prefetch workers keep reading through
  both snapshots; the random reservoir of latencies is its size;
* `MockTier`: every operation is one step under its mutex.

Page contents are members of `Values`, locations are `Slots`, and resident addresses
are frame numbers.  Heat only orders candidates, so `SampleFrame` takes any order.

## 3. What is checked

| Run | Question | Answer |
|---|---|---|
| `coordinator` | Can two threads lead, a wakeup get lost, an outcome reach the wrong caller? | No, with abandoned leaders, spurious wakeups and a generation that wraps after two flights |
| `latch` | Does the split release lose an update? Does the count run into the sentinel? Can a validated optimistic read have overlapped a writer? | No |
| `pool_callers` | A writer and an optimistic reader, one frame, two pages, failing I/O, declined admission and colliding generations: is a validated snapshot always the page's content, is every frame and every slot in one place, is the looked-up slot still live when it is read, and is the pool a `PageStore`? | Yes |
| `pool_prefetch` | Beside the cooler and a prefetch worker, do guards stay exact, do frames, reservations and in-flight slots survive every hand-over, can a publication or withdrawal of a page fail or a marker outlive its residency? | They do; neither can happen |
| `pool_liveness` | Does an Ok shutdown leave everything on a lower tier, also after failed attempts? Does every fault land, though guards may be held for ever? Does shutdown return once callers drop their guards? | Yes |
| `uring` | Can a completion reach the wrong reader, a page be freed under the kernel, a request be lost, an accepted read be refused, a read or shutdown hang? | No, with failing enters, error completions, a `user_data` that wraps and a second shutdown |
| `budgeted_tier` | Do failed writes, double frees and arbitrary locations leave the slots partitioned, is the file tier a `SlotStore`, do racing ticks and evictions lose or make up tokens or fractions, and can writes exceed the endurance bound? | Slots stay partitioned, it is one, and neither happens |
| `services`, cast heat | Can racing accesses and a wrapping epoch make a frame look hotter than it is? | No |
| `services`, cast demotion | Can a hotter page be sent to a slower tier than a colder one, or to a tier without budget, whatever the tiers report? | No |
| `services`, cast cost | Can a tick miss a page that moves while it samples, or the report claim that tiering cost more than DRAM when no tier does? | No |
| `services`, cast bench | Is every snapshot exact up to saturation, and does every finished measurement make a consistent row? | Yes |
| `services`, cast workers | In either mode, is an exhausted caller's request ever forgotten by a pool that has a cooling stage? Do both workers leave, however the manager ends? | It is not; they do (see below) |
| `services`, cast mock | Is the mock tier a `SlotStore`? | Yes |
| `prefetch_marker` | The `debug_assert` that no prior marker exists | Violated |
| `shutdown_drain` | "Shutdown drains accepted work" | Violated |
| `shutdown_deadlock` | Shutdown returns `Contended` "instead of deadlocking" | Violated |
| `heat_race` | An access decays old heat "once per elapsed epoch, then adds" | Violated |

Every property of a passing run has a mutant: a plausible bug in one action under
which TLC must find the property violated.

### The four violations

* `prefetch_marker`: `evict_ticket` unswizzles the page (line 1440) and removes its
  marker later (line 1453).  In between another thread may prefetch the page again;
  its `debug_assert!(previous.is_none())` fails in debug builds.  In release builds
  the late removal deletes the new marker, so a prefetch hit goes uncounted.  No
  page state is affected.
* `shutdown_drain`: `prefetch` reads `stopping`, then sends.  Shutdown and the exit of
  the workers fit in between; the task stays in the channel, with its frame and
  in-flight slot, until the manager is dropped.
* `shutdown_deadlock`: `shutdown` takes the operation gate for writing before its
  deadline starts.  A fix that waits for a latch holds the gate for reading; while
  another caller keeps the guard that owns the latch, shutdown does not return.
* `heat_race`: `on_access` loads the epoch once, before its loop (`heat.rs:51`).  If
  the epoch advances and another access stores the new epoch first, the wrapping
  difference is huge: the frame's heat is replaced by a single access and its epoch
  moves back.  Heat is lost, never invented (`HeatNeverOverstated`), so the effect is
  a page demoted too early.

Three more observations that need no run.  `WorkersExit` has one exception: after the
owner dropped its handle without `shutdown`, each worker's upgraded handle keeps the
manager alive for the other, so the workers go on as long as their passes and ticks
keep overlapping; the property says that this is the only way.  And `README.md:197-198`
and `pool.rs:74-75` say that Demand mode evicts only after demand fault-ins, while an
exhausted request, even one that was satisfied meanwhile, activates a pass too.
Third, `validate_config` accepts a `cooling_ratio` of 0.0 (`pool.rs:2167`); the cooling
target is then 0, `background_cooling_step` returns before it looks at the request
(`pool.rs:1295`), and in either mode no pass ever begins: requests stay set and callers
evict for themselves, although `pool.rs:77-79` says that Watermark mode maintains the
low watermark.  `RequestServed` therefore has a non-zero target as its hypothesis;
without it TLC finds the request that is never served.

### Bounds

One frame and two pages make every fix fault and every fault evict; two frames in
the prefetch run let a page come back in another frame while its first evictor is
still at work.  One slot more than pages lets a dirty page be rewritten while its
old slot is live.  `GenerationMod = 1` makes every ticket's generation match, the
worst case of a wrapped counter (`pool_callers`, `pool_prefetch`); 2 tells
neighbouring residencies apart (`pool_liveness`).
`MaxRounds = 1` is one round of `acquire_frame`: more rounds repeat the same steps
from states one round reaches.  `Values = {0, 1}` tells a new page, an old and a
new write apart.  `WarmInit` starts with every page allocated and evicted, a state
that allocation, eviction and guard drops reach, so that the runs about prefetch
and shutdown spend their states there.  In the pool's runs symmetry
is used on slots only, and no run that checks liveness uses any.

`UringReader`: three readers over two entries fill the channel and the submission
queue and put two reads in the kernel at once; three `user_data` values make the
counter wrap with requests in flight.  One stopper that may call `shutdown` twice
stands for any number, because `shutdown_lock` lets one call in at a time.
`BudgetedTier`: two slots let one be freed, reused and freed again while the other is
held; offsets count in half pages up to a page past the end, so misaligned and
outlying locations occur.  An allowance of three bytes, pages of two and a day of
four units divide neither each other nor the ticks of 1, 3 and 6 units; `MaxClock` = 9
is two days and a fraction, enough to empty and refill the bucket.

`Services`: heat of three bits, an access worth 2 and an epoch modulo 8 saturate the
heat, shift it out completely and wrap the epoch, with two accessors and three ticks;
`MaxTicks + MaxShift < EpochMod` keeps a word from being a whole turn old, as 2^32
epochs do in the code.  All pairs of two tiers with two prices, two latencies, with
and without budget, some misreported.  Two pages, two frames and two evictors let a
page be written back, read in again and evicted by another thread while its first
evictor has not freed the old slot, over two ticks.  Counters saturate at 8, so the
bytes of two transfers of 5 saturate; two bench workers share two operations per
phase, one sample of each kind per worker.  Two frames with a watermark of one and
two requests let a request be served, satisfied by others, or overtaken by an epoch;
cooling targets are 0 and 1, as the gate only asks whether there is one.
Three mock slots let a slot be freed twice while others are held.

### Fairness

Each thread inside a call keeps taking steps (`Fairness`, weak fairness of
`CallStep(t)`): operating-system scheduling.  It covers waiting for a latch or
reservation only when the lock stays available.  No caller is obliged to start an
operation or to drop a guard.  `FlushFairness` says that the flush's pass ends and
that its deadline eventually passes.  `ShutdownReturnsOnceDropped` has the dropping
of guards as its hypothesis; `FollowersAnswered` does without it.  In `Services` the
cooler, the epoch worker, a caller inside a call and the owner inside `shutdown` or
`Drop` keep running, and the cooler's interval of milliseconds ends; an epoch may
last for ever, nobody has to call, and no eviction has to succeed.  In `FaultCoordinator` each
thread's steps are weakly fair and a leader eventually finishes or unwinds.  In
`UringReader` readers, stoppers and the ring thread inside a call keep running and
the kernel finishes every read it was given; nothing obliges anybody to call, and
the ring may fail at any time or never.  Deadlock is not checked in the uring
run because the engine really stops: after shutdown nobody has anything to do; the
same holds of the services run, where the workers exit and the bounded instances end.

## 4. What is proved

TLAPS checks the following for every number of threads and every value of the
constants that satisfies the modules' assumptions.

**`FaultCoordinatorProofs`.**  `IInv` is the conjunction of `TypeOK`, `SingleLeader`
(a leader exists exactly while a flight is active, and holds its generation),
`WaiterAccounting` (the active and the completed flight's counts are the numbers of
followers waiting for them) and `SleepersAwaited` (whoever sleeps waits for
something that has not happened).  None of the parts is inductive alone: a leader's
uniqueness needs the accounting to know that a completed flight of an equal,
wrapped generation has drained, and the accounting needs the leader's generation.
Cardinality arguments are in the `Follower...` lemmas.  `Refinement` maps the
coordinator to `SingleFlight`; each step is a step of it or a stutter.

**`HybridLatchProofs`.**  `IInv` adds to the checked properties that a word loaded
for a later compare-exchange permits the transition it was loaded for
(`LoadedFits`), that the lock state counts its holders (`HoldersOK`), and
`SnapshotTracks`: the version equals the snapshot plus the number of exclusive
releases since, modulo the version's range, and a writer counted zero times is
still inside.  `OptimisticSound` follows because a validated word is unlocked;
`GuardsCounted` and `Exclusion` read the word's lock state off its holders.

**`PoolInvariant`, `PoolProofs`.**  The pool's invariant `IInv` says that a thread's
*place* (its operation and program counter) determines what it owns, has reserved and
has pinned, and that the shared state agrees:

* `ThreadOK(t)`, what a place requires of the thread's own view: it exists in the
  table of places (`PlaceOK`), has the locals the place uses (`LocalsOK`), is
  registered as leader while it leads (`LeadOK`), still finds its page evicted until it
  publishes it (`VacantOK`), has installed the identifier it publishes
  (`InstalledOK`), keeps the exact frame while it holds a guard (`ExactOK`), keeps its
  ticket exact after the second check (`EvictorOK`), and holds its latch (`LatchOK`);
* `InOnePlace(f)` and `PinOK(f)`: every frame is in one of free queue, a thread's hands,
  a queued task, or one page, and `pin_control` is EVICTING exactly for one reserver and
  otherwise the number of pins to be released;
* `OccupantOK`, `FreshOK`, `LatchExcludes`: a resident page's frame bears its
  identifier, identifiers are handed out once, a latch with a writer has no readers.

None of `FrameConservation`, `PinAccounting` and `GuardExact` is inductive alone: that a
release returns a frame owned once needs the thread's place, that the place's frame
is still the right one needs its reservation or pin, that a reservation excludes
everyone else needs the pin count, and that a publication finds the Swip evicted
needs the unique leader.  `PublishCannotFail` is `VacantOK` and `EvictorOK`.  Each action
has its own step; lemmas named for what a step does to the shared state (`...Keeps`)
say once which parts it can disturb.  The type is stated as `\E D : TypedOver(D)`,
types without a bound on the bytes: what bytes a frame holds is the subject of the
next invariant and need not be known here.

`RInv`, inductive on top of `IInv`, is about what outlives a single operation:

* `InFlightOK`: a page is pending exactly while one submitter, one queued task or one
  worker has its request;
* `MarkersOK`: a marker names the generation of a residency that exists, of one that the
  next step begins, or of one whose evictor is about to remove the marker.  Only the
  marker's own fault and eviction come between, since whoever else touches the page
  would have to lead its fault or reserve its frame;
* `FlushOK`: while a shutdown flushes, no thread is inside the gate and the prefetch
  workers have exited, so a frame that a pass has found empty stays empty.

Most steps are `Steady`: they move neither a request nor a page and mark nothing, and
`SteadyKeeps` deals with them at once.  `PrefetchesAccounted` and `MarkersCurrent` follow.

**`PoolDataProofs`.**  `DInv` says where a page's bytes are:

* `BackingOK`: every canonical page outside DRAM has a live slot, and no two pages
  share one;
* `OwedOK`: every other live slot is owed by exactly one evictor, which has written it
  and not published it, or has published its successor and not freed it;
* `CleanOK`: a frame that is not dirty agrees with its page's slot.  This is what makes
  it right to withdraw a clean page without writing;
* `StoredOK`: only page contents are stored, and a latched frame has no valid snapshot;
* `ThreadData(t)`: what an evictor knows of the slots it is exchanging, a leader of the
  slot it looked up (it stays the page's current one while the thread leads, since
  only the leader can make the page resident and only a resident page can be
  evicted) and of the frame it filled, and a reader of its snapshot.

It is inductive together with `IInv`.  `SlotsAccounted`, `FaultSourcesLive`,
`SnapshotsCurrent` and the exact `TypeOK` follow from it, and with `FlushOK` also
`ShutdownFlushes`: empty frames leave every page evicted, and an evicted page is backed.  `Implements` is the refinement
of `PageStore`.  Each step's lemma shows, beside `DInv'`, that every page keeps the value
`valueBar` assigns it, except at the first `Swizzle` of a new page, which is `Create`, and at
`WriteGuard`, which is `Write`; so evictions, faults, prefetches and flushes are
invisible.  The guards' half rests on `Exclusion`: two guards of one page name the same
frame, whose latch keeps an exclusive one apart from the others.

**`TierProofs`.**  `TierInv` adds to the partition of slots that a
held slot holds data and no torn write.  `StepContract` maps each operation of the
file tier to one of `SlotStore`.  The budget's invariant `BudgetInv` relates tokens,
credit and bytes: bytes written are paid for (`PaidFor`), credit is that of all the time
credited (`FractionalCredit`), and every byte issued is in the bucket, consumed, thrown
away by the cap, or owed by a ticker between its two atomics (`Accounted`).  The sum over
tickers is characterised by its value on sets (`IsSum`) rather than by recursion.
`TierComposes` shows that a behaviour of the composition is one of each part, which
carries the partition and the refinement over.

**`UringReaderProofs`.**  `IInv` relates the request tables and both rings: what is in a
ring is in flight under its `user_data` (`RingMatches`), no `user_data` is in two places
(`RingDistinct`), each unanswered read is in one place (`Located`), a stopper past the gate
has shut readers out (`Gated`), so nothing comes behind the shutdown command
(`ShutdownLast`).  That a wrapped `user_data` is never reused in flight needs the search
for a free one to succeed, which is counted from the bound on requests.

**`ServicesProofs`.**  The parts of `Services` share nothing but the heat that demotion
reads, so each has an invariant of its own that the steps of the others leave alone.

* *Heat.*  `HeatInv`: the word's epoch, and each epoch an accessor loaded, is at most
  `ticks` behind the global one (`Recent`), and the word's heat decayed to now is at most
  the ideal heat (`HeatNeverOverstated`).  A compare-exchange after an old load of the epoch
  stores the word's heat decayed to that epoch, which the remaining epochs decay further,
  since shifts compose (`ShiftsCompose`, `DecaysCompose`); or, if the word is newer than
  the load, the difference wraps and nothing of its heat is kept.  That loss is the
  violation of `heat_race`; heat is never gained.  The proof needs that the epoch counter
  makes less than a full turn (`HeatAssumption`, see Bounds).
* *Demotion.*  `DemotionImplies`: whatever tiers an evictor has read one by one,
  `demotion_target` is monotone in heat (`HotterFaster`).  What is worth it for the hotter of
  two pages is worth it for the colder; if the colder one's choice still is, both choose it,
  and if not, every tier the hotter one may choose is faster.
* *Statistics.*  `StatsInv`: of each transfer there is a k such that the bytes are those of k
  transfers, saturated, and the count is k and one for each recorder halfway inside the
  gate.  A snapshot waits for the gate, so nobody is halfway and both agree.
* *Benchmark.*  `BenchInv` adds where the workers are while the driver waits (`PhaseOrder`),
  that the snapshots are exact and ordered (`SnapsOrdered`) and that each hit counter has
  grown since the phase's first snapshot by the sum of what the workers have counted
  and are about to count (`BenchCounts`).  The row's sums over workers are `SumFunction`s;
  what is needed of them (`SumNat`, `SumAdds`, `SumGrows`, `SumChanges`) is shown from
  a function on subsets that satisfies the sum's equations, by least counterexample,
  as induction over data is not available.
* *Cost.*  `CostInv`: a page that an evictor works on keeps one slot more than evictors
  are about to free (`SlotRemains`); of the pages allocated when a tick began, those
  without a slot in frames already passed are no more than the pages counted so far
  (`Counts`).  A page move never lets a page lose its last slot or its place while it has
  none (`PagesRemain`), so what was passed stays counted and what left a frame is found
  in the tier.  That is why frames are sampled before tiers, and why the write must
  precede the clearing of the frame.  The totals follow by distributivity (`Charges`).
* *Mock tier.*  `MockInv` says which slots hold a page; each operation is one of
  `SlotStore`.

The assumptions are those of the modules (`PoolAssumption`, `UringAssumption`, ...): sizes
are positive, `None` is none of the values it stands beside, and zero is a page content.
In `ServicesProofs` recorders, workers, pages and evictors are finite in number, a shift by
the width of the heat leaves nothing (`WidthAssumption`), and demand counters do not saturate.
The theorems start from the code's initial state; the runs that begin in `WarmInit`
check the same invariants from there.

## 5. Model-checked only

Liveness (`FollowersAnswered`, `ShutdownReturnsOnceDropped`, `CallerNotStranded`,
`CallsReturn`, `RequestServed`, `WorkersExit`) depends on fairness, which is outside
what the prover handles.  Every other property that a passing run checks is also
proved.

## 6. Not modelled

* Handles of another manager (`validate_handle`, the owner binding of `swip.rs`) and
  the bit encodings of Swip and latch addresses.
* What `Drop` does after it has signalled the workers: it withdraws the Swips that are
  still resident (`pool.rs:1812-1829`), when only handles without a manager are left.
* The unwinding of a panicking ring thread (`InflightRequests::drop`), the opening,
  sizing and configuration checks of the file tier and the manager, and the
  conversion of DWPD to an allowance.
* Rounding: the economics and costs are floating-point in the code and exact here.
  TLC cannot evaluate doubles.
* The policy's `admit_to_dram`, whose answer the pool takes as nondeterministic.
* The metrics facade, system-call wrappers, the benchmark's command line, random
  sequences and output, and the plotting scripts.

## 7. Plan

Every safety property, action property and refinement of the runs is proved.  What could
be added next:

1. the bit encodings of `swip.rs` and the owner binding of foreign handles;
2. the unwinding of the ring thread;
3. the steps of the liveness arguments that are safety: `SleepersAwaited` and
   `AcceptedReadsDrained` are the first, a rank for `RequestServed` would be the next.
