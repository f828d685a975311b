---------------------------- MODULE WriteBudget ----------------------------
(***************************************************************************)
(* The write budget of a tier (src/crates/tierbuf/src/tier/mod.rs): a      *)
(* token bucket that holds at most one day's write allowance, refilled by  *)
(* ticks of a deterministic clock.  Evicting threads take a page's worth   *)
(* of tokens and then write (pool.rs, evict_ticket); a write that fails    *)
(* gives nothing back.  A tick works in three steps that others may come   *)
(* between: it loads the fractional credit, compare-exchanges the new      *)
(* fraction, and only then adds whole bytes to the bucket.  The updates of *)
(* available_bytes are compare-exchange loops around a pure function       *)
(* (atomic.rs), so each is one step.                                       *)
(* The quantities are exact: the allowance fits u64, a day of nanoseconds  *)
(* fits 47 bits and their product u128, and the final min hides the        *)
(* saturation of the addition.                                             *)
(***************************************************************************)
EXTENDS Integers, FiniteSets, FiniteSetsExt

CONSTANTS Evictors,    \* threads that write pages to the tier
          Tickers,     \* threads that advance the refill clock
          Allowance,   \* daily_allowance_bytes
          PageSize,    \* PAGE_SIZE
          Day,         \* NANOS_PER_DAY
          Elapsed,     \* the durations a tick may be called with
          MaxClock     \* bound: total time the ticks add up to

ASSUME BudgetAssumption == /\ Allowance \in Nat
                           /\ PageSize \in Nat \ {0} /\ Day \in Nat \ {0}
                           /\ Elapsed \subseteq Nat
                           /\ MaxClock \in Nat

VARIABLES available,   \* available_bytes
          remainder,   \* refill_remainder: credit in bytes times nanoseconds
          writing,     \* the evictors between try_consume and the write's end
          tick,        \* ticker -> what it is doing
          (* History: time passed to tick, and the part of it whose credit *)
          (* has been taken into account.                                  *)
          clock, credited,
          (* History: bytes taken out of the credit, bytes the cap threw   *)
          (* away, bytes consumed, bytes written; and whether a tick of a  *)
          (* day or more was clipped to one allowance.                     *)
          issued, spilled, consumed, written, clipped

bucket == <<available, remainder>>
history == <<clock, credited, issued, spilled, consumed, written, clipped>>
budgetVars == <<available, remainder, writing, tick,
                clock, credited, issued, spilled, consumed, written, clipped>>

Idle == [at |-> "idle"]
Loaded(e, old) == [at |-> "loaded", elapsed |-> e, old |-> old]
Adding(n) == [at |-> "adding", added |-> n]

(* from_daily_allowance: the bucket starts full.                           *)
BudgetInit == /\ available = Allowance
              /\ remainder = 0
              /\ writing = {}
              /\ tick = [t \in Tickers |-> Idle]
              /\ clock = 0 /\ credited = 0
              /\ issued = 0 /\ spilled = 0 /\ consumed = 0 /\ written = 0
              /\ clipped = FALSE

-----------------------------------------------------------------------------
(* try_consume(PAGE_SIZE) succeeds.                                        *)
TryConsume(e) ==
    /\ e \notin writing
    /\ available >= PageSize
    /\ available' = available - PageSize
    /\ consumed' = consumed + PageSize
    /\ writing' = writing \cup {e}
    /\ UNCHANGED <<remainder, tick, clock, credited, issued, spilled, written, clipped>>

(* try_consume returns false: the eviction goes on to the next tier.       *)
Denied(e) ==
    /\ e \notin writing
    /\ available < PageSize
    /\ UNCHANGED budgetVars

(* Mutant: a write that wore the device is tried again on the same tokens. *)
WriteRetried(e, worn) ==
    /\ e \in writing
    /\ writing' \in {writing, writing \ {e}}
    /\ written' = IF worn THEN written + PageSize ELSE written
    /\ UNCHANGED <<bucket, tick, clock, credited, issued, spilled, consumed, clipped>>

(* The tier's write ends, having written to the device or not; the tokens  *)
(* of a failed one stay spent.                                             *)
WriteEnds(e, worn) ==
    /\ e \in writing
    /\ writing' = writing \ {e}
    /\ written' = IF worn THEN written + PageSize ELSE written
    /\ UNCHANGED <<bucket, tick, clock, credited, issued, spilled, consumed, clipped>>

-----------------------------------------------------------------------------
(* tick: an empty tick, or one of a zero budget, returns at once.          *)
TickLoad(t, e) ==
    /\ tick[t] = Idle
    /\ Allowance # 0 /\ e # 0
    /\ clock + e <= MaxClock
    /\ clock' = clock + e
    /\ tick' = [tick EXCEPT ![t] = Loaded(e, remainder)]
    /\ UNCHANGED <<bucket, writing, credited, issued, spilled, consumed, written, clipped>>

(* compare_exchange_weak fails, spuriously or not: the loop loads again.   *)
TickRetry(t) ==
    /\ tick[t].at = "loaded"
    /\ tick' = [tick EXCEPT ![t].old = remainder]
    /\ UNCHANGED <<bucket, writing, history>>

Credit(t) == (tick[t].elapsed % Day) * Allowance + tick[t].old
FullDay(t) == tick[t].elapsed >= Day

(* refill_bytes: a tick of a day or more fills the bucket, whatever the    *)
(* fraction adds up to.                                                    *)
RefillBytes(t) == IF FullDay(t) THEN Allowance ELSE Credit(t) \div Day

(* Mutant: the loaded fraction is still taken to be current.               *)
CreditAssumed(t) == TRUE

(* compare_exchange_weak found the fraction that was loaded.               *)
CreditCurrent(t) == remainder = tick[t].old

(* The new fraction is in; without a whole byte to add, tick returns.      *)
TickCas(t) ==
    /\ tick[t].at = "loaded"
    /\ CreditCurrent(t)
    /\ remainder' = Credit(t) % Day
    /\ tick' = [tick EXCEPT ![t] = IF RefillBytes(t) = 0 THEN Idle
                                   ELSE Adding(RefillBytes(t))]
    /\ credited' = credited + tick[t].elapsed
    /\ issued' = issued + RefillBytes(t)
    /\ clipped' = (clipped \/ FullDay(t))
    /\ UNCHANGED <<available, writing, clock, spilled, consumed, written>>

(* Mutant: the refill replaces what the bucket holds.                      *)
TickAddReplaces(t) ==
    /\ tick[t].at = "adding"
    /\ available' = Min({tick[t].added, Allowance})
    /\ tick' = [tick EXCEPT ![t] = Idle]
    /\ UNCHANGED <<remainder, writing, clock, credited, issued, spilled,
                   consumed, written, clipped>>

(* The whole bytes are added, up to the allowance.                         *)
TickAdd(t) ==
    /\ tick[t].at = "adding"
    /\ available' = Min({available + tick[t].added, Allowance})
    /\ spilled' = spilled + available + tick[t].added - available'
    /\ tick' = [tick EXCEPT ![t] = Idle]
    /\ UNCHANGED <<remainder, writing, clock, credited, issued,
                   consumed, written, clipped>>

ConsumeStep == \E e \in Evictors : TryConsume(e) \/ Denied(e)

RefillStep == \E t \in Tickers : \/ \E e \in Elapsed : TickLoad(t, e)
                                 \/ TickRetry(t) \/ TickCas(t) \/ TickAdd(t)

BudgetNext == \/ ConsumeStep \/ RefillStep
              \/ \E e \in Evictors, worn \in BOOLEAN : WriteEnds(e, worn)

BudgetSpec == BudgetInit /\ [][BudgetNext]_budgetVars

-----------------------------------------------------------------------------
Ticks == {Idle} \cup {Adding(n) : n \in 1 .. Allowance}
                \cup {Loaded(e, old) : e \in Elapsed \ {0}, old \in 0 .. Day - 1}

(* The bucket never holds more than a day's allowance and never goes below *)
(* zero, and the fraction stays below one byte (try_consume's checked_sub, *)
(* tick's min and its modulus).                                            *)
BudgetTypeOK == /\ available \in 0 .. Allowance
                /\ remainder \in 0 .. Day - 1
                /\ writing \subseteq Evictors
                /\ tick \in [Tickers -> Ticks]
                /\ {clock, credited, issued, spilled, consumed, written} \subseteq Nat
                /\ clipped \in BOOLEAN

(* What the budget is for: however evictions race ticks and each other,    *)
(* the bytes written to the device stay within one full bucket plus the    *)
(* daily allowance times the days elapsed.                                 *)
EnduranceBound == written * Day <= Allowance * Day + credited * Allowance

(* "many small ticks refill the same total number of bytes as one          *)
(* equivalent large tick" (tick's doc comment): the fraction kept is the   *)
(* one of all the time credited so far, however it was cut into ticks and  *)
(* whichever ticker's compare-exchange won, and the bytes issued are all   *)
(* the whole ones; only a tick of a day or more, which fills the bucket,   *)
(* may issue fewer.                                                        *)
FractionalCredit ==
    /\ remainder = (credited * Allowance) % Day
    /\ issued <= (credited * Allowance) \div Day
    /\ clipped \/ issued = (credited * Allowance) \div Day

Pending == MapThenSumSet(LAMBDA t : tick[t].added,
                         {t \in Tickers : tick[t].at = "adding"})

(* No token is lost or doubled between a consuming evictor and a ticker    *)
(* that has taken its credit but not yet added it: what was issued is in   *)
(* the bucket, consumed, on its way, or was thrown away by the cap, which  *)
(* throws away only what does not fit.                                     *)
TokensConserved ==
    available + consumed + spilled + Pending = Allowance + issued
=============================================================================
