--------------------------- MODULE FaultCoordinator ---------------------------
(***************************************************************************)
(* The per-page fault coordinator of pool.rs (FaultCoordinator, FaultState, *)
(* FaultLeader): a mutex-protected state, one condition variable, and the  *)
(* rule that a completed generation stays until each registered waiter has *)
(* replayed its outcome.                                                   *)
(*                                                                         *)
(* Every critical section runs under the coordinator's mutex and gives it  *)
(* up only inside Condvar::wait, so one action is one critical section: it *)
(* starts where the mutex is acquired and ends where it is released or     *)
(* where the thread goes to sleep.  Condvar::wait may also return without  *)
(* a notification.                                                         *)
(***************************************************************************)
EXTENDS Integers, FiniteSets

CONSTANTS Threads,       \* the threads that fault on the page
          Results,       \* what a leader may hand to finish()
          Abandoned,     \* Failure(Contended): what a dropped leader leaves
          NoOutcome,     \* no outcome yet
          None,          \* Option::None
          GenerationMod  \* next_generation wraps at this value (2^64)

Outcomes == Results \cup {Abandoned}
Generations == 0 .. (GenerationMod - 1)
ActiveFault == [generation : Generations, waiters : Nat]
CompletedFault ==
    [generation : Generations, outcome : Outcomes, remaining_waiters : Nat]

ASSUME FCAssumption ==
    /\ IsFiniteSet(Threads)
    /\ GenerationMod \in Nat \ {0}
    /\ None \notin ActiveFault
    /\ None \notin CompletedFault

VARIABLES
    next_generation,
    active,      \* None or [generation, waiters]
    completed,   \* None or [generation, outcome, remaining_waiters]
    pc,          \* where each thread is inside enter(), or whether it leads
    asleep,      \* the condition variable's wait set
    generation,  \* the generation a follower waits for, or a leader leads
    result       \* the last outcome enter() returned to t as a follower

coordinator == <<next_generation, active, completed>>
vars == <<next_generation, active, completed, pc, asleep, generation, result>>

(***************************************************************************)
(* Type correctness.  The counters stay natural numbers, so the            *)
(* checked_sub of a replaying follower cannot underflow.                   *)
(***************************************************************************)
TypeOK ==
    /\ next_generation \in Generations
    /\ active \in {None} \cup ActiveFault
    /\ completed \in {None} \cup CompletedFault
    /\ pc \in [Threads -> {"idle", "entering", "late", "follower", "leader"}]
    /\ asleep \in SUBSET Threads
    /\ generation \in [Threads -> Generations]
    /\ result \in [Threads -> Outcomes \cup {NoOutcome}]

Init ==
    /\ next_generation = 0
    /\ active = None
    /\ completed = None
    /\ pc = [t \in Threads |-> "idle"]
    /\ asleep = {}
    /\ generation = [t \in Threads |-> 0]
    /\ result = [t \in Threads |-> NoOutcome]

-----------------------------------------------------------------------------
Enter(t) ==
    /\ pc[t] = "idle"
    /\ pc' = [pc EXCEPT ![t] = "entering"]
    /\ UNCHANGED <<coordinator, asleep, generation, result>>

\* The head of enter()'s outer loop: a first call, or a late caller that woke.
AtLoopHead(t) == pc[t] = "entering" \/ (pc[t] = "late" /\ t \notin asleep)

\* A flight is under way: register as a waiter and sleep.
Register(t) ==
    /\ AtLoopHead(t)
    /\ active # None
    /\ active' = [active EXCEPT !.waiters = @ + 1]
    /\ generation' = [generation EXCEPT ![t] = active.generation]
    /\ pc' = [pc EXCEPT ![t] = "follower"]
    /\ asleep' = asleep \cup {t}
    /\ UNCHANGED <<next_generation, completed, result>>

\* Mutant: a caller that arrives after completion is served the old outcome.
JoinDrained(t) ==
    /\ AtLoopHead(t)
    /\ active = None
    /\ completed # None
    /\ completed' = [completed EXCEPT !.remaining_waiters = @ + 1]
    /\ generation' = [generation EXCEPT ![t] = completed.generation]
    /\ pc' = [pc EXCEPT ![t] = "follower"]
    /\ UNCHANGED <<next_generation, active, asleep, result>>

\* The previous flight still has outcomes to replay: wait for it to drain.
WaitForDrain(t) ==
    /\ AtLoopHead(t)
    /\ active = None
    /\ completed # None
    /\ pc' = [pc EXCEPT ![t] = "late"]
    /\ asleep' = asleep \cup {t}
    /\ UNCHANGED <<coordinator, generation, result>>

BecomeLeader(t) ==
    /\ AtLoopHead(t)
    /\ active = None
    /\ completed = None
    /\ active' = [generation |-> next_generation, waiters |-> 0]
    /\ generation' = [generation EXCEPT ![t] = next_generation]
    /\ next_generation' = (next_generation + 1) % GenerationMod
    /\ pc' = [pc EXCEPT ![t] = "leader"]
    /\ UNCHANGED <<completed, asleep, result>>

\* completed.filter(|completed| completed.generation == generation)
Landed(t) == completed # None /\ completed.generation = generation[t]

\* A follower woke.  Its generation has not completed: sleep again.
SleepAgain(t) ==
    /\ pc[t] = "follower"
    /\ t \notin asleep
    /\ ~Landed(t)
    /\ asleep' = asleep \cup {t}
    /\ UNCHANGED <<coordinator, pc, generation, result>>

\* Mutant: the first follower to replay frees the slot.
ReplayFreesSlot(t) ==
    /\ pc[t] = "follower"
    /\ t \notin asleep
    /\ Landed(t)
    /\ result' = [result EXCEPT ![t] = completed.outcome]
    /\ pc' = [pc EXCEPT ![t] = "idle"]
    /\ completed' = None
    /\ asleep' = {}
    /\ UNCHANGED <<next_generation, active, generation>>

\* Mutant: the last follower frees the slot without notify_all.
ReplaySilently(t) ==
    /\ pc[t] = "follower"
    /\ t \notin asleep
    /\ Landed(t)
    /\ result' = [result EXCEPT ![t] = completed.outcome]
    /\ pc' = [pc EXCEPT ![t] = "idle"]
    /\ completed' = IF completed.remaining_waiters = 1 THEN None
                    ELSE [completed EXCEPT !.remaining_waiters = @ - 1]
    /\ UNCHANGED <<next_generation, active, asleep, generation>>

\* A follower woke and its generation has completed: take the outcome; the
\* last one to do so frees the slot and wakes the late callers.
Replay(t) ==
    /\ pc[t] = "follower"
    /\ t \notin asleep
    /\ Landed(t)
    /\ result' = [result EXCEPT ![t] = completed.outcome]
    /\ pc' = [pc EXCEPT ![t] = "idle"]
    /\ \/ /\ completed.remaining_waiters = 1
          /\ completed' = None
          /\ asleep' = {}
       \/ /\ completed.remaining_waiters # 1
          /\ completed' = [completed EXCEPT !.remaining_waiters = @ - 1]
          /\ UNCHANGED asleep
    /\ UNCHANGED <<next_generation, active, generation>>

\* complete(): called by finish() and by the Drop of an unfinished leader.
Complete(t, outcome) ==
    /\ pc[t] = "leader"
    /\ pc' = [pc EXCEPT ![t] = "idle"]
    /\ active' = None
    /\ completed' = IF active = None \/ active.waiters = 0 THEN completed
                    ELSE [generation |-> generation[t],
                          outcome |-> outcome,
                          remaining_waiters |-> active.waiters]
    /\ asleep' = IF active = None THEN asleep ELSE {}
    /\ UNCHANGED <<next_generation, generation, result>>

Finish(t) == \E r \in Results : Complete(t, r)

\* The leader's closure unwinds before finish(): FaultLeader::drop.
DropLeader(t) == Complete(t, Abandoned)

\* Condvar::wait is allowed to return unnotified.
SpuriousWakeup(t) ==
    /\ t \in asleep
    /\ asleep' = asleep \ {t}
    /\ UNCHANGED <<coordinator, pc, generation, result>>

Next ==
    \E t \in Threads :
        \/ Enter(t) \/ Register(t) \/ WaitForDrain(t) \/ BecomeLeader(t)
        \/ SleepAgain(t) \/ Replay(t) \/ Finish(t) \/ DropLeader(t)
        \/ SpuriousWakeup(t)

Spec == Init /\ [][Next]_vars

(***************************************************************************)
(* Fairness: a thread that is runnable inside enter() gets the mutex, and  *)
(* a leader's fault ends (tier I/O returns or the closure unwinds).        *)
(* Nothing obliges a thread to fault again or a wait to end spuriously.    *)
(***************************************************************************)
Fairness ==
    \A t \in Threads :
        /\ WF_vars(Register(t) \/ WaitForDrain(t) \/ BecomeLeader(t))
        /\ WF_vars(SleepAgain(t) \/ Replay(t))
        /\ WF_vars(Finish(t) \/ DropLeader(t))

FairSpec == Spec /\ Fairness

-----------------------------------------------------------------------------
Followers == {t \in Threads : pc[t] = "follower"}

(***************************************************************************)
(* At most one thread holds a FaultLeader, exactly while a generation is   *)
(* active, and it is the generation it will complete: the early return and *)
(* the debug_assert of complete() never trigger.                           *)
(***************************************************************************)
SingleLeader ==
    /\ \A t, u \in Threads : pc[t] = "leader" /\ pc[u] = "leader" => t = u
    /\ active # None <=> \E t \in Threads : pc[t] = "leader"
    /\ \A t \in Threads : pc[t] = "leader" => active.generation = generation[t]

(***************************************************************************)
(* The waiter counts are exactly the threads still owed an outcome, all of *)
(* the same generation, and an exhausted completed slot is never left      *)
(* behind: neither expect() of enter() can fail, and no follower is left   *)
(* with nobody to answer it.                                               *)
(***************************************************************************)
WaiterAccounting ==
    /\ active # None =>
          /\ completed = None
          /\ active.waiters = Cardinality(Followers)
          /\ \A t \in Followers : generation[t] = active.generation
    /\ completed # None =>
          /\ completed.remaining_waiters = Cardinality(Followers)
          /\ completed.remaining_waiters # 0
          /\ \A t \in Followers : generation[t] = completed.generation
    /\ active = None /\ completed = None => Followers = {}

(***************************************************************************)
(* No lost wakeup: a thread asleep on the condition variable is waiting    *)
(* for something that has not happened yet, and whoever makes it happen    *)
(* still has to pass a notify_all.                                         *)
(***************************************************************************)
SleepersAwaited ==
    \A t \in asleep :
        \/ pc[t] = "follower" /\ active # None
        \/ pc[t] = "late" /\ completed # None

(***************************************************************************)
(* A registered follower is eventually answered, and a caller can be kept  *)
(* out of enter() for ever only by other threads that keep leading new     *)
(* flights; the coordinator itself never strands it.  (The mutex is not    *)
(* fair, so overtaking cannot be excluded.)                                *)
(***************************************************************************)
CallerNotStranded ==
    \A t \in Threads :
        /\ pc[t] = "follower" ~> pc[t] = "idle"
        /\ <>[](pc[t] \in {"entering", "late"})
              => []<>(\E u \in Threads \ {t} : pc[u] = "leader")

(***************************************************************************)
(* The coordinator implements the single-flight promise: the outcome a     *)
(* follower returns with is the outcome of the very flight it joined.      *)
(***************************************************************************)
phaseBar ==
    [t \in Threads |->
        CASE pc[t] = "idle" -> "idle"
          [] pc[t] \in {"entering", "late"} -> "entering"
          [] pc[t] = "leader" -> "leading"
          [] pc[t] = "follower" ->
                IF completed = None THEN "following" ELSE "answered"]

answerBar ==
    [t \in Threads |->
        IF pc[t] = "follower" /\ completed # None THEN completed.outcome
        ELSE result[t]]

Flight == INSTANCE SingleFlight WITH phase <- phaseBar, answer <- answerBar

ImplementsSingleFlight == Flight!SFSpec
=============================================================================
