------------------------ MODULE FaultCoordinatorProofs ------------------------
(***************************************************************************)
(* Proofs about the fault coordinator, for any finite set of threads and   *)
(* any width of the generation counter.                                    *)
(*                                                                         *)
(* The four invariants of FaultCoordinator are inductive only together:    *)
(* that a follower which finds its generation missing may sleep again rests *)
(* on the waiter counts, and the counts rest on there being one leader.    *)
(***************************************************************************)
EXTENDS FaultCoordinator, FiniteSetTheorems, TLAPS

\* The inductive invariant.
IInv == TypeOK /\ SingleLeader /\ WaiterAccounting /\ SleepersAwaited

-----------------------------------------------------------------------------
(***************************************************************************)
(* The followers are a finite set, so that they can be counted.            *)
(***************************************************************************)
LEMMA FollowersFinite == IsFiniteSet(Followers) /\ Cardinality(Followers) \in Nat
<1>1. Followers \subseteq Threads
  BY DEF Followers
<1>2. IsFiniteSet(Followers)
  BY <1>1, FCAssumption, FS_Subset
<1> QED
  BY <1>2, FS_CardinalityType

(***************************************************************************)
(* A caller of enter() that joins the flight raises the number of          *)
(* followers by one.                                                       *)
(***************************************************************************)
LEMMA FollowerJoins ==
    ASSUME TypeOK, NEW t \in Threads, pc[t] # "follower",
           pc' = [pc EXCEPT ![t] = "follower"]
    PROVE  /\ Followers' = Followers \cup {t}
           /\ Cardinality(Followers') = Cardinality(Followers) + 1
<1>1. Followers' = Followers \cup {t} /\ t \notin Followers
  BY DEF Followers, TypeOK
<1> QED
  BY <1>1, FollowersFinite, FS_AddElement

(***************************************************************************)
(* A follower that returns from enter() lowers it by one.                  *)
(***************************************************************************)
LEMMA FollowerReturns ==
    ASSUME TypeOK, NEW t \in Threads, pc[t] = "follower",
           pc' = [pc EXCEPT ![t] = "idle"]
    PROVE  /\ Followers' = Followers \ {t}
           /\ Cardinality(Followers') = Cardinality(Followers) - 1
           /\ Cardinality(Followers) = 1 => Followers' = {}
<1>1. Followers' = Followers \ {t} /\ t \in Followers
  BY DEF Followers, TypeOK
<1>2. Cardinality(Followers') = Cardinality(Followers) - 1
  BY <1>1, FollowersFinite, FS_RemoveElement
<1>3. IsFiniteSet(Followers')
  BY <1>1, FollowersFinite, FS_RemoveElement
<1>4. Cardinality(Followers) = 1 => Followers' = {}
  BY <1>2, <1>3, FS_EmptySet
<1> QED
  BY <1>1, <1>2, <1>4

(***************************************************************************)
(* Any other move of a thread leaves the followers alone.                  *)
(***************************************************************************)
LEMMA FollowersStay ==
    ASSUME TypeOK, NEW t \in Threads, NEW place, pc[t] # "follower",
           place # "follower", pc' = [pc EXCEPT ![t] = place]
    PROVE  Followers' = Followers
BY DEF Followers, TypeOK

-----------------------------------------------------------------------------
(***************************************************************************)
(* A new coordinator satisfies the inductive invariant.                    *)
(***************************************************************************)
LEMMA InitIInv == Init => IInv
<1> SUFFICES ASSUME Init PROVE IInv
  OBVIOUS
<1>1. TypeOK
  BY FCAssumption DEF Init, TypeOK, Generations
<1>2. SingleLeader /\ WaiterAccounting /\ SleepersAwaited
  BY DEF Init, SingleLeader, WaiterAccounting, SleepersAwaited, Followers
<1> QED
  BY <1>1, <1>2 DEF IInv

(***************************************************************************)
(* Every critical section keeps the state well-typed.  The replay of an    *)
(* outcome needs the exact waiter count to stay in the natural numbers.    *)
(***************************************************************************)
LEMMA NextTypeOK == IInv /\ [Next]_vars => TypeOK'
<1> SUFFICES ASSUME IInv, [Next]_vars PROVE TypeOK'
  OBVIOUS
<1> USE DEF IInv
<1>1. CASE UNCHANGED vars
  BY <1>1 DEF vars, TypeOK
<1>2. ASSUME NEW t \in Threads, Enter(t) PROVE TypeOK'
  BY <1>2 DEF Enter, coordinator, TypeOK
<1>3. ASSUME NEW t \in Threads, Register(t) PROVE TypeOK'
  BY <1>3 DEF Register, TypeOK, ActiveFault
<1>4. ASSUME NEW t \in Threads, WaitForDrain(t) PROVE TypeOK'
  BY <1>4 DEF WaitForDrain, coordinator, TypeOK
<1>5. ASSUME NEW t \in Threads, BecomeLeader(t) PROVE TypeOK'
  <2>1. (next_generation + 1) % GenerationMod \in Generations
    BY FCAssumption DEF TypeOK, Generations
  <2> QED
    BY <1>5, <2>1 DEF BecomeLeader, TypeOK, ActiveFault
<1>6. ASSUME NEW t \in Threads, SleepAgain(t) PROVE TypeOK'
  BY <1>6 DEF SleepAgain, coordinator, TypeOK
<1>7. ASSUME NEW t \in Threads, Replay(t) PROVE TypeOK'
  <2>1. completed \in CompletedFault
    BY <1>7 DEF Replay, Landed, TypeOK
  <2>2. completed.remaining_waiters # 0
    BY <1>7 DEF Replay, Landed, WaiterAccounting
  <2>3. completed' \in {None} \cup CompletedFault
    BY <1>7, <2>1, <2>2 DEF Replay, CompletedFault
  <2>4. asleep' \in SUBSET Threads /\ result' \in [Threads -> Outcomes \cup {NoOutcome}]
    BY <1>7, <2>1 DEF Replay, TypeOK, CompletedFault
  <2> QED
    BY <1>7, <2>3, <2>4 DEF Replay, TypeOK
<1>8. ASSUME NEW t \in Threads, NEW o \in Outcomes, Complete(t, o) PROVE TypeOK'
  <2>1. completed' \in {None} \cup CompletedFault
    BY <1>8 DEF Complete, TypeOK, ActiveFault, CompletedFault
  <2> QED
    BY <1>8, <2>1 DEF Complete, TypeOK
<1>9. ASSUME NEW t \in Threads, SpuriousWakeup(t) PROVE TypeOK'
  BY <1>9 DEF SpuriousWakeup, coordinator, TypeOK
<1> QED
  BY <1>1, <1>2, <1>3, <1>4, <1>5, <1>6, <1>7, <1>8, <1>9
     DEF Next, Finish, DropLeader, Outcomes

(***************************************************************************)
(* A new leader exists only where no generation is active, and completing  *)
(* takes the active generation away with its leader.                       *)
(***************************************************************************)
LEMMA NextSingleLeader == IInv /\ [Next]_vars => SingleLeader'
<1> SUFFICES ASSUME IInv, [Next]_vars PROVE SingleLeader'
  OBVIOUS
<1> USE DEF IInv
<1>1. CASE UNCHANGED vars
  BY <1>1 DEF vars, SingleLeader
<1>2. ASSUME NEW t \in Threads, Enter(t) PROVE SingleLeader'
  BY <1>2 DEF Enter, coordinator, SingleLeader, TypeOK
<1>3. ASSUME NEW t \in Threads, Register(t) PROVE SingleLeader'
  <2>1. active' # None /\ active'.generation = active.generation
    BY <1>3, FCAssumption DEF Register, TypeOK, ActiveFault
  <2>2. pc[t] # "leader"
    BY <1>3 DEF Register, AtLoopHead
  <2>3. \A u \in Threads : pc'[u] = "leader" <=> pc[u] = "leader"
    BY <1>3, <2>2 DEF Register, TypeOK
  <2>4. \A u \in Threads : pc'[u] = "leader" => generation'[u] = generation[u]
    BY <1>3, <2>2, <2>3 DEF Register, TypeOK
  <2> QED
    BY <1>3, <2>1, <2>3, <2>4 DEF Register, SingleLeader
<1>4. ASSUME NEW t \in Threads, WaitForDrain(t) PROVE SingleLeader'
  BY <1>4 DEF WaitForDrain, AtLoopHead, coordinator, SingleLeader, TypeOK
<1>5. ASSUME NEW t \in Threads, BecomeLeader(t) PROVE SingleLeader'
  <2>1. \A u \in Threads : pc[u] # "leader"
    BY <1>5 DEF BecomeLeader, SingleLeader
  <2>2. active' # None /\ active'.generation = generation'[t]
    BY <1>5, FCAssumption DEF BecomeLeader, TypeOK, ActiveFault
  <2> QED
    BY <1>5, <2>1, <2>2 DEF BecomeLeader, SingleLeader, TypeOK
<1>6. ASSUME NEW t \in Threads, SleepAgain(t) PROVE SingleLeader'
  BY <1>6 DEF SleepAgain, coordinator, SingleLeader
<1>7. ASSUME NEW t \in Threads, Replay(t) PROVE SingleLeader'
  BY <1>7 DEF Replay, SingleLeader, TypeOK
<1>8. ASSUME NEW t \in Threads, NEW o \in Outcomes, Complete(t, o) PROVE SingleLeader'
  BY <1>8 DEF Complete, SingleLeader, TypeOK
<1>9. ASSUME NEW t \in Threads, SpuriousWakeup(t) PROVE SingleLeader'
  BY <1>9 DEF SpuriousWakeup, coordinator, SingleLeader
<1> QED
  BY <1>1, <1>2, <1>3, <1>4, <1>5, <1>6, <1>7, <1>8, <1>9
     DEF Next, Finish, DropLeader, Outcomes

(***************************************************************************)
(* The waiter counts follow the followers through registration, completion *)
(* and replay.                                                             *)
(***************************************************************************)
LEMMA NextWaiterAccounting == IInv /\ [Next]_vars => WaiterAccounting'
<1> SUFFICES ASSUME IInv, [Next]_vars PROVE WaiterAccounting'
  OBVIOUS
<1> USE DEF IInv
<1>1. CASE UNCHANGED vars
  BY <1>1 DEF vars, WaiterAccounting, Followers
<1>2. ASSUME NEW t \in Threads, Enter(t) PROVE WaiterAccounting'
  <2>1. Followers' = Followers
    BY <1>2, FollowersStay DEF Enter
  <2> QED
    BY <1>2, <2>1 DEF Enter, coordinator, WaiterAccounting
<1>3. ASSUME NEW t \in Threads, Register(t) PROVE WaiterAccounting'
  <2>1. pc[t] # "follower" /\ pc' = [pc EXCEPT ![t] = "follower"]
    BY <1>3 DEF Register, AtLoopHead
  <2>2. /\ Followers' = Followers \cup {t}
        /\ Cardinality(Followers') = Cardinality(Followers) + 1
    BY <2>1, FollowerJoins
  <2>3. completed' = None /\ active.waiters = Cardinality(Followers)
    BY <1>3 DEF Register, WaiterAccounting
  <2>4. active' # None /\ active'.waiters = active.waiters + 1
    BY <1>3, FCAssumption DEF Register, TypeOK, ActiveFault
  <2>5. active'.generation = active.generation
    BY <1>3 DEF Register, TypeOK, ActiveFault
  <2>6. \A u \in Followers : generation[u] = active.generation
    BY <1>3 DEF Register, WaiterAccounting
  <2>7. \A u \in Followers' : generation'[u] = active'.generation
    BY <1>3, <2>2, <2>5, <2>6 DEF Register, TypeOK, Followers
  <2> QED
    BY <2>2, <2>3, <2>4, <2>7 DEF WaiterAccounting
<1>4. ASSUME NEW t \in Threads, WaitForDrain(t) PROVE WaiterAccounting'
  <2>1. Followers' = Followers
    BY <1>4, FollowersStay DEF WaitForDrain, AtLoopHead
  <2> QED
    BY <1>4, <2>1 DEF WaitForDrain, coordinator, WaiterAccounting
<1>5. ASSUME NEW t \in Threads, BecomeLeader(t) PROVE WaiterAccounting'
  <2>1. Followers' = {}
    BY <1>5, FollowersStay DEF BecomeLeader, AtLoopHead, WaiterAccounting
  <2>2. active' # None /\ active'.waiters = 0 /\ completed' = None
    BY <1>5, FCAssumption DEF BecomeLeader, TypeOK, ActiveFault
  <2> QED
    BY <2>1, <2>2, FS_EmptySet DEF WaiterAccounting
<1>6. ASSUME NEW t \in Threads, SleepAgain(t) PROVE WaiterAccounting'
  BY <1>6 DEF SleepAgain, coordinator, WaiterAccounting, Followers
<1>7. ASSUME NEW t \in Threads, Replay(t) PROVE WaiterAccounting'
  <2>1. pc[t] = "follower" /\ pc' = [pc EXCEPT ![t] = "idle"]
    BY <1>7 DEF Replay
  <2>2. /\ Followers' = Followers \ {t}
        /\ Cardinality(Followers') = Cardinality(Followers) - 1
        /\ Cardinality(Followers) = 1 => Followers' = {}
    BY <2>1, FollowerReturns
  <2>3. /\ completed # None
        /\ completed \in CompletedFault
        /\ active = None /\ active' = None
        /\ completed.remaining_waiters = Cardinality(Followers)
        /\ completed.remaining_waiters # 0
        /\ \A u \in Followers : generation[u] = completed.generation
    BY <1>7 DEF Replay, Landed, WaiterAccounting, TypeOK
  <2>4. CASE completed.remaining_waiters = 1
    BY <1>7, <2>2, <2>3, <2>4 DEF Replay, WaiterAccounting
  <2>5. CASE completed.remaining_waiters # 1
    <3>1. completed' = [completed EXCEPT !.remaining_waiters = @ - 1]
      BY <1>7, <2>5 DEF Replay
    <3>2. /\ completed'.remaining_waiters = completed.remaining_waiters - 1
          /\ completed'.generation = completed.generation
          /\ completed.remaining_waiters \in Nat
      BY <2>3, <3>1 DEF CompletedFault
    <3>3. \A u \in Followers' : generation'[u] = completed'.generation
      BY <1>7, <2>2, <2>3, <3>2 DEF Replay
    <3>4. completed' # None
      BY <2>3, <2>5, <3>1, <3>2, FCAssumption DEF CompletedFault
    <3> QED
      BY <2>2, <2>3, <2>5, <3>2, <3>3, <3>4 DEF WaiterAccounting
  <2> QED
    BY <2>4, <2>5
<1>8. ASSUME NEW t \in Threads, NEW o \in Outcomes, Complete(t, o)
      PROVE  WaiterAccounting'
  <2>1. Followers' = Followers
    BY <1>8, FollowersStay DEF Complete
  <2>2. /\ active # None /\ active \in ActiveFault
        /\ active.generation = generation[t]
    BY <1>8 DEF Complete, SingleLeader, TypeOK
  <2>3. /\ completed = None
        /\ active.waiters = Cardinality(Followers)
        /\ \A u \in Followers : generation[u] = active.generation
    BY <2>2 DEF WaiterAccounting
  <2>4. CASE active.waiters = 0
    <3>1. Followers = {}
      BY <2>3, <2>4, FollowersFinite, FS_EmptySet
    <3> QED
      BY <1>8, <2>1, <2>3, <2>4, <3>1 DEF Complete, WaiterAccounting
  <2>5. CASE active.waiters # 0
    <3>1. completed' = [generation |-> generation[t], outcome |-> o,
                        remaining_waiters |-> active.waiters]
      BY <1>8, <2>2, <2>5 DEF Complete
    <3>2. /\ completed'.remaining_waiters = Cardinality(Followers')
          /\ completed'.remaining_waiters # 0
          /\ completed'.generation = active.generation
      BY <2>1, <2>2, <2>3, <2>5, <3>1
    <3>3. \A u \in Followers' : generation'[u] = completed'.generation
      BY <1>8, <2>1, <2>3, <3>2 DEF Complete
    <3>4. active' = None
      BY <1>8 DEF Complete
    <3>5. completed' # None
      <4>1. completed' \in CompletedFault
        BY <1>8, <2>2, <3>1 DEF CompletedFault, ActiveFault, TypeOK
      <4> QED
        BY <4>1, FCAssumption
    <3> QED
      BY <3>2, <3>3, <3>4, <3>5 DEF WaiterAccounting
  <2> QED
    BY <2>4, <2>5
<1>9. ASSUME NEW t \in Threads, SpuriousWakeup(t) PROVE WaiterAccounting'
  BY <1>9 DEF SpuriousWakeup, coordinator, WaiterAccounting, Followers
<1> QED
  BY <1>1, <1>2, <1>3, <1>4, <1>5, <1>6, <1>7, <1>8, <1>9
     DEF Next, Finish, DropLeader, Outcomes

(***************************************************************************)
(* Nobody is left asleep after the event it waits for: a completion and    *)
(* the last replay empty the wait set, and whoever goes to sleep waits for *)
(* something still to come.                                                *)
(***************************************************************************)
LEMMA NextSleepersAwaited == IInv /\ [Next]_vars => SleepersAwaited'
<1> SUFFICES ASSUME IInv, [Next]_vars PROVE SleepersAwaited'
  OBVIOUS
<1> USE DEF IInv
<1>1. CASE UNCHANGED vars
  BY <1>1 DEF vars, SleepersAwaited
<1>2. ASSUME NEW t \in Threads, Enter(t) PROVE SleepersAwaited'
  BY <1>2 DEF Enter, coordinator, SleepersAwaited, TypeOK
<1>3. ASSUME NEW t \in Threads, Register(t) PROVE SleepersAwaited'
  <2>1. active' # None /\ completed' = completed
    BY <1>3, FCAssumption DEF Register, TypeOK, ActiveFault
  <2> QED
    BY <1>3, <2>1 DEF Register, AtLoopHead, SleepersAwaited, TypeOK
<1>4. ASSUME NEW t \in Threads, WaitForDrain(t) PROVE SleepersAwaited'
  BY <1>4 DEF WaitForDrain, coordinator, SleepersAwaited, TypeOK
<1>5. ASSUME NEW t \in Threads, BecomeLeader(t) PROVE SleepersAwaited'
  BY <1>5 DEF BecomeLeader, SleepersAwaited
<1>6. ASSUME NEW t \in Threads, SleepAgain(t) PROVE SleepersAwaited'
  <2>1. t \in Followers /\ ~Landed(t)
    BY <1>6 DEF SleepAgain, Followers
  <2>2. active # None
    BY <2>1 DEF Landed, WaiterAccounting
  <2> QED
    BY <1>6, <2>2 DEF SleepAgain, coordinator, SleepersAwaited
<1>7. ASSUME NEW t \in Threads, Replay(t) PROVE SleepersAwaited'
  <2>1. completed \in CompletedFault /\ active = None
    BY <1>7 DEF Replay, Landed, WaiterAccounting, TypeOK
  <2>2. CASE completed.remaining_waiters = 1
    BY <1>7, <2>2 DEF Replay, SleepersAwaited
  <2>3. CASE completed.remaining_waiters # 1
    <3>1. completed' = [completed EXCEPT !.remaining_waiters = @ - 1] /\ asleep' = asleep
      BY <1>7, <2>3 DEF Replay
    <3>2. completed.remaining_waiters \in Nat \ {0}
      BY <1>7, <2>1 DEF Replay, Landed, CompletedFault, WaiterAccounting
    <3>3. completed' \in CompletedFault
      BY <2>1, <3>1, <3>2 DEF CompletedFault
    <3>4. completed' # None
      BY <3>3, FCAssumption
    <3> QED
      BY <1>7, <2>1, <3>1, <3>4 DEF Replay, SleepersAwaited, TypeOK
  <2> QED
    BY <2>2, <2>3
<1>8. ASSUME NEW t \in Threads, NEW o \in Outcomes, Complete(t, o)
      PROVE  SleepersAwaited'
  <2>1. active # None
    BY <1>8 DEF Complete, SingleLeader
  <2> QED
    BY <1>8, <2>1 DEF Complete, SleepersAwaited
<1>9. ASSUME NEW t \in Threads, SpuriousWakeup(t) PROVE SleepersAwaited'
  BY <1>9 DEF SpuriousWakeup, coordinator, SleepersAwaited
<1> QED
  BY <1>1, <1>2, <1>3, <1>4, <1>5, <1>6, <1>7, <1>8, <1>9
     DEF Next, Finish, DropLeader, Outcomes

(***************************************************************************)
(* The inductive invariant holds in every reachable state of the           *)
(* coordinator.                                                            *)
(***************************************************************************)
THEOREM Inductive == Spec => []IInv
<1>1. IInv /\ [Next]_vars => IInv'
  BY NextTypeOK, NextSingleLeader, NextWaiterAccounting, NextSleepersAwaited DEF IInv
<1> QED
  BY InitIInv, <1>1, PTL DEF Spec

(***************************************************************************)
(* The counters of FaultState stay natural numbers: no checked_sub of a    *)
(* replaying follower underflows.                                          *)
(***************************************************************************)
THEOREM TypeCorrect == Spec => []TypeOK
<1>1. IInv => TypeOK
  BY DEF IInv
<1> QED
  BY <1>1, Inductive, PTL

(***************************************************************************)
(* At most one thread leads a page's fault, and it completes the           *)
(* generation that is active.                                              *)
(***************************************************************************)
THEOREM LeaderUnique == Spec => []SingleLeader
<1>1. IInv => SingleLeader
  BY DEF IInv
<1> QED
  BY <1>1, Inductive, PTL

(***************************************************************************)
(* The waiter counts are exactly the threads that are owed an outcome.     *)
(***************************************************************************)
THEOREM WaitersCounted == Spec => []WaiterAccounting
<1>1. IInv => WaiterAccounting
  BY DEF IInv
<1> QED
  BY <1>1, Inductive, PTL

(***************************************************************************)
(* No wakeup of the coordinator's condition variable is lost.              *)
(***************************************************************************)
THEOREM NoLostWakeup == Spec => []SleepersAwaited
<1>1. IInv => SleepersAwaited
  BY DEF IInv
<1> QED
  BY <1>1, Inductive, PTL

-----------------------------------------------------------------------------
(***************************************************************************)
(* A new coordinator is a new single flight.                               *)
(***************************************************************************)
LEMMA InitFlight == Init => Flight!SFInit
BY DEF Init, Flight!SFInit, phaseBar, answerBar

(***************************************************************************)
(* A move between two places of enter() that the flight does not tell      *)
(* apart, with everything else it sees unchanged, is a stutter.            *)
(***************************************************************************)
LEMMA StutterFlight ==
    ASSUME TypeOK, UNCHANGED <<completed, result>>,
           \A u \in Threads :
              \/ pc'[u] = pc[u]
              \/ pc[u] \in {"entering", "late"} /\ pc'[u] \in {"entering", "late"}
    PROVE  UNCHANGED Flight!sfVars
<1>1. \A u \in Threads : phaseBar'[u] = phaseBar[u]
  <2> SUFFICES ASSUME NEW u \in Threads PROVE phaseBar'[u] = phaseBar[u]
    OBVIOUS
  <2>1. CASE pc'[u] = pc[u]
    BY <2>1 DEF phaseBar, TypeOK
  <2>2. CASE pc[u] \in {"entering", "late"} /\ pc'[u] \in {"entering", "late"}
    BY <2>2 DEF phaseBar
  <2> QED
    BY <2>1, <2>2
<1>2. phaseBar' = phaseBar
  BY <1>1 DEF phaseBar
<1>3. \A u \in Threads : pc'[u] = "follower" <=> pc[u] = "follower"
  OBVIOUS
<1>4. answerBar' = answerBar
  BY <1>3 DEF answerBar
<1> QED
  BY <1>2, <1>4 DEF Flight!sfVars

(***************************************************************************)
(* Every step of the coordinator is a step of the single flight or leaves  *)
(* it unchanged.  The mapping sends a follower to "following" before its   *)
(* flight landed and to "answered" after; the waiter counts are what makes *)
(* the last replay leave no other follower behind.                         *)
(***************************************************************************)
LEMMA StepFlight == IInv /\ [Next]_vars => [Flight!SFNext]_(Flight!sfVars)
<1> SUFFICES ASSUME IInv, [Next]_vars
             PROVE  Flight!SFNext \/ UNCHANGED Flight!sfVars
  OBVIOUS
<1> USE DEF IInv
<1>1. CASE UNCHANGED vars
  BY <1>1, StutterFlight DEF vars
<1>2. ASSUME NEW t \in Threads, Enter(t) PROVE Flight!Call(t)
  BY <1>2 DEF Enter, coordinator, Flight!Call, phaseBar, answerBar, TypeOK
<1>3. ASSUME NEW t \in Threads, Register(t) PROVE Flight!Join(t)
  <2>1. completed = None /\ completed' = None
    BY <1>3 DEF Register, WaiterAccounting
  <2>2. PICK u \in Threads : pc[u] = "leader"
    BY <1>3 DEF Register, SingleLeader
  <2>3. phaseBar[u] = "leading" /\ phaseBar[t] = "entering"
    BY <1>3, <2>2 DEF phaseBar, Register, AtLoopHead
  <2>4. phaseBar' = [phaseBar EXCEPT ![t] = "following"]
    BY <1>3, <2>1 DEF Register, phaseBar, TypeOK
  <2>5. answerBar' = answerBar
    BY <1>3, <2>1 DEF Register, answerBar, TypeOK
  <2> QED
    BY <2>3, <2>4, <2>5 DEF Flight!Join
<1>4. ASSUME NEW t \in Threads, WaitForDrain(t) PROVE UNCHANGED Flight!sfVars
  BY <1>4, StutterFlight DEF WaitForDrain, AtLoopHead, coordinator, TypeOK
<1>5. ASSUME NEW t \in Threads, BecomeLeader(t) PROVE Flight!Lead(t)
  <2>1. \A u \in Threads : pc[u] # "leader"
    BY <1>5 DEF BecomeLeader, SingleLeader
  <2>2. \A u \in Threads : phaseBar[u] # "leading"
    BY <2>1 DEF phaseBar, TypeOK
  <2>3. phaseBar[t] = "entering"
    BY <1>5 DEF BecomeLeader, AtLoopHead, phaseBar
  <2>4. phaseBar' = [phaseBar EXCEPT ![t] = "leading"]
    BY <1>5 DEF BecomeLeader, phaseBar, TypeOK
  <2>5. answerBar' = answerBar
    BY <1>5 DEF BecomeLeader, AtLoopHead, answerBar, TypeOK
  <2> QED
    BY <2>2, <2>3, <2>4, <2>5 DEF Flight!Lead
<1>6. ASSUME NEW t \in Threads, SleepAgain(t) PROVE UNCHANGED Flight!sfVars
  BY <1>6, StutterFlight DEF SleepAgain, coordinator
<1>7. ASSUME NEW t \in Threads, Replay(t) PROVE Flight!Return(t)
  <2>1. completed # None /\ completed \in CompletedFault
    BY <1>7 DEF Replay, Landed, TypeOK
  <2>2. /\ pc[t] = "follower" /\ pc' = [pc EXCEPT ![t] = "idle"]
        /\ result' = [result EXCEPT ![t] = completed.outcome]
    BY <1>7 DEF Replay
  <2>3. \A u \in Threads \ {t} :
          pc[u] = "follower" => completed' # None /\ completed'.outcome = completed.outcome
    <3>1. CASE completed.remaining_waiters = 1
      <4>1. Followers' = {}
        BY <2>1, <2>2, <3>1, FollowerReturns DEF WaiterAccounting
      <4> QED
        BY <2>2, <4>1 DEF Followers, TypeOK
    <3>2. CASE completed.remaining_waiters # 1
      <4>1. completed' = [completed EXCEPT !.remaining_waiters = @ - 1]
        BY <1>7, <3>2 DEF Replay
      <4>2. completed.remaining_waiters \in Nat \ {0}
        BY <2>1 DEF CompletedFault, WaiterAccounting
      <4>3. completed' \in CompletedFault /\ completed'.outcome = completed.outcome
        BY <2>1, <4>1, <4>2 DEF CompletedFault
      <4> QED
        BY <4>3, FCAssumption
    <3> QED
      BY <3>1, <3>2
  <2>4. phaseBar[t] = "answered"
    BY <2>1, <2>2 DEF phaseBar
  <2>5. phaseBar' = [phaseBar EXCEPT ![t] = "idle"]
    BY <2>1, <2>2, <2>3 DEF phaseBar, TypeOK
  <2>6. answerBar' = answerBar
    BY <2>1, <2>2, <2>3 DEF answerBar, TypeOK
  <2> QED
    BY <2>4, <2>5, <2>6 DEF Flight!Return
<1>8. ASSUME NEW t \in Threads, NEW o \in Outcomes, Complete(t, o)
      PROVE  Flight!Land(t, o)
  <2>1. /\ active # None /\ active \in ActiveFault
        /\ completed = None
        /\ active.waiters = Cardinality(Followers)
    BY <1>8 DEF Complete, SingleLeader, WaiterAccounting, TypeOK
  <2>2. /\ pc[t] = "leader" /\ pc' = [pc EXCEPT ![t] = "idle"]
        /\ result' = result
    BY <1>8 DEF Complete
  <2>3. \A u \in Threads :
          pc[u] = "follower" => completed' # None /\ completed'.outcome = o
    <3>1. CASE active.waiters = 0
      BY <2>1, <3>1, FollowersFinite, FS_EmptySet DEF Followers
    <3>2. CASE active.waiters # 0
      <4>1. completed' = [generation |-> generation[t], outcome |-> o,
                          remaining_waiters |-> active.waiters]
        BY <1>8, <2>1, <3>2 DEF Complete
      <4>2. completed' \in CompletedFault
        BY <2>1, <4>1 DEF CompletedFault, ActiveFault, TypeOK
      <4> QED
        BY <4>1, <4>2, FCAssumption
    <3> QED
      BY <3>1, <3>2
  <2>4. \A u \in Threads : phaseBar[u] = "following" <=> pc[u] = "follower"
    BY <2>1 DEF phaseBar, TypeOK
  <2>5. phaseBar[t] = "leading"
    BY <2>2 DEF phaseBar
  <2>6. phaseBar' = [u \in Threads |->
                       IF u = t THEN "idle"
                       ELSE IF phaseBar[u] = "following" THEN "answered" ELSE phaseBar[u]]
    BY <2>1, <2>2, <2>3, <2>4 DEF phaseBar, TypeOK
  <2>7. answerBar' = [u \in Threads |->
                        IF phaseBar[u] = "following" THEN o ELSE answerBar[u]]
    BY <2>1, <2>2, <2>3, <2>4 DEF answerBar, TypeOK
  <2> QED
    BY <2>5, <2>6, <2>7 DEF Flight!Land
<1>9. ASSUME NEW t \in Threads, SpuriousWakeup(t) PROVE UNCHANGED Flight!sfVars
  BY <1>9, StutterFlight DEF SpuriousWakeup, coordinator
<1> QED
  BY <1>1, <1>2, <1>3, <1>4, <1>5, <1>6, <1>7, <1>8, <1>9
     DEF Next, Finish, DropLeader, Outcomes, Flight!SFNext

(***************************************************************************)
(* The coordinator implements the single-flight promise: an outcome that   *)
(* enter() returns to a follower is that of the flight it joined.          *)
(***************************************************************************)
THEOREM Refinement == Spec => ImplementsSingleFlight
BY InitFlight, StepFlight, Inductive, PTL DEF Spec, ImplementsSingleFlight, Flight!SFSpec
=============================================================================
