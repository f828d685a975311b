----------------------------- MODULE SingleFlight -----------------------------
(***************************************************************************)
(* What the fault coordinator of one page promises to its callers, stated  *)
(* without its mutex, condition variable, generations and counters.  A     *)
(* call either leads a flight or follows the one that is under way; when   *)
(* the leader finishes, exactly its followers are answered, all of them    *)
(* with the leader's own outcome.                                          *)
(***************************************************************************)


CONSTANTS Threads,   \* the threads that fault on the page
          Outcomes,  \* what a fault may end with
          NoOutcome  \* no answer recorded yet

VARIABLES phase,     \* phase[t]: where t's call stands
          answer     \* answer[t]: the last outcome handed to t as a follower

sfVars == <<phase, answer>>

SFTypeOK ==
    /\ phase \in [Threads -> {"idle", "entering", "leading", "following", "answered"}]
    /\ answer \in [Threads -> Outcomes \cup {NoOutcome}]

SFInit ==
    /\ phase = [t \in Threads |-> "idle"]
    /\ answer = [t \in Threads |-> NoOutcome]

Call(t) ==
    /\ phase[t] = "idle"
    /\ phase' = [phase EXCEPT ![t] = "entering"]
    /\ UNCHANGED answer

\* At most one flight is under way.
Lead(t) ==
    /\ phase[t] = "entering"
    /\ \A u \in Threads : phase[u] # "leading"
    /\ phase' = [phase EXCEPT ![t] = "leading"]
    /\ UNCHANGED answer

\* Only a flight that is still under way can be joined.
Join(t) ==
    /\ phase[t] = "entering"
    /\ \E u \in Threads : phase[u] = "leading"
    /\ phase' = [phase EXCEPT ![t] = "following"]
    /\ UNCHANGED answer

\* The leader's outcome goes to every follower and to nobody else.
Land(t, o) ==
    /\ phase[t] = "leading"
    /\ phase' = [u \in Threads |->
                    IF u = t THEN "idle"
                    ELSE IF phase[u] = "following" THEN "answered" ELSE phase[u]]
    /\ answer' = [u \in Threads |-> IF phase[u] = "following" THEN o ELSE answer[u]]

Return(t) ==
    /\ phase[t] = "answered"
    /\ phase' = [phase EXCEPT ![t] = "idle"]
    /\ UNCHANGED answer

SFNext ==
    \E t \in Threads :
        \/ Call(t) \/ Lead(t) \/ Join(t) \/ Return(t)
        \/ \E o \in Outcomes : Land(t, o)

SFSpec == SFInit /\ [][SFNext]_sfVars
=============================================================================
