------------------------- MODULE UringReaderProofs -------------------------
(***************************************************************************)
(* Proofs about the io_uring read engine, for any finite sets of readers   *)
(* and stoppers, any number of ring entries and any width of user_data     *)
(* that can tell the readers apart.                                        *)
(***************************************************************************)
EXTENDS UringReader, FiniteSetTheorems, SequenceTheorems, WellFoundedInduction, TLAPS

\* The entries of a sequence.
Elems(s) == {s[i] : i \in 1 .. Len(s)}

\* What the ring thread's place says of its failure.
WorkerOK ==
    /\ fatal => worker \in {"fail", "close", "exited"} /\ sq = <<>>
    /\ worker = "fail" => fatal
    /\ worker = "close" /\ ~fatal => shutting_down

\* Until fail_all has run, what the rings hold is in flight under its
\* user_data; from then on, what the kernel still writes to is leaked.
RingMatches ==
    /\ ~fatal \/ worker = "fail" =>
          \A e \in cq \cup kernel \cup Elems(sq) : inflight[e.user_data] = e.request
    /\ fatal /\ worker # "fail" => \A e \in kernel : e.request \in leaked

\* No user_data is in two of the rings' places at a time.
RingDistinct ==
    ~fatal =>
        /\ \A c \in cq, e \in kernel \cup Elems(sq) : c.user_data # e.user_data
        /\ \A e \in kernel, f \in Elems(sq) : e.user_data # f.user_data
        /\ \A i, j \in 1 .. Len(sq) : sq[i].user_data = sq[j].user_data => i = j

\* The reads accepted and not yet answered.
Unanswered == {r \in Readers : pc[r] = "wait" /\ reply[r] = None}

\* They are in one place each, and nothing else is there.
Located ==
    /\ \A i, j \in 1 .. Len(channel) : channel[i] = channel[j] /\ channel[i] \in Readers => i = j
    /\ \A i, j \in 1 .. Len(pending) : pending[i] = pending[j] => i = j
    /\ \A u, v \in UserData : inflight[u] = inflight[v] /\ inflight[u] # None => u = v
    /\ Elems(channel) \cap Elems(pending) = {}
    /\ Elems(channel) \cap Inflight = {}
    /\ Elems(pending) \cap Inflight = {}
    /\ \A r \in Readers : reply[r] # None => pc[r] = "wait"
    /\ \A r \in Readers : r \in Unanswered <=> r \in Elems(channel) \cup Elems(pending) \cup Inflight

\* The submission gate: a stopper past it has shut the readers out.
Gated ==
    /\ StoppersIn # {} => ReadersIn = {}
    /\ \A s \in Stoppers : pc[s] \in {"gate_first", "stop_send"} => stopping

\* Once Shutdown has been sent no reader is about to send, so no read comes
\* behind it in the channel.
ShutdownLast ==
    /\ shutting_down \/ Shutdown \in Elems(channel) =>
          stopping /\ \A r \in Readers : pc[r] # "send"
    /\ \A i, j \in 1 .. Len(channel) : i < j /\ channel[i] = Shutdown => channel[j] = Shutdown
    /\ shutting_down => \A i \in 1 .. Len(channel) : channel[i] = Shutdown

\* The inductive invariant.
IInv ==
    /\ TypeOK
    /\ WorkerOK
    /\ RingMatches
    /\ RingDistinct
    /\ Located
    /\ Gated
    /\ ShutdownLast
    /\ AcceptedReadsDrained
-----------------------------------------------------------------------------
(***************************************************************************)
(* Appending an element to a sequence.                                     *)
(***************************************************************************)
LEMMA Pushed ==
    ASSUME NEW S, NEW s \in Seq(S), NEW e \in S
    PROVE  /\ Append(s, e) \in Seq(S) /\ Len(Append(s, e)) = Len(s) + 1 /\ Len(s) \in Nat
           /\ \A i \in 1 .. Len(s) : Append(s, e)[i] = s[i]
           /\ Append(s, e)[Len(s) + 1] = e
           /\ Elems(Append(s, e)) = Elems(s) \cup {e}
<1>1. /\ Append(s, e) \in Seq(S) /\ Len(Append(s, e)) = Len(s) + 1 /\ Len(s) \in Nat
      /\ \A i \in 1 .. Len(s) : Append(s, e)[i] = s[i]
      /\ Append(s, e)[Len(s) + 1] = e
  BY AppendProperties, LenProperties
<1> DEFINE q == Append(s, e)
<1> HIDE DEF q
<1>2. Elems(q) = Elems(s) \cup {e}
  BY <1>1 DEF Elems, q
<1> QED
  BY <1>1, <1>2 DEF q

(***************************************************************************)
(* Removing the head of a sequence.                                        *)
(***************************************************************************)
LEMMA Popped ==
    ASSUME NEW S, NEW s \in Seq(S), s # <<>>
    PROVE  /\ Head(s) \in S /\ Head(s) = s[1] /\ Head(s) \in Elems(s)
           /\ Tail(s) \in Seq(S) /\ Len(Tail(s)) = Len(s) - 1 /\ Len(s) \in Nat \ {0}
           /\ \A i \in 1 .. Len(s) - 1 : Tail(s)[i] = s[i + 1]
           /\ Elems(s) = Elems(Tail(s)) \cup {Head(s)}
<1>1. /\ Head(s) \in S /\ Tail(s) \in Seq(S) /\ Len(Tail(s)) = Len(s) - 1
      /\ \A i \in 1 .. Len(Tail(s)) : Tail(s)[i] = s[i + 1]
  BY HeadTailProperties
<1>2. Len(s) \in Nat \ {0} /\ Head(s) = s[1]
  BY EmptySeq
<1> DEFINE q == Tail(s)
<1> HIDE DEF q
<1>3. Elems(s) = Elems(q) \cup {Head(s)}
  <2>1. \A i \in 1 .. Len(s) : i # 1 => i - 1 \in 1 .. Len(q) /\ q[i - 1] = s[i]
    BY <1>1, <1>2 DEF q
  <2>2. \A i \in 1 .. Len(q) : i + 1 \in 1 .. Len(s) /\ q[i] = s[i + 1]
    BY <1>1, <1>2 DEF q
  <2>3. 1 \in 1 .. Len(s)
    BY <1>2
  <2>4. ASSUME NEW x \in Elems(s) PROVE x \in Elems(q) \cup {Head(s)}
    <3>1. PICK i \in 1 .. Len(s) : x = s[i]
      BY DEF Elems
    <3>2. CASE i = 1
      BY <1>2, <3>1, <3>2
    <3>3. CASE i # 1
      BY <2>1, <3>1, <3>3 DEF Elems
    <3> QED
      BY <3>2, <3>3
  <2>5. Elems(q) \subseteq Elems(s) /\ Head(s) \in Elems(s)
    BY <1>2, <2>2, <2>3 DEF Elems
  <2> QED
    BY <2>4, <2>5
<1> QED
  BY <1>1, <1>2, <1>3 DEF q, Elems

(***************************************************************************)
(* The elements of a sequence over S are in S.                             *)
(***************************************************************************)
LEMMA ElemsIn ==
    ASSUME NEW S, NEW s \in Seq(S)
    PROVE  Elems(s) \subseteq S
  BY ElementOfSeq DEF Elems

(***************************************************************************)
(* An empty sequence has no elements.                                      *)
(***************************************************************************)
LEMMA ElemsEmpty == Elems(<<>>) = {} /\ Len(<<>>) = 0
  BY DEF Elems

(***************************************************************************)
(* Every non-empty set of natural numbers has a least element.             *)
(***************************************************************************)
LEMMA LeastNatural ==
    ASSUME NEW T \in SUBSET Nat, T # {}
    PROVE  \E n \in T : \A m \in T : n <= m
<1>1. PICK n \in T : \A m \in T : ~(<<m, n>> \in OpToRel(<, Nat))
  BY NatLessThanWellFounded, WFMin
<1>2. \A m \in T : ~(m < n)
  BY <1>1 DEF OpToRel
<1> QED
  BY <1>2

-----------------------------------------------------------------------------
(***************************************************************************)
(* A new engine satisfies the inductive invariant.                         *)
(***************************************************************************)
LEMMA InitIInv == Init => IInv
<1> SUFFICES ASSUME Init PROVE IInv
  OBVIOUS
<1> USE DEF Init
<1>1. TypeOK
  <2>1. channel \in Seq(Readers \cup {Shutdown}) /\ pending \in Seq(Readers) /\ sq \in Seq(Entry)
    BY EmptySeq
  <2>2. Len(channel) <= Entries /\ Len(sq) <= Entries
    BY ElemsEmpty, UringAssumption
  <2>3. next_user_data \in UserData
    BY UringAssumption DEF UserData
  <2>4. inflight \in [UserData -> Readers \cup {None}]
    OBVIOUS
  <2>5. pc \in [Readers \cup Stoppers -> CallerPlaces] /\ reply \in [Readers -> {None, "ok", "error", "stopped"}]
    BY DEF CallerPlaces
  <2> QED
    BY <2>1, <2>2, <2>3, <2>4, <2>5 DEF TypeOK, WorkerPlaces
<1>2. Inflight = {} /\ Unanswered = {} /\ Elems(channel) = {} /\ Elems(pending) = {} /\ Elems(sq) = {}
  BY ElemsEmpty DEF Inflight, Unanswered
<1>3. Located
  BY <1>2, ElemsEmpty DEF Located
<1>4. WorkerOK /\ RingMatches /\ RingDistinct
  BY <1>2, ElemsEmpty DEF WorkerOK, RingMatches, RingDistinct
<1>5. Gated /\ ShutdownLast
  BY <1>2, ElemsEmpty, UringAssumption DEF Gated, ShutdownLast, StoppersIn, ReadersIn
<1>6. AcceptedReadsDrained
  BY UringAssumption DEF AcceptedReadsDrained
<1> QED
  BY <1>1, <1>3, <1>4, <1>5, <1>6 DEF IInv

\* All but what the callers hold.
Others == <<channel, connected, worker, shutting_down, pending, inflight, next_user_data,
            sq, kernel, cq, reply, leaked, fatal>>

\* A step of a caller that sends nothing and receives nothing.
CallerOnly == /\ UNCHANGED Others
              /\ pc' \in [Readers \cup Stoppers -> CallerPlaces] /\ stopping' \in BOOLEAN
              /\ \A r \in Readers : pc'[r] = "wait" <=> pc[r] = "wait"

(***************************************************************************)
(* Such a step can disturb the gate and the order of commands only.        *)
(***************************************************************************)
LEMMA CallerMoves ==
    ASSUME IInv, CallerOnly, Gated', ShutdownLast'
    PROVE  IInv'
<1> USE DEF IInv, Others, CallerOnly
<1>1. TypeOK'
  BY DEF TypeOK
<1>2. WorkerOK' /\ RingMatches' /\ RingDistinct' /\ AcceptedReadsDrained'
  BY DEF WorkerOK, RingMatches, RingDistinct, AcceptedReadsDrained
<1>3. Unanswered' = Unanswered /\ Inflight' = Inflight
  BY DEF Unanswered, Inflight
<1>4. Located'
  BY <1>3 DEF Located
<1> QED
  BY <1>1, <1>2, <1>4

(***************************************************************************)
(* Entering and leaving the gate, and both halves of shutdown, keep the    *)
(* invariant.                                                              *)
(***************************************************************************)
LEMMA CallerKeeps ==
    ASSUME IInv,
           \/ \E r \in Readers : CallRead(r) \/ OpenGate(r) \/ CheckStopping(r)
           \/ \E r \in Readers : SendRead(r) /\ ~connected
           \/ \E s \in Stoppers : StopBegins(s) \/ StopGate(s) \/ StopJoin(s)
           \/ \E s \in Stoppers : StopSend(s) /\ ~connected
    PROVE  IInv'
<1> USE DEF callers, ring, requests, Goto, Others
<1>1. TypeOK /\ Gated /\ ShutdownLast
  BY DEF IInv
<1>2. pc \in [Readers \cup Stoppers -> CallerPlaces] /\ Readers \cap Stoppers = {} /\ stopping \in BOOLEAN
  BY <1>1, UringAssumption DEF TypeOK
<1>3. ASSUME NEW r \in Readers, CallRead(r) PROVE IInv'
  <2>1. UNCHANGED Others /\ stopping' = stopping /\ pc' = [pc EXCEPT ![r] = "gate"] /\ pc[r] = "idle"
    BY <1>3 DEF CallRead
  <2>2. Gated' /\ ShutdownLast'
    BY <1>1, <1>2, <2>1 DEF Gated, ShutdownLast, StoppersIn, ReadersIn
  <2>9. CallerOnly
    BY <1>2, <2>1 DEF CallerOnly, CallerPlaces
  <2> QED
    BY <2>2, <2>9, CallerMoves
<1>4. ASSUME NEW r \in Readers, OpenGate(r) PROVE IInv'
  <2>1. /\ UNCHANGED Others /\ stopping' = stopping /\ pc' = [pc EXCEPT ![r] = "check"]
        /\ pc[r] = "gate" /\ StoppersIn = {}
    BY <1>4 DEF OpenGate
  <2>2. Gated' /\ ShutdownLast'
    BY <1>1, <1>2, <2>1 DEF Gated, ShutdownLast, StoppersIn, ReadersIn
  <2>9. CallerOnly
    BY <1>2, <2>1 DEF CallerOnly, CallerPlaces
  <2> QED
    BY <2>2, <2>9, CallerMoves
<1>5. ASSUME NEW r \in Readers, CheckStopping(r) PROVE IInv'
  <2>1. /\ UNCHANGED Others /\ stopping' = stopping /\ pc[r] = "check"
        /\ pc' = [pc EXCEPT ![r] = IF stopping THEN "done" ELSE "send"]
    BY <1>5 DEF CheckStopping
  <2>2. Gated' /\ ShutdownLast'
    BY <1>1, <1>2, <2>1 DEF Gated, ShutdownLast, StoppersIn, ReadersIn
  <2>9. CallerOnly
    BY <1>2, <2>1 DEF CallerOnly, CallerPlaces
  <2> QED
    BY <2>2, <2>9, CallerMoves
<1>6. ASSUME NEW r \in Readers, SendRead(r), ~connected PROVE IInv'
  <2>1. UNCHANGED Others /\ stopping' = stopping /\ pc' = [pc EXCEPT ![r] = "done"] /\ pc[r] = "send"
    BY <1>6 DEF SendRead
  <2>2. Gated' /\ ShutdownLast'
    BY <1>1, <1>2, <2>1 DEF Gated, ShutdownLast, StoppersIn, ReadersIn
  <2>9. CallerOnly
    BY <1>2, <2>1 DEF CallerOnly, CallerPlaces
  <2> QED
    BY <2>2, <2>9, CallerMoves
<1>7. ASSUME NEW s \in Stoppers, StopBegins(s) PROVE IInv'
  <2>1. PICK to \in {"gate_first", "gate_again"} : pc' = [pc EXCEPT ![s] = to]
    BY <1>7 DEF StopBegins
  <2>2. UNCHANGED Others /\ stopping' = TRUE /\ pc[s] \in {"idle", "stopped"}
    BY <1>7 DEF StopBegins
  <2>3. StoppersIn' = StoppersIn /\ ReadersIn' = ReadersIn
    BY <1>2, <2>1, <2>2 DEF StoppersIn, ReadersIn
  <2>4. Gated' /\ ShutdownLast'
    BY <1>1, <1>2, <2>1, <2>2, <2>3 DEF Gated, ShutdownLast
  <2>9. CallerOnly
    BY <1>2, <2>1, <2>2 DEF CallerOnly, CallerPlaces
  <2> QED
    BY <2>4, <2>9, CallerMoves
<1>8. ASSUME NEW s \in Stoppers, StopGate(s) PROVE IInv'
  <2>1. PICK to \in {"stop_send", "skip_join"} :
           /\ pc' = [pc EXCEPT ![s] = to]
           /\ pc[s] = IF to = "stop_send" THEN "gate_first" ELSE "gate_again"
    BY <1>8 DEF StopGate
  <2>2. UNCHANGED Others /\ stopping' = stopping /\ ReadersIn = {}
    BY <1>8 DEF StopGate
  <2>3. ReadersIn' = {}
    BY <1>2, <2>1, <2>2 DEF ReadersIn
  <2>4. Gated' /\ ShutdownLast'
    BY <1>1, <1>2, <2>1, <2>2, <2>3 DEF Gated, ShutdownLast
  <2>9. CallerOnly
    BY <1>2, <2>1, <2>2 DEF CallerOnly, CallerPlaces
  <2> QED
    BY <2>4, <2>9, CallerMoves
<1>9. ASSUME NEW s \in Stoppers, StopJoin(s) PROVE IInv'
  <2>1. PICK to \in {"stopped", "stopped_again"} : pc' = [pc EXCEPT ![s] = to]
    BY <1>9 DEF StopJoin
  <2>2. UNCHANGED Others /\ stopping' = stopping
    BY <1>9 DEF StopJoin
  <2>3. StoppersIn' \subseteq StoppersIn /\ ReadersIn' = ReadersIn
    BY <1>2, <2>1, <2>2 DEF StoppersIn, ReadersIn
  <2>4. Gated' /\ ShutdownLast'
    BY <1>1, <1>2, <2>1, <2>2, <2>3 DEF Gated, ShutdownLast
  <2>9. CallerOnly
    BY <1>2, <2>1, <2>2 DEF CallerOnly, CallerPlaces
  <2> QED
    BY <2>4, <2>9, CallerMoves
<1>10. ASSUME NEW s \in Stoppers, StopSend(s), ~connected PROVE IInv'
  <2>1. UNCHANGED Others /\ stopping' = stopping /\ pc' = [pc EXCEPT ![s] = "stop_join"] /\ pc[s] = "stop_send"
    BY <1>10 DEF StopSend
  <2>2. StoppersIn' = StoppersIn /\ ReadersIn' = ReadersIn
    BY <1>2, <2>1 DEF StoppersIn, ReadersIn
  <2>3. Gated' /\ ShutdownLast'
    BY <1>1, <1>2, <2>1, <2>2 DEF Gated, ShutdownLast
  <2>9. CallerOnly
    BY <1>2, <2>1 DEF CallerOnly, CallerPlaces
  <2> QED
    BY <2>3, <2>9, CallerMoves
<1> QED
  BY <1>3, <1>4, <1>5, <1>6, <1>7, <1>8, <1>9, <1>10
(***************************************************************************)
(* What is in flight is a read.                                            *)
(***************************************************************************)
LEMMA InflightReads ==
    ASSUME TypeOK
    PROVE  Inflight \subseteq Readers
  BY DEF TypeOK, Inflight

(***************************************************************************)
(* Sending a read: the reader is nowhere yet, and no Shutdown is ahead.    *)
(***************************************************************************)
LEMMA SendKeeps ==
    ASSUME IInv, NEW r \in Readers, SendRead(r), connected
    PROVE  IInv'
<1> USE DEF IInv
<1>1. /\ pc[r] = "send" /\ pc' = [pc EXCEPT ![r] = "wait"]
      /\ channel' = Append(channel, r) /\ Len(channel) < Entries
      /\ UNCHANGED <<connected, stopping, worker, shutting_down, pending, inflight,
                     next_user_data, sq, kernel, cq, reply, leaked, fatal>>
  BY DEF SendRead, Goto, requests, ring
<1>2. /\ channel \in Seq(Readers \cup {Shutdown}) /\ pc \in [Readers \cup Stoppers -> CallerPlaces]
      /\ Entries \in Nat /\ Shutdown \notin Readers /\ Readers \cap Stoppers = {}
  BY UringAssumption DEF TypeOK
<1>3. /\ channel' \in Seq(Readers \cup {Shutdown}) /\ Len(channel') = Len(channel) + 1
      /\ Len(channel) \in Nat
      /\ \A i \in 1 .. Len(channel) : channel'[i] = channel[i]
      /\ channel'[Len(channel) + 1] = r
      /\ Elems(channel') = Elems(channel) \cup {r}
  BY <1>1, <1>2, Pushed
<1>4. TypeOK'
  BY <1>1, <1>2, <1>3 DEF TypeOK, CallerPlaces
<1>5. WorkerOK' /\ RingMatches' /\ RingDistinct' /\ AcceptedReadsDrained'
  BY <1>1 DEF WorkerOK, RingMatches, RingDistinct, AcceptedReadsDrained
<1>6. r \notin Unanswered /\ reply[r] = None
  BY <1>1 DEF Unanswered, Located
<1>7. r \notin Elems(channel) /\ r \notin Elems(pending) /\ r \notin Inflight
  BY <1>6 DEF Located
<1>8. Unanswered' = Unanswered \cup {r}
  BY <1>1, <1>2, <1>6 DEF Unanswered
<1>9. Inflight' = Inflight
  BY <1>1 DEF Inflight
<1>10. Located'
  <2>1. \A i, j \in 1 .. Len(channel') :
           channel'[i] = channel'[j] /\ channel'[i] \in Readers => i = j
    BY <1>3, <1>7 DEF Located, Elems
  <2>2. \A q \in Readers : reply'[q] # None => pc'[q] = "wait"
    BY <1>1, <1>2 DEF Located
  <2> QED
    BY <1>1, <1>3, <1>7, <1>8, <1>9, <2>1, <2>2 DEF Located
<1>11. Gated'
  <2>1. ReadersIn' \subseteq ReadersIn /\ StoppersIn' = StoppersIn
    BY <1>1, <1>2 DEF ReadersIn, StoppersIn
  <2> QED
    BY <1>1, <1>2, <2>1 DEF Gated
<1>12. ShutdownLast'
  <2>1. ~shutting_down /\ Shutdown \notin Elems(channel)
    BY <1>1 DEF ShutdownLast
  <2>2. Shutdown \notin Elems(channel')
    BY <1>2, <1>3, <2>1
  <2> QED
    BY <1>1, <2>1, <2>2 DEF ShutdownLast, Elems
<1> QED
  BY <1>4, <1>5, <1>10, <1>11, <1>12

(***************************************************************************)
(* Sending Shutdown: the gate has shut the readers out.                    *)
(***************************************************************************)
LEMMA StopSendKeeps ==
    ASSUME IInv, NEW s \in Stoppers, StopSend(s), connected
    PROVE  IInv'
<1> USE DEF IInv
<1>1. /\ pc[s] = "stop_send" /\ pc' = [pc EXCEPT ![s] = "stop_join"]
      /\ channel' = Append(channel, Shutdown) /\ Len(channel) < Entries
      /\ UNCHANGED <<connected, stopping, worker, shutting_down, pending, inflight,
                     next_user_data, sq, kernel, cq, reply, leaked, fatal>>
  BY DEF StopSend, Goto, requests, ring
<1>2. /\ channel \in Seq(Readers \cup {Shutdown}) /\ pc \in [Readers \cup Stoppers -> CallerPlaces]
      /\ Entries \in Nat /\ Shutdown \notin Readers /\ Readers \cap Stoppers = {}
  BY UringAssumption DEF TypeOK
<1>3. /\ channel' \in Seq(Readers \cup {Shutdown}) /\ Len(channel') = Len(channel) + 1
      /\ Len(channel) \in Nat
      /\ \A i \in 1 .. Len(channel) : channel'[i] = channel[i]
      /\ channel'[Len(channel) + 1] = Shutdown
      /\ Elems(channel') = Elems(channel) \cup {Shutdown}
  BY <1>1, <1>2, Pushed
<1>4. TypeOK'
  BY <1>1, <1>2, <1>3 DEF TypeOK, CallerPlaces
<1>5. WorkerOK' /\ RingMatches' /\ RingDistinct' /\ AcceptedReadsDrained'
  BY <1>1 DEF WorkerOK, RingMatches, RingDistinct, AcceptedReadsDrained
<1>6. Unanswered' = Unanswered /\ Inflight' = Inflight
  BY <1>1, <1>2 DEF Unanswered, Inflight
<1>7. Shutdown \notin Elems(pending) /\ Shutdown \notin Inflight
  BY <1>2, ElemsIn, InflightReads DEF TypeOK
<1>8. Located'
  <2>1. \A i, j \in 1 .. Len(channel') :
           channel'[i] = channel'[j] /\ channel'[i] \in Readers => i = j
    BY <1>2, <1>3 DEF Located
  <2>2. \A q \in Readers : reply'[q] # None => pc'[q] = "wait"
    BY <1>1, <1>2 DEF Located
  <2> QED
    BY <1>1, <1>2, <1>3, <1>6, <1>7, <2>1, <2>2 DEF Located
<1>9. StoppersIn' = StoppersIn /\ s \in StoppersIn /\ ReadersIn' = ReadersIn
  BY <1>1, <1>2 DEF ReadersIn, StoppersIn
<1>10. Gated' /\ stopping /\ ReadersIn = {}
  BY <1>1, <1>2, <1>9 DEF Gated
<1>11. ShutdownLast'
  <2>1. stopping' /\ \A r \in Readers : pc'[r] # "send"
    BY <1>1, <1>2, <1>9, <1>10 DEF ReadersIn
  <2>2. \A i, j \in 1 .. Len(channel') : i < j /\ channel'[i] = Shutdown => channel'[j] = Shutdown
    BY <1>3 DEF ShutdownLast
  <2>3. shutting_down' => \A i \in 1 .. Len(channel') : channel'[i] = Shutdown
    BY <1>1, <1>3 DEF ShutdownLast
  <2> QED
    BY <2>1, <2>2, <2>3 DEF ShutdownLast
<1> QED
  BY <1>4, <1>5, <1>8, <1>10, <1>11

(***************************************************************************)
(* A caller takes its answer.                                              *)
(***************************************************************************)
LEMMA ReceiveReplyKeeps ==
    ASSUME IInv, NEW r \in Readers, ReceiveReply(r)
    PROVE  IInv'
<1> USE DEF IInv
<1>1. /\ reply[r] # None /\ pc[r] = "wait" /\ pc' = [pc EXCEPT ![r] = "done"]
      /\ reply' = [q \in Readers |-> IF q \in {r} THEN None ELSE reply[q]]
      /\ UNCHANGED <<channel, connected, stopping, worker, shutting_down, pending, inflight,
                     next_user_data, sq, kernel, cq, leaked, fatal>>
  BY DEF ReceiveReply, Answer, Goto, requests, ring
<1>2. /\ pc \in [Readers \cup Stoppers -> CallerPlaces] /\ Readers \cap Stoppers = {}
      /\ reply \in [Readers -> {None, "ok", "error", "stopped"}]
      /\ None \notin {"ok", "error", "stopped"}
  BY UringAssumption DEF TypeOK
<1>3. TypeOK'
  BY <1>1, <1>2 DEF TypeOK, CallerPlaces
<1>4. WorkerOK' /\ RingMatches' /\ RingDistinct'
  BY <1>1 DEF WorkerOK, RingMatches, RingDistinct
<1>5. AcceptedReadsDrained'
  BY <1>1, <1>2 DEF AcceptedReadsDrained
<1>6. Unanswered' = Unanswered /\ Inflight' = Inflight
  BY <1>1, <1>2 DEF Unanswered, Inflight
<1>7. Located'
  <2>1. \A q \in Readers : reply'[q] # None => pc'[q] = "wait"
    BY <1>1, <1>2 DEF Located
  <2> QED
    BY <1>1, <1>6, <2>1 DEF Located
<1>8. ReadersIn' = ReadersIn /\ StoppersIn' = StoppersIn
  BY <1>1, <1>2 DEF ReadersIn, StoppersIn
<1>9. Gated' /\ ShutdownLast'
  BY <1>1, <1>2, <1>8 DEF Gated, ShutdownLast
<1> QED
  BY <1>3, <1>4, <1>5, <1>7, <1>9
-----------------------------------------------------------------------------
(***************************************************************************)
(* The ring thread receives a command: a read goes to the backlog, and no  *)
(* read comes after Shutdown.                                              *)
(***************************************************************************)
LEMMA ReceiveKeeps ==
    ASSUME IInv, Receive, worker \in {"recv", "drain"}, worker' = "drain"
    PROVE  IInv'
<1> USE DEF IInv
<1> DEFINE h == Head(channel)
<1>1. /\ channel # <<>> /\ channel' = Tail(channel)
      /\ UNCHANGED <<connected, pc, stopping, inflight, next_user_data, sq, kernel, cq, leaked, fatal>>
  BY DEF Receive, callers, ring
<1>2. /\ channel \in Seq(Readers \cup {Shutdown}) /\ pending \in Seq(Readers)
      /\ Shutdown \notin Readers /\ Entries \in Nat /\ Len(channel) <= Entries
  BY UringAssumption DEF TypeOK
<1>3. /\ h \in Readers \cup {Shutdown} /\ h = channel[1] /\ h \in Elems(channel)
      /\ channel' \in Seq(Readers \cup {Shutdown}) /\ Len(channel') = Len(channel) - 1
      /\ Len(channel) \in Nat \ {0}
      /\ \A i \in 1 .. Len(channel) - 1 : channel'[i] = channel[i + 1]
      /\ Elems(channel) = Elems(channel') \cup {h}
  BY <1>1, <1>2, Popped
<1> HIDE DEF h
<1>4. ~fatal
  BY DEF WorkerOK
<1>5. WorkerOK' /\ RingMatches' /\ RingDistinct' /\ worker' \in WorkerPlaces
  BY <1>1, <1>4 DEF WorkerOK, RingMatches, RingDistinct, WorkerPlaces
<1>6. Inflight' = Inflight /\ ReadersIn' = ReadersIn /\ StoppersIn' = StoppersIn
  BY <1>1 DEF Inflight, ReadersIn, StoppersIn
<1>7. Gated'
  BY <1>1, <1>6 DEF Gated
<1>8. \A i, j \in 1 .. Len(channel') :
           channel'[i] = channel'[j] /\ channel'[i] \in Readers => i = j
  BY <1>3 DEF Located
<1>9. \A i, j \in 1 .. Len(channel') : i < j /\ channel'[i] = Shutdown => channel'[j] = Shutdown
  BY <1>3 DEF ShutdownLast
<1>10. CASE h = Shutdown
  <2>1. shutting_down' = TRUE /\ pending' = pending /\ reply' = reply
    BY <1>10 DEF Receive, h
  <2>2. TypeOK' /\ AcceptedReadsDrained'
    BY <1>1, <1>2, <1>3, <1>5, <2>1 DEF TypeOK, AcceptedReadsDrained
  <2>3. Unanswered' = Unanswered
    BY <1>1, <2>1 DEF Unanswered
  <2>4. Located'
    BY <1>1, <1>2, <1>3, <1>6, <1>8, <1>10, <2>1, <2>3 DEF Located
  <2>5. \A i \in 1 .. Len(channel') : channel'[i] = Shutdown
    <3>1. \A i \in 1 .. Len(channel) : 1 < i => channel[i] = Shutdown
      <4>1. 1 \in 1 .. Len(channel) /\ channel[1] = Shutdown
        BY <1>3, <1>10
      <4> QED
        BY <4>1 DEF ShutdownLast
    <3> QED
      BY <1>3, <3>1
  <2>6. stopping' /\ \A r \in Readers : pc'[r] # "send"
    BY <1>1, <1>3, <1>10 DEF ShutdownLast
  <2>7. ShutdownLast'
    BY <1>9, <2>5, <2>6 DEF ShutdownLast
  <2> QED
    BY <1>5, <1>7, <2>2, <2>4, <2>7
<1>11. CASE h # Shutdown
  <2>1. h \in Readers
    BY <1>3, <1>11
  <2>2. ~shutting_down
    BY <1>3, <1>11 DEF ShutdownLast
  <2>3. pending' = Append(pending, h) /\ reply' = reply /\ shutting_down' = shutting_down
    BY <1>11, <2>2 DEF Receive, h
  <2>4. /\ pending' \in Seq(Readers) /\ Len(pending') = Len(pending) + 1 /\ Len(pending) \in Nat
        /\ \A i \in 1 .. Len(pending) : pending'[i] = pending[i]
        /\ pending'[Len(pending) + 1] = h
        /\ Elems(pending') = Elems(pending) \cup {h}
    BY <1>2, <2>1, <2>3, Pushed
  <2>5. TypeOK' /\ AcceptedReadsDrained'
    BY <1>1, <1>2, <1>3, <1>5, <2>3, <2>4 DEF TypeOK, AcceptedReadsDrained
  <2>6. Unanswered' = Unanswered
    BY <1>1, <2>3 DEF Unanswered
  <2>7. h \notin Elems(pending) /\ h \notin Inflight
    BY <1>3 DEF Located
  <2>8. h \notin Elems(channel')
    <3>1. ASSUME NEW i \in 1 .. Len(channel'), channel'[i] = h PROVE FALSE
      <4>1. i + 1 \in 1 .. Len(channel) /\ channel[i + 1] = channel[1] /\ 1 \in 1 .. Len(channel)
        BY <1>3, <3>1
      <4>2. i + 1 = 1
        BY <1>3, <2>1, <4>1 DEF Located
      <4> QED
        BY <1>3, <4>2
    <3> QED
      BY <3>1 DEF Elems
  <2>9. \A i, j \in 1 .. Len(pending') : pending'[i] = pending'[j] => i = j
    BY <2>4, <2>7 DEF Located, Elems
  <2>10. Located'
    BY <1>1, <1>3, <1>6, <1>8, <2>3, <2>4, <2>6, <2>7, <2>8, <2>9 DEF Located
  <2>11. ShutdownLast'
    BY <1>1, <1>3, <1>9, <2>2, <2>3 DEF ShutdownLast
  <2> QED
    BY <1>5, <1>7, <2>5, <2>10, <2>11
<1> QED
  BY <1>10, <1>11

(***************************************************************************)
(* A step in which only the ring thread's place changes.                   *)
(***************************************************************************)
LEMMA WorkerMoves ==
    ASSUME IInv, ~fatal,
           worker' \in WorkerPlaces \ {"fail"}, worker' = "close" => shutting_down,
           next_user_data' \in UserData,
           UNCHANGED <<channel, connected, pc, stopping, shutting_down, pending, inflight,
                       sq, kernel, cq, reply, leaked, fatal>>
    PROVE  IInv'
<1> USE DEF IInv
<1>1. TypeOK' /\ WorkerOK' /\ RingMatches' /\ RingDistinct' /\ AcceptedReadsDrained'
  BY DEF TypeOK, WorkerOK, RingMatches, RingDistinct, AcceptedReadsDrained
<1>2. Unanswered' = Unanswered /\ Inflight' = Inflight
  BY DEF Unanswered, Inflight
<1>3. Located'
  BY <1>2 DEF Located
<1>4. Gated' /\ ShutdownLast'
  BY DEF Gated, ShutdownLast, StoppersIn, ReadersIn
<1> QED
  BY <1>1, <1>3, <1>4

(***************************************************************************)
(* With a read in the backlog some user_data is free, so that the search   *)
(* of allocate_user_data ends, on one that is free.                        *)
(***************************************************************************)
LEMMA AllocateFree ==
    ASSUME IInv, pending # <<>>
    PROVE  allocate_user_data \in UserData /\ inflight[allocate_user_data] = None
<1> DEFINE m == UserDataMod - 1
           n == next_user_data
<1>1. m \in Nat \ {0} /\ UserData = 1 .. m /\ n \in 1 .. m /\ UserDataMod \in Nat
  BY UringAssumption DEF UserData, IInv, TypeOK
<1>2. PICK u \in UserData : inflight[u] = None
  <2> SUFFICES ASSUME \A u \in UserData : inflight[u] # None PROVE FALSE
    OBVIOUS
  <2> DEFINE h == Head(pending)
             T == Readers \ {h}
  <2>1. h \in Readers /\ h \in Elems(pending)
    BY Popped DEF IInv, TypeOK
  <2>2. h \notin Inflight
    BY <2>1 DEF IInv, Located
  <2>3. inflight \in [UserData -> T]
    BY <2>2 DEF IInv, TypeOK, Inflight
  <2>4. IsFiniteSet(T) /\ Cardinality(T) = Cardinality(Readers) - 1
        /\ Cardinality(Readers) \in Nat /\ Cardinality(T) \in Nat
    BY <2>1, FS_RemoveElement, FS_CardinalityType, UringAssumption
  <2>5. IsFiniteSet(UserData) /\ Cardinality(UserData) = m
    BY <1>1, FS_Interval
  <2>6. Cardinality(T) < Cardinality(UserData)
    BY <1>1, <2>4, <2>5, UringAssumption
  <2> HIDE DEF T
  <2>7. PICK u, v \in UserData : u # v /\ inflight[u] = inflight[v]
    BY <2>3, <2>4, <2>5, <2>6, FS_PigeonHole
  <2> QED
    BY <2>7 DEF IInv, Located
<1> DEFINE Free == {i \in 0 .. (UserDataMod - 2) : inflight[Candidate(i)] = None}
<1>3. Free # {}
  <2> DEFINE i == IF u >= n THEN u - n ELSE u - n + m
  <2>1. i \in 0 .. m - 1 /\ u \in 1 .. m
    BY <1>1, <1>2
  <2>2. Candidate(i) = u
    <3>1. n - 1 + i \in Nat /\ (n - 1 + i = u - 1 \/ n - 1 + i = u - 1 + m)
      BY <1>1, <2>1
    <3>2. (n - 1 + i) % m = u - 1
      <4>1. u - 1 \in 0 .. m - 1
        BY <1>1, <2>1
      <4>2. (u - 1) % m = u - 1
        BY <1>1, <4>1
      <4>3. (u - 1 + m) % m = u - 1
        BY <1>1, <4>1
      <4> QED
        BY <3>1, <4>2, <4>3
    <3> QED
      BY <1>1, <2>1, <3>2 DEF Candidate
  <2>3. i \in 0 .. (UserDataMod - 2)
    BY <1>1, <2>1
  <2> HIDE DEF i
  <2> QED
    BY <1>2, <2>2, <2>3
<1>4. PICK k \in Free : \A j \in Free : k <= j
  <2>1. Free \in SUBSET Nat
    BY <1>1
  <2> HIDE DEF Free
  <2> QED
    BY <1>3, <2>1, LeastNatural
<1>5. /\ k \in 0 .. (UserDataMod - 2) /\ inflight[Candidate(k)] = None
      /\ \A j \in 0 .. (k - 1) : inflight[Candidate(j)] # None
  BY <1>1, <1>4
<1> DEFINE c == CHOOSE i \in 0 .. (UserDataMod - 2) :
                /\ inflight[Candidate(i)] = None
                /\ \A j \in 0 .. (i - 1) : inflight[Candidate(j)] # None
<1>6. c \in 0 .. (UserDataMod - 2) /\ inflight[Candidate(c)] = None
  BY <1>5
<1>7. allocate_user_data = Candidate(c)
  BY DEF allocate_user_data
<1> HIDE DEF c
<1>8. Candidate(c) \in 1 .. m
  <2>1. n - 1 + c \in Nat
    BY <1>1, <1>6
  <2>2. (n - 1 + c) % m \in 0 .. m - 1
    BY <1>1, <2>1
  <2> QED
    BY <1>1, <2>2 DEF Candidate
<1> QED
  BY <1>1, <1>6, <1>7, <1>8
(***************************************************************************)
(* The number after a user_data, around 0, is a user_data.                 *)
(***************************************************************************)
LEMMA NextUserData ==
    ASSUME NEW u \in UserData
    PROVE  (u % (UserDataMod - 1)) + 1 \in UserData
<1> DEFINE m == UserDataMod - 1
<1>1. m \in Nat \ {0} /\ u \in Nat /\ UserData = 1 .. m
  BY UringAssumption DEF UserData
<1>2. u % m \in 0 .. m - 1
  BY <1>1
<1> QED
  BY <1>1, <1>2

(***************************************************************************)
(* A request is pushed under a user_data that nothing in the rings bears.  *)
(***************************************************************************)
LEMMA PushKeeps ==
    ASSUME IInv, PushRead
    PROVE  IInv'
<1> USE DEF IInv
<1> DEFINE u == allocate_user_data
           h == Head(pending)
           e == [user_data |-> u, request |-> h]
<1>1. /\ worker = "submit" /\ worker' = "submit" /\ pending # <<>> /\ Len(sq) < Entries
      /\ inflight' = [inflight EXCEPT ![u] = h]
      /\ sq' = Append(sq, e)
      /\ next_user_data' = (u % (UserDataMod - 1)) + 1
      /\ pending' = Tail(pending)
      /\ UNCHANGED <<channel, connected, pc, stopping, shutting_down, kernel, cq, reply, leaked, fatal>>
  BY DEF PushRead, Step, callers
<1>2. u \in UserData /\ inflight[u] = None
  BY <1>1, AllocateFree
<1> HIDE DEF u
<1>3. /\ pending \in Seq(Readers) /\ sq \in Seq(Entry) /\ inflight \in [UserData -> Readers \cup {None}]
      /\ None \notin Readers /\ Entries \in Nat
  BY UringAssumption DEF TypeOK
<1>4. /\ h \in Readers /\ h = pending[1] /\ h \in Elems(pending)
      /\ pending' \in Seq(Readers) /\ Len(pending') = Len(pending) - 1
      /\ Len(pending) \in Nat \ {0}
      /\ \A i \in 1 .. Len(pending) - 1 : pending'[i] = pending[i + 1]
      /\ Elems(pending) = Elems(pending') \cup {h}
  BY <1>1, <1>3, Popped
<1> HIDE DEF h
<1>5. e \in Entry /\ e.user_data = u /\ e.request = h
  BY <1>2, <1>4 DEF Entry
<1> HIDE DEF e
<1>6. /\ sq' \in Seq(Entry) /\ Len(sq') = Len(sq) + 1 /\ Len(sq) \in Nat
      /\ \A i \in 1 .. Len(sq) : sq'[i] = sq[i]
      /\ sq'[Len(sq) + 1] = e
      /\ Elems(sq') = Elems(sq) \cup {e}
  BY <1>1, <1>3, <1>5, Pushed
<1>7. TypeOK'
  <2>1. next_user_data' \in UserData
    BY <1>1, <1>2, NextUserData
  <2>2. inflight' \in [UserData -> Readers \cup {None}]
    BY <1>1, <1>3, <1>4
  <2> QED
    BY <1>1, <1>3, <1>4, <1>6, <2>1, <2>2 DEF TypeOK
<1>8. ~fatal /\ WorkerOK'
  BY <1>1 DEF WorkerOK
<1>9. \A f \in cq \cup kernel \cup Elems(sq) :
         /\ inflight[f.user_data] = f.request /\ f.user_data \in UserData
         /\ f.request \in Readers /\ f.user_data # u
  <2>1. \A f \in cq \cup kernel \cup Elems(sq) : f.user_data \in UserData /\ f.request \in Readers
    <3>1. Elems(sq) \subseteq Entry /\ kernel \subseteq Entry /\ cq \subseteq Completion
      BY <1>3, ElemsIn DEF TypeOK
    <3>2. \A f \in Entry : f.user_data \in UserData /\ f.request \in Readers
      BY DEF Entry
    <3>3. \A f \in Completion : f.user_data \in UserData /\ f.request \in Readers
      BY DEF Completion
    <3> QED
      BY <3>1, <3>2, <3>3
  <2> QED
    BY <1>2, <1>3, <1>8, <2>1 DEF RingMatches
<1>10. RingMatches'
  <2>1. \A f \in cq' \cup kernel' \cup Elems(sq') : inflight'[f.user_data] = f.request
    BY <1>1, <1>2, <1>3, <1>5, <1>6, <1>9
  <2> QED
    BY <1>1, <1>8, <2>1 DEF RingMatches
<1>11. RingDistinct'
  <2>1. /\ \A c \in cq', f \in kernel' \cup Elems(sq') : c.user_data # f.user_data
        /\ \A f \in kernel', g \in Elems(sq') : f.user_data # g.user_data
    BY <1>1, <1>5, <1>6, <1>8, <1>9 DEF RingDistinct
  <2>2. \A i \in 1 .. Len(sq) : sq[i].user_data # u
    BY <1>9 DEF Elems
  <2>3. \A i, j \in 1 .. Len(sq') : sq'[i].user_data = sq'[j].user_data => i = j
    BY <1>5, <1>6, <1>8, <2>2 DEF RingDistinct
  <2> QED
    BY <2>1, <2>3 DEF RingDistinct
<1>12. Inflight' = Inflight \cup {h} /\ h \notin Inflight
  <2>1. h \notin Inflight
    BY <1>4 DEF Located
  <2>2. \A x : x \in Inflight <=> x # None /\ \E v \in UserData : inflight[v] = x
    BY DEF Inflight
  <2>3. \A x : x \in Inflight' <=> x # None /\ \E v \in UserData : inflight'[v] = x
    BY DEF Inflight
  <2>4. \A v \in UserData : inflight'[v] = IF v = u THEN h ELSE inflight[v]
    BY <1>1, <1>2, <1>3
  <2>5. ASSUME NEW x \in Inflight PROVE x \in Inflight'
    BY <1>2, <2>2, <2>3, <2>4
  <2>6. h \in Inflight'
    BY <1>2, <1>3, <1>4, <2>3, <2>4
  <2>7. ASSUME NEW x \in Inflight' PROVE x \in Inflight \cup {h}
    BY <2>2, <2>3, <2>4
  <2> QED
    BY <2>1, <2>5, <2>6, <2>7
<1>13. h \notin Elems(pending') /\ h \notin Elems(channel)
  <2>1. ASSUME NEW i \in 1 .. Len(pending'), pending'[i] = h PROVE FALSE
    <3>1. i + 1 \in 1 .. Len(pending) /\ pending[i + 1] = pending[1] /\ 1 \in 1 .. Len(pending)
      BY <1>4, <2>1
    <3>2. i + 1 = 1
      BY <3>1 DEF Located
    <3> QED
      BY <1>4, <3>2
  <2> QED
    BY <1>4, <2>1 DEF Elems, Located
<1>14. Unanswered' = Unanswered
  BY <1>1 DEF Unanswered
<1>15. Located'
  <2>1. ASSUME NEW i \in 1 .. Len(pending'), NEW j \in 1 .. Len(pending'),
               pending'[i] = pending'[j]
        PROVE  i = j
    <3>1. /\ i + 1 \in 1 .. Len(pending) /\ j + 1 \in 1 .. Len(pending)
          /\ pending[i + 1] = pending[j + 1]
      BY <1>4, <2>1
    <3>2. i + 1 = j + 1
      BY <3>1 DEF Located
    <3> QED
      BY <1>4, <3>2
  <2>2. \A v, w \in UserData : inflight'[v] = inflight'[w] /\ inflight'[v] # None => v = w
    <3>1. \A v \in UserData : inflight[v] # h
      BY <1>3, <1>4, <1>12 DEF Inflight
    <3> QED
      BY <1>1, <1>2, <1>3, <3>1 DEF Located
  <2>3. /\ Elems(channel') \cap Elems(pending') = {}
        /\ Elems(channel') \cap Inflight' = {}
        /\ Elems(pending') \cap Inflight' = {}
        /\ \A r \in Readers : r \in Unanswered'
              <=> r \in Elems(channel') \cup Elems(pending') \cup Inflight'
    BY <1>1, <1>4, <1>12, <1>13, <1>14 DEF Located
  <2> QED
    BY <1>1, <2>1, <2>2, <2>3 DEF Located
<1>16. Gated' /\ ShutdownLast' /\ AcceptedReadsDrained'
  BY <1>1 DEF Gated, ShutdownLast, AcceptedReadsDrained, StoppersIn, ReadersIn
<1> QED
  BY <1>7, <1>8, <1>10, <1>11, <1>15, <1>16

(***************************************************************************)
(* submit_and_wait hands the pushed entries to the kernel.                 *)
(***************************************************************************)
LEMMA EnterKeeps ==
    ASSUME IInv, Enter
    PROVE  IInv'
<1> USE DEF IInv
<1>1. /\ worker = "enter" /\ worker' = "reap"
      /\ kernel' = kernel \cup Elems(sq) /\ sq' = <<>>
      /\ UNCHANGED <<channel, connected, pc, stopping, shutting_down, pending, inflight,
                     next_user_data, cq, reply, leaked, fatal>>
  BY DEF Enter, Step, callers, requests, Elems
<1>2. ~fatal /\ WorkerOK'
  BY <1>1 DEF WorkerOK
<1>3. Elems(sq') = {} /\ Len(sq') = 0 /\ sq' \in Seq(Entry)
  BY <1>1, ElemsEmpty, EmptySeq
<1>4. Elems(sq) \subseteq Entry
  BY ElemsIn DEF TypeOK
<1>5. TypeOK'
  BY <1>1, <1>3, <1>4, UringAssumption DEF TypeOK, WorkerPlaces
<1>6. RingMatches' /\ RingDistinct'
  BY <1>1, <1>2, <1>3 DEF RingMatches, RingDistinct
<1>7. Unanswered' = Unanswered /\ Inflight' = Inflight
  BY <1>1 DEF Unanswered, Inflight
<1>8. Located'
  BY <1>1, <1>7 DEF Located
<1>9. Gated' /\ ShutdownLast' /\ AcceptedReadsDrained'
  BY <1>1 DEF Gated, ShutdownLast, AcceptedReadsDrained, StoppersIn, ReadersIn
<1> QED
  BY <1>2, <1>5, <1>6, <1>8, <1>9

(***************************************************************************)
(* submit_and_wait fails: what the kernel has it keeps.                    *)
(***************************************************************************)
LEMMA EnterFailsKeeps ==
    ASSUME IInv, EnterFails
    PROVE  IInv'
<1> USE DEF IInv
<1>1. /\ worker \in {"enter", "reap"} /\ worker' = "fail" /\ fatal' = TRUE /\ sq' = <<>>
      /\ UNCHANGED <<channel, connected, pc, stopping, shutting_down, pending, inflight,
                     next_user_data, kernel, cq, reply, leaked>>
  BY DEF EnterFails, callers, requests
<1>2. ~fatal /\ WorkerOK'
  BY <1>1 DEF WorkerOK
<1>3. Elems(sq') = {} /\ Len(sq') = 0 /\ sq' \in Seq(Entry)
  BY <1>1, ElemsEmpty, EmptySeq
<1>4. TypeOK'
  BY <1>1, <1>3, UringAssumption DEF TypeOK, WorkerPlaces
<1>5. RingMatches' /\ RingDistinct'
  BY <1>1, <1>2, <1>3 DEF RingMatches, RingDistinct
<1>6. Unanswered' = Unanswered /\ Inflight' = Inflight
  BY <1>1 DEF Unanswered, Inflight
<1>7. Located'
  BY <1>1, <1>6 DEF Located
<1>8. Gated' /\ ShutdownLast' /\ AcceptedReadsDrained'
  BY <1>1 DEF Gated, ShutdownLast, AcceptedReadsDrained, StoppersIn, ReadersIn
<1> QED
  BY <1>2, <1>4, <1>5, <1>7, <1>8

(***************************************************************************)
(* The kernel finishes an entry, possibly after the ring thread failed.    *)
(***************************************************************************)
LEMMA CompletesKeeps ==
    ASSUME IInv, KernelCompletes
    PROVE  IInv'
<1> USE DEF IInv
<1>1. PICK e \in kernel, res \in {"ok", "error"} :
          /\ kernel' = kernel \ {e}
          /\ cq' = cq \cup {[user_data |-> e.user_data, request |-> e.request, result |-> res]}
  BY DEF KernelCompletes
<1>2. UNCHANGED <<channel, connected, pc, stopping, worker, shutting_down, pending, inflight,
                  next_user_data, sq, reply, leaked, fatal>>
  BY DEF KernelCompletes, callers, requests
<1> DEFINE c == [user_data |-> e.user_data, request |-> e.request, result |-> res]
<1>3. e \in Entry /\ c \in Completion /\ c.user_data = e.user_data /\ c.request = e.request
  BY DEF TypeOK, Entry, Completion
<1>4. cq' = cq \cup {c}
  BY <1>1
<1> HIDE DEF c
<1>5. TypeOK' /\ WorkerOK'
  BY <1>1, <1>2, <1>3, <1>4 DEF TypeOK, WorkerOK
<1>6. RingMatches'
  BY <1>1, <1>2, <1>3, <1>4 DEF RingMatches
<1>7. RingDistinct'
  <2> SUFFICES ASSUME ~fatal PROVE RingDistinct'
    BY <1>2 DEF RingDistinct
  <2>1. \A f \in kernel : f.user_data = e.user_data => f = e
    <3>1. \A f \in kernel : f \in Entry /\ inflight[f.user_data] = f.request
      BY DEF TypeOK, RingMatches
    <3>2. \A f \in Entry : f = [user_data |-> f.user_data, request |-> f.request]
      BY DEF Entry
    <3> QED
      BY <1>3, <3>1, <3>2
  <2> QED
    BY <1>1, <1>2, <1>3, <1>4, <2>1 DEF RingDistinct
<1>8. Unanswered' = Unanswered /\ Inflight' = Inflight
  BY <1>2 DEF Unanswered, Inflight
<1>9. Located'
  BY <1>2, <1>8 DEF Located
<1>10. Gated' /\ ShutdownLast' /\ AcceptedReadsDrained'
  BY <1>2 DEF Gated, ShutdownLast, AcceptedReadsDrained, StoppersIn, ReadersIn
<1> QED
  BY <1>5, <1>6, <1>7, <1>9, <1>10
(***************************************************************************)
(* The ring thread takes the completions: those answered leave the table.  *)
(***************************************************************************)
LEMMA ReapKeeps ==
    ASSUME IInv, Reap
    PROVE  IInv'
<1> USE DEF IInv
<1> DEFINE Gone == {u \in UserData : \E e \in cq : e.user_data = u}
           Told == {r \in Readers : \E e \in cq : inflight[e.user_data] = r}
<1>1. /\ worker = "reap" /\ worker' = "recv" /\ cq' = {}
      /\ reply' = [r \in Readers |->
                     IF \E e \in cq : inflight[e.user_data] = r
                     THEN (CHOOSE e \in cq : inflight[e.user_data] = r).result
                     ELSE reply[r]]
      /\ inflight' = [u \in UserData |->
                        IF \E e \in cq : e.user_data = u THEN None ELSE inflight[u]]
      /\ UNCHANGED <<channel, connected, pc, stopping, shutting_down, pending,
                     next_user_data, sq, kernel, leaked, fatal>>
  BY DEF Reap, Step, callers
<1>2. /\ inflight \in [UserData -> Readers \cup {None}] /\ cq \subseteq Completion
      /\ reply \in [Readers -> {None, "ok", "error", "stopped"}]
      /\ None \notin Readers /\ None \notin {"ok", "error", "stopped"}
  BY UringAssumption DEF TypeOK
<1>3. ~fatal /\ WorkerOK'
  BY <1>1 DEF WorkerOK
<1>4. \A e \in cq : e.user_data \in UserData /\ e.result \in {"ok", "error"}
  BY <1>2 DEF Completion
<1>5. /\ \A r \in Told : reply'[r] \in {"ok", "error"}
      /\ \A r \in Readers \ Told : reply'[r] = reply[r]
  <2>1. ASSUME NEW r \in Told PROVE reply'[r] \in {"ok", "error"}
    <3>1. (CHOOSE e \in cq : inflight[e.user_data] = r) \in cq
      OBVIOUS
    <3> QED
      BY <1>1, <1>4, <3>1
  <2> QED
    BY <1>1, <2>1
<1>6. /\ \A u \in Gone : inflight'[u] = None
      /\ \A u \in UserData \ Gone : inflight'[u] = inflight[u]
  BY <1>1
<1>7. \A u \in UserData : (u \in Gone /\ inflight[u] # None) => inflight[u] \in Told
  BY <1>2
<1>8. \A r \in Told : \E u \in Gone : inflight[u] = r
  BY <1>4
<1> HIDE DEF Gone, Told
<1>9. Told \subseteq Readers /\ Gone \subseteq UserData
  BY DEF Told, Gone
<1>10. /\ reply' \in [Readers -> {None, "ok", "error", "stopped"}]
       /\ inflight' \in [UserData -> Readers \cup {None}]
  <2>1. \A r \in Readers : reply'[r] \in {None, "ok", "error", "stopped"}
    BY <1>2, <1>5
  <2>2. \A u \in UserData : inflight'[u] \in Readers \cup {None}
    BY <1>2, <1>6
  <2>3. inflight' = [u \in UserData |-> inflight'[u]]
    BY <1>1
  <2>4. reply' = [r \in Readers |-> reply'[r]]
    BY <1>1
  <2> QED
    BY <2>1, <2>2, <2>3, <2>4
<1>11. TypeOK'
  BY <1>1, <1>10 DEF TypeOK, WorkerPlaces
<1>12. RingMatches' /\ RingDistinct'
  <2>1. \A e \in kernel \cup Elems(sq) : e.user_data \in UserData \ Gone
    <3>1. kernel \subseteq Entry /\ Elems(sq) \subseteq Entry
      BY ElemsIn DEF TypeOK
    <3>2. \A e \in Entry : e.user_data \in UserData
      BY DEF Entry
    <3> QED
      BY <1>3, <3>1, <3>2 DEF RingDistinct, Gone
  <2>2. RingMatches'
    BY <1>1, <1>3, <1>6, <2>1 DEF RingMatches
  <2> QED
    BY <1>1, <1>3, <2>2 DEF RingDistinct
<1>13. Inflight' = Inflight \ Told
  <2>1. \A x : x \in Inflight <=> x # None /\ \E v \in UserData : inflight[v] = x
    BY DEF Inflight
  <2>2. \A x : x \in Inflight' <=> x # None /\ \E v \in UserData : inflight'[v] = x
    BY DEF Inflight
  <2>3. ASSUME NEW x \in Inflight' PROVE x \in Inflight \ Told
    <3>1. PICK v \in UserData \ Gone : inflight[v] = x /\ x # None
      BY <1>6, <2>2
    <3>2. ASSUME x \in Told PROVE FALSE
      <4>1. PICK w \in Gone : inflight[w] = x
        BY <1>8, <3>2
      <4> QED
        BY <1>9, <3>1, <4>1 DEF Located
    <3> QED
      BY <2>1, <3>1, <3>2
  <2>4. ASSUME NEW x \in Inflight, x \notin Told PROVE x \in Inflight'
    <3>1. PICK v \in UserData : inflight[v] = x /\ x # None
      BY <2>1
    <3>2. v \notin Gone
      BY <1>7, <2>4, <3>1
    <3> QED
      BY <1>6, <2>2, <3>1, <3>2
  <2> QED
    BY <2>3, <2>4
<1>14. Told \subseteq Inflight /\ Told \subseteq Unanswered
  <2>1. Told \subseteq Inflight
    BY <1>2, <1>8, <1>9 DEF Inflight
  <2> QED
    BY <1>9, <2>1 DEF Located
<1>15. Unanswered' = Unanswered \ Told
  <2>1. pc' = pc
    BY <1>1
  <2>2. \A r \in Told : reply'[r] # None
    BY <1>2, <1>5
  <2>3. \A r \in Readers : r \in Unanswered' <=> r \in Unanswered /\ r \notin Told
    BY <1>5, <1>9, <2>1, <2>2 DEF Unanswered
  <2> QED
    BY <2>3 DEF Unanswered
<1>16. Located'
  <2>1. \A u, v \in UserData : inflight'[u] = inflight'[v] /\ inflight'[u] # None => u = v
    BY <1>6 DEF Located
  <2>2. \A r \in Readers : reply'[r] # None => pc'[r] = "wait"
    BY <1>1, <1>5, <1>14 DEF Located, Unanswered
  <2>3. /\ Elems(channel') \cap Elems(pending') = {}
        /\ Elems(channel') \cap Inflight' = {}
        /\ Elems(pending') \cap Inflight' = {}
        /\ \A r \in Readers : r \in Unanswered'
              <=> r \in Elems(channel') \cup Elems(pending') \cup Inflight'
    BY <1>1, <1>13, <1>14, <1>15 DEF Located
  <2> QED
    BY <1>1, <2>1, <2>2, <2>3 DEF Located
<1>17. AcceptedReadsDrained'
  BY <1>1, <1>5 DEF AcceptedReadsDrained
<1>18. Gated' /\ ShutdownLast'
  BY <1>1 DEF Gated, ShutdownLast, StoppersIn, ReadersIn
<1> QED
  BY <1>3, <1>11, <1>12, <1>16, <1>17, <1>18

(***************************************************************************)
(* fail_all answers everyone it knows of and leaks the pages in flight.    *)
(***************************************************************************)
LEMMA FailAllKeeps ==
    ASSUME IInv, FailAll
    PROVE  IInv'
<1> USE DEF IInv
<1> DEFINE Told == Inflight \cup Elems(pending)
<1>1. /\ worker = "fail" /\ worker' = "close" /\ leaked' = Inflight /\ pending' = <<>>
      /\ inflight' = [u \in UserData |-> None]
      /\ reply' = [r \in Readers |-> IF r \in Told THEN "error" ELSE reply[r]]
      /\ UNCHANGED <<channel, connected, pc, stopping, shutting_down,
                     next_user_data, sq, kernel, cq, fatal>>
  BY DEF FailAll, Step, Answer, callers, ring, Elems
<1>2. /\ reply \in [Readers -> {None, "ok", "error", "stopped"}]
      /\ None \notin Readers /\ None \notin {"ok", "error", "stopped"}
  BY UringAssumption DEF TypeOK
<1>3. fatal /\ WorkerOK'
  BY <1>1 DEF WorkerOK
<1>4. Elems(pending') = {} /\ Len(pending') = 0 /\ pending' \in Seq(Readers) /\ Inflight' = {}
  BY <1>1, ElemsEmpty, EmptySeq DEF Inflight
<1>5. Inflight \subseteq Readers
  BY InflightReads
<1>6. TypeOK'
  BY <1>1, <1>2, <1>4, <1>5 DEF TypeOK, WorkerPlaces
<1>7. RingMatches'
  <2>1. \A e \in kernel : e.request \in Inflight
    <3>1. \A e \in kernel : /\ inflight[e.user_data] = e.request /\ e.user_data \in UserData
                            /\ e.request \in Readers
      BY <1>1 DEF RingMatches, TypeOK, Entry
    <3> QED
      BY <1>2, <3>1 DEF Inflight
  <2> QED
    BY <1>1, <1>3, <2>1 DEF RingMatches
<1>8. RingDistinct' /\ AcceptedReadsDrained'
  BY <1>1, <1>3 DEF RingDistinct, AcceptedReadsDrained
<1>9. Unanswered' = Unanswered \ Told
  BY <1>1, <1>2 DEF Unanswered
<1>10. Located'
  <2>1. \A r \in Readers : reply'[r] # None => pc'[r] = "wait"
    BY <1>1, <1>2 DEF Located, Unanswered
  <2>2. /\ Elems(channel') \cap Elems(pending') = {}
        /\ Elems(channel') \cap Inflight' = {}
        /\ Elems(pending') \cap Inflight' = {}
        /\ \A r \in Readers : r \in Unanswered'
              <=> r \in Elems(channel') \cup Elems(pending') \cup Inflight'
    BY <1>1, <1>4, <1>9 DEF Located
  <2> QED
    BY <1>1, <1>4, <2>1, <2>2 DEF Located
<1>11. Gated' /\ ShutdownLast'
  BY <1>1 DEF Gated, ShutdownLast, StoppersIn, ReadersIn
<1> QED
  BY <1>3, <1>6, <1>7, <1>8, <1>10, <1>11

(***************************************************************************)
(* The ring thread ends: without a failure no read is left in the channel. *)
(***************************************************************************)
LEMMA CloseKeeps ==
    ASSUME IInv, Close
    PROVE  IInv'
<1> USE DEF IInv
<1> DEFINE Told == Elems(channel) \cap Readers
<1>1. /\ worker = "close" /\ worker' = "exited" /\ connected' = FALSE /\ channel' = <<>>
      /\ reply' = [r \in Readers |-> IF r \in Told THEN "stopped" ELSE reply[r]]
      /\ UNCHANGED <<pc, stopping, shutting_down, pending, inflight,
                     next_user_data, sq, kernel, cq, leaked, fatal>>
  BY DEF Close, Step, Answer, callers, ring, requests, Elems
<1>2. /\ reply \in [Readers -> {None, "ok", "error", "stopped"}]
      /\ Shutdown \notin Readers /\ None \notin {"ok", "error", "stopped"} /\ Entries \in Nat
  BY UringAssumption DEF TypeOK
<1>3. Elems(channel') = {} /\ Len(channel') = 0 /\ channel' \in Seq(Readers \cup {Shutdown})
  BY <1>1, ElemsEmpty, EmptySeq
<1>4. TypeOK' /\ WorkerOK'
  <2>1. reply' \in [Readers -> {None, "ok", "error", "stopped"}]
    BY <1>1, <1>2
  <2>2. connected' \in BOOLEAN
    BY <1>1, Zenon
  <2>6. Len(channel') <= Entries
    BY <1>2, <1>3
  <2>3. UNCHANGED <<pc, stopping, shutting_down, pending, inflight,
                    next_user_data, sq, kernel, cq, leaked, fatal>>
    BY <1>1
  <2>4. worker' \in WorkerPlaces
    BY <1>1 DEF WorkerPlaces
  <2>5. TypeOK'
    BY <1>3, <2>1, <2>2, <2>3, <2>4, <2>6 DEF TypeOK
  <2> QED
    BY <1>1, <2>5 DEF WorkerOK
<1>5. RingMatches' /\ RingDistinct'
  BY <1>1 DEF RingMatches, RingDistinct
<1>6. Unanswered' = Unanswered \ Told /\ Inflight' = Inflight
  BY <1>1, <1>2 DEF Unanswered, Inflight
<1>7. Located'
  <2>1. \A r \in Readers : reply'[r] # None => pc'[r] = "wait"
    BY <1>1, <1>2 DEF Located, Unanswered
  <2>2. /\ Elems(channel') \cap Elems(pending') = {}
        /\ Elems(channel') \cap Inflight' = {}
        /\ Elems(pending') \cap Inflight' = {}
        /\ \A r \in Readers : r \in Unanswered'
              <=> r \in Elems(channel') \cup Elems(pending') \cup Inflight'
    BY <1>1, <1>3, <1>6 DEF Located
  <2> QED
    BY <1>1, <1>3, <2>1, <2>2 DEF Located
<1>8. AcceptedReadsDrained'
  <2> SUFFICES ASSUME ~fatal PROVE AcceptedReadsDrained'
    BY <1>1 DEF AcceptedReadsDrained
  <2>1. shutting_down
    BY <1>1 DEF WorkerOK
  <2>2. Told = {}
    BY <1>2, <2>1 DEF ShutdownLast, Elems
  <2> QED
    BY <1>1, <2>2 DEF AcceptedReadsDrained
<1>9. Gated' /\ ShutdownLast'
  BY <1>1, <1>3 DEF Gated, ShutdownLast, StoppersIn, ReadersIn
<1> QED
  BY <1>4, <1>5, <1>7, <1>8, <1>9

(***************************************************************************)
(* Steps of the ring thread that move nothing: it skips the receive, finds *)
(* the channel empty, has pushed everything, or finds the submission queue *)
(* full.                                                                   *)
(***************************************************************************)
LEMMA WorkerKeeps ==
    ASSUME IInv, SkipRecv \/ DrainEmpty \/ AllPushed \/ SqFull
    PROVE  IInv'
<1>1. TypeOK /\ WorkerOK
  BY DEF IInv
<1>2. /\ UNCHANGED <<channel, connected, pc, stopping, shutting_down, pending, inflight,
                     sq, kernel, cq, reply, leaked, fatal>>
      /\ worker \in {"recv", "drain", "submit"}
  BY DEF SkipRecv, DrainEmpty, AllPushed, SqFull, Step, callers, requests, ring
<1>3. ~fatal
  BY <1>1, <1>2 DEF WorkerOK
<1>4. worker' \in WorkerPlaces \ {"fail"} /\ (worker' = "close" => shutting_down)
  BY DEF SkipRecv, DrainEmpty, AllPushed, SqFull, Step, AfterSubmit, WorkerPlaces
<1>5. next_user_data' \in UserData
  <2>1. CASE SqFull
    BY <2>1, AllocateFree, NextUserData DEF SqFull
  <2>2. CASE SkipRecv \/ DrainEmpty \/ AllPushed
    BY <1>1, <2>2 DEF SkipRecv, DrainEmpty, AllPushed, requests, TypeOK
  <2> QED
    BY <2>1, <2>2
<1> QED
  BY <1>2, <1>3, <1>4, <1>5, WorkerMoves

(***************************************************************************)
(* Every step of the engine keeps the inductive invariant.                 *)
(***************************************************************************)
LEMMA NextIInv == IInv /\ [Next]_vars => IInv'
<1> SUFFICES ASSUME IInv, [Next]_vars PROVE IInv'
  OBVIOUS
<1>1. ASSUME NEW r \in Readers, CallRead(r) \/ ReaderStep(r) PROVE IInv'
  <2>1. CASE SendRead(r)
    <3>1. CASE connected
      BY <2>1, <3>1, SendKeeps
    <3>2. CASE ~connected
      BY <2>1, <3>2, CallerKeeps
    <3> QED
      BY <3>1, <3>2
  <2>2. CASE ReceiveReply(r)
    BY <2>2, ReceiveReplyKeeps
  <2>3. CASE CallRead(r) \/ OpenGate(r) \/ CheckStopping(r)
    BY <2>3, CallerKeeps
  <2> QED
    BY <1>1, <2>1, <2>2, <2>3 DEF ReaderStep
<1>2. ASSUME NEW s \in Stoppers, StopBegins(s) \/ StopperStep(s) PROVE IInv'
  <2>1. CASE StopSend(s)
    <3>1. CASE connected
      BY <2>1, <3>1, StopSendKeeps
    <3>2. CASE ~connected
      BY <2>1, <3>2, CallerKeeps
    <3> QED
      BY <3>1, <3>2
  <2>2. CASE StopBegins(s) \/ StopGate(s) \/ StopJoin(s)
    BY <2>2, CallerKeeps
  <2> QED
    BY <1>2, <2>1, <2>2 DEF StopperStep
<1>3. CASE WorkerStep
  <2>1. CASE RecvBlocking \/ DrainOne
    BY <2>1, ReceiveKeeps DEF RecvBlocking, DrainOne, Step
  <2>2. CASE SkipRecv \/ DrainEmpty \/ AllPushed \/ SqFull
    BY <2>2, WorkerKeeps
  <2>3. CASE PushRead
    BY <2>3, PushKeeps
  <2>4. CASE Enter
    BY <2>4, EnterKeeps
  <2>5. CASE Reap
    BY <2>5, ReapKeeps
  <2>6. CASE FailAll
    BY <2>6, FailAllKeeps
  <2>7. CASE Close
    BY <2>7, CloseKeeps
  <2> QED
    BY <1>3, <2>1, <2>2, <2>3, <2>4, <2>5, <2>6, <2>7 DEF WorkerStep
<1>4. CASE EnterFails
  BY <1>4, EnterFailsKeeps
<1>5. CASE KernelCompletes
  BY <1>5, CompletesKeeps
<1>6. CASE UNCHANGED vars
  <2>1. UNCHANGED Others /\ UNCHANGED <<pc, stopping>>
    BY <1>6 DEF vars, Others, callers, ring, requests
  <2>2. CallerOnly /\ Gated' /\ ShutdownLast'
    BY <2>1 DEF CallerOnly, Others, IInv, TypeOK, Gated, ShutdownLast, StoppersIn, ReadersIn
  <2> QED
    BY <2>2, CallerMoves
<1> QED
  BY <1>1, <1>2, <1>3, <1>4, <1>5, <1>6 DEF Next

(***************************************************************************)
(* The engine keeps the inductive invariant.                               *)
(***************************************************************************)
THEOREM Inductive == Spec => []IInv
  BY InitIInv, NextIInv, PTL DEF Spec

-----------------------------------------------------------------------------
(***************************************************************************)
(* The command channel stays within its capacity, the submission queue     *)
(* within its slots, and every user_data the ring thread hands out exists. *)
(***************************************************************************)
THEOREM TypeCorrect == Spec => []TypeOK
<1>1. IInv => TypeOK
  BY DEF IInv
<1> QED
  BY <1>1, Inductive, PTL

(***************************************************************************)
(* The ring thread matches every completion to the request whose page the  *)
(* kernel wrote, whatever wraps around and whatever is requeued.           *)
(***************************************************************************)
THEOREM NoForeignPage == Spec => []CompletionMatches
<1>1. IInv => CompletionMatches
  BY DEF IInv, RingMatches, CompletionMatches, Elems
<1> QED
  BY <1>1, Inductive, PTL

(***************************************************************************)
(* No page is freed while the kernel may write into it.                    *)
(***************************************************************************)
THEOREM PagesOutliveKernel == Spec => []KernelPagesLive
<1>1. ASSUME IInv PROVE KernelPagesLive
  <2> SUFFICES ASSUME NEW e \in kernel \cup Elems(sq)
               PROVE  e.request \in Inflight \cup leaked
    BY DEF KernelPagesLive, Elems
  <2>1. e.user_data \in UserData /\ e.request \in Readers
    <3>1. kernel \subseteq Entry /\ Elems(sq) \subseteq Entry
      BY <1>1, ElemsIn DEF IInv, TypeOK
    <3> QED
      BY <3>1 DEF Entry
  <2>2. CASE ~fatal \/ worker = "fail"
    <3>1. inflight[e.user_data] = e.request
      BY <1>1, <2>2 DEF IInv, RingMatches
    <3> QED
      BY <2>1, <3>1, UringAssumption DEF Inflight
  <2>3. CASE fatal /\ worker # "fail"
    BY <1>1, <2>3, ElemsEmpty DEF IInv, WorkerOK, RingMatches
  <2> QED
    BY <2>2, <2>3
<1> QED
  BY <1>1, Inductive, PTL

(***************************************************************************)
(* The places of a sequence without repetitions at which r occurs: one or  *)
(* none.                                                                   *)
(***************************************************************************)
LEMMA OneOccurrence ==
    ASSUME NEW D, NEW f, NEW r, \A i, j \in D : f[i] = r /\ f[j] = r => i = j
    PROVE  Cardinality({i \in D : f[i] = r}) = IF \E i \in D : f[i] = r THEN 1 ELSE 0
<1> DEFINE At == {i \in D : f[i] = r}
<1>1. CASE \E i \in D : f[i] = r
  <2>1. PICK i \in D : f[i] = r
    BY <1>1
  <2>2. At = {i}
    BY <2>1
  <2> HIDE DEF At
  <2>3. Cardinality(At) = 1
    BY <2>2, FS_Singleton
  <2> QED
    BY <1>1, <2>3 DEF At
<1>2. CASE ~\E i \in D : f[i] = r
  <2>1. At = {}
    BY <1>2
  <2> HIDE DEF At
  <2>2. Cardinality(At) = 0
    BY <2>1, FS_EmptySet
  <2> QED
    BY <1>2, <2>2 DEF At
<1> QED
  BY <1>1, <1>2

(***************************************************************************)
(* An accepted read is in exactly one place until it is answered, and in   *)
(* none before and after: neither lost nor served twice.                   *)
(***************************************************************************)
THEOREM ReadsConserved == Spec => []RequestConserved
<1>1. ASSUME IInv PROVE RequestConserved
  <2> SUFFICES ASSUME NEW r \in Readers
               PROVE  Places(r) = IF pc[r] = "wait" /\ reply[r] = None THEN 1 ELSE 0
    BY DEF RequestConserved
  <2>1. Located /\ r # None
    BY <1>1, UringAssumption DEF IInv
  <2> DEFINE inC == \E i \in 1 .. Len(channel) : channel[i] = r
             inP == \E i \in 1 .. Len(pending) : pending[i] = r
             inF == \E u \in UserData : inflight[u] = r
  <2>2. Cardinality({i \in 1 .. Len(channel) : channel[i] = r}) = IF inC THEN 1 ELSE 0
    <3>1. \A i, j \in 1 .. Len(channel) : channel[i] = r /\ channel[j] = r => i = j
      BY <2>1 DEF Located
    <3> QED
      BY <3>1, OneOccurrence, Zenon
  <2>3. Cardinality({i \in 1 .. Len(pending) : pending[i] = r}) = IF inP THEN 1 ELSE 0
    <3>1. \A i, j \in 1 .. Len(pending) : pending[i] = r /\ pending[j] = r => i = j
      BY <2>1 DEF Located
    <3> QED
      BY <3>1, OneOccurrence, Zenon
  <2>4. Cardinality({u \in UserData : inflight[u] = r}) = IF inF THEN 1 ELSE 0
    <3>1. \A i, j \in UserData : inflight[i] = r /\ inflight[j] = r => i = j
      BY <2>1 DEF Located
    <3> QED
      BY <3>1, OneOccurrence, Zenon
  <2>5. (r \in Elems(channel) <=> inC) /\ (r \in Elems(pending) <=> inP) /\ (r \in Inflight <=> inF)
    BY <2>1 DEF Elems, Inflight
  <2> HIDE DEF inC, inP, inF
  <2>6. ~(inC /\ inP) /\ ~(inC /\ inF) /\ ~(inP /\ inF)
    BY <2>1, <2>5 DEF Located
  <2>7. (pc[r] = "wait" /\ reply[r] = None) <=> (inC \/ inP \/ inF)
    BY <2>1, <2>5 DEF Located, Unanswered
  <2>8. Places(r) = (IF inC THEN 1 ELSE 0) + (IF inP THEN 1 ELSE 0) + (IF inF THEN 1 ELSE 0)
    BY <2>2, <2>3, <2>4 DEF Places
  <2> QED
    BY <2>6, <2>7, <2>8
<1> QED
  BY <1>1, Inductive, PTL

(***************************************************************************)
(* shutdown drains: unless the ring failed, no accepted read is told that  *)
(* the engine has stopped.                                                 *)
(***************************************************************************)
THEOREM ShutdownDrains == Spec => []AcceptedReadsDrained
<1>1. IInv => AcceptedReadsDrained
  BY DEF IInv
<1> QED
  BY <1>1, Inductive, PTL
=============================================================================
