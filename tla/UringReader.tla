------------------------------ MODULE UringReader ------------------------------
(***************************************************************************)
(* The io_uring read engine of uring.rs: callers send read requests to one *)
(* ring thread over a bounded channel and wait for their own completion.   *)
(* The kernel writes into a request's page from the moment its entry is    *)
(* pushed until its completion is seen, so nobody may free the page in     *)
(* between.                                                                *)
(*                                                                         *)
(* A request is the reader that made it: each reader makes one read.  An   *)
(* entry of the rings carries the request whose page the kernel writes     *)
(* (what its pointer means) beside the user_data it is matched by.         *)
(***************************************************************************)
EXTENDS Integers, Sequences, FiniteSets

CONSTANTS Readers,       \* callers of read
          Stoppers,      \* callers of shutdown, UringReader's Drop among them
          Entries,       \* submission slots, and capacity of the channel
          UserDataMod,   \* user_data wraps here (2^64); 0 is never used
          Shutdown,      \* Command::Shutdown
          None

UserData == 1 .. (UserDataMod - 1)

ASSUME UringAssumption ==
    /\ IsFiniteSet(Readers) /\ IsFiniteSet(Stoppers)
    /\ Readers \cap Stoppers = {}
    /\ Entries \in Nat \ {0}
    /\ UserDataMod \in Nat \ {0, 1} /\ UserDataMod > Cardinality(Readers)
    /\ Shutdown \notin Readers /\ None \notin Readers
    /\ None \notin {"ok", "error", "stopped"}

VARIABLES
    channel,         \* commands sent and not yet received
    connected,       \* the ring thread still owns the receiver
    stopping,        \* the stopping flag
    pc,              \* where each caller is
    worker,          \* where the ring thread is
    shutting_down,   \* the ring thread has received Shutdown
    pending,         \* requests received and not yet pushed
    inflight,        \* inflight[u]: the request pushed as u, None if free
    next_user_data,  \* the next user_data to try
    sq,              \* entries pushed and not yet submitted
    kernel,          \* entries the kernel is working on
    cq,              \* completions not yet seen
    reply,           \* reply[r]: what r's completion channel holds
    leaked,          \* requests whose page was leaked on purpose
    fatal            \* the ring thread left its loop with an error

callers == <<pc, stopping>>
ring == <<sq, kernel, cq>>
requests == <<pending, inflight, next_user_data>>
vars == <<channel, connected, callers, worker, shutting_down, requests, ring,
          reply, leaked, fatal>>

Entry == [user_data : UserData, request : Readers]
CallerPlaces == {"idle", "gate", "check", "send", "wait", "done",
                 "gate_first", "gate_again", "stop_send", "stop_join", "skip_join",
                 "stopped", "stopped_again"}
WorkerPlaces == {"recv", "drain", "submit", "enter", "reap", "fail", "close", "exited"}
Completion == [user_data : UserData, request : Readers, result : {"ok", "error"}]

Init ==
    /\ channel = <<>> /\ connected = TRUE /\ stopping = FALSE
    /\ pc = [c \in Readers \cup Stoppers |-> "idle"]
    /\ worker = "recv" /\ shutting_down = FALSE
    /\ pending = <<>> /\ inflight = [u \in UserData |-> None]
    /\ next_user_data = 1
    /\ sq = <<>> /\ kernel = {} /\ cq = {}
    /\ reply = [r \in Readers |-> None]
    /\ leaked = {} /\ fatal = FALSE

Goto(c, from, to) == pc[c] = from /\ pc' = [pc EXCEPT ![c] = to]
Step(from, to) == worker = from /\ worker' = to
Answer(rs, result) == reply' = [r \in Readers |-> IF r \in rs THEN result ELSE reply[r]]

-----------------------------------------------------------------------------
(* NativeEngine::read                                                      *)

\* The submission gate: readers hold it up to their send, a stopper from its
\* acquisition to the end of shutdown.
ReadersIn == {r \in Readers : pc[r] \in {"check", "send"}}
StoppersIn == {s \in Stoppers : pc[s] \in {"stop_send", "stop_join", "skip_join"}}

CallRead(r) ==
    /\ Goto(r, "idle", "gate")
    /\ UNCHANGED <<channel, connected, stopping, worker, shutting_down, requests, ring, reply, leaked, fatal>>

OpenGate(r) ==
    /\ StoppersIn = {}
    /\ Goto(r, "gate", "check")
    /\ UNCHANGED <<channel, connected, stopping, worker, shutting_down, requests, ring, reply, leaked, fatal>>

\* engine_stopped when shutdown has begun.
CheckStopping(r) ==
    /\ Goto(r, "check", IF stopping THEN "done" ELSE "send")
    /\ UNCHANGED <<channel, connected, stopping, worker, shutting_down, requests, ring, reply, leaked, fatal>>

\* send waits for room, and fails once the ring thread is gone.
SendRead(r) ==
    /\ \/ /\ connected
          /\ Len(channel) < Entries
          /\ Goto(r, "send", "wait")
          /\ channel' = Append(channel, r)
       \/ /\ ~connected
          /\ Goto(r, "send", "done")
          /\ UNCHANGED channel
    /\ UNCHANGED <<connected, stopping, worker, shutting_down, requests, ring, reply, leaked, fatal>>

ReceiveReply(r) ==
    /\ reply[r] # None
    /\ Goto(r, "wait", "done")
    /\ Answer({r}, None)
    /\ UNCHANGED <<channel, connected, stopping, worker, shutting_down, requests, ring, leaked, fatal>>

-----------------------------------------------------------------------------
(* NativeEngine::shutdown                                                  *)

\* shutdown_lock admits one call at a time; only the first one to set
\* stopping sends the command.  A stopper calls shutdown once or twice.
StopBegins(s) ==
    /\ \A o \in Stoppers : pc[o] \in {"idle", "stopped", "stopped_again"}
    /\ \/ Goto(s, "idle", IF stopping THEN "gate_again" ELSE "gate_first")
       \/ Goto(s, "stopped", "gate_again")
    /\ stopping' = TRUE
    /\ UNCHANGED <<channel, connected, worker, shutting_down, requests, ring, reply, leaked, fatal>>

\* Mutant: shutdown does not wait for readers between check and send.
StopUngated(s) ==
    /\ \/ Goto(s, "gate_first", "stop_send")
       \/ Goto(s, "gate_again", "skip_join")
    /\ UNCHANGED <<channel, connected, stopping, worker, shutting_down, requests, ring, reply, leaked, fatal>>

StopGate(s) ==
    /\ ReadersIn = {}
    /\ \/ Goto(s, "gate_first", "stop_send")
       \/ Goto(s, "gate_again", "skip_join")
    /\ UNCHANGED <<channel, connected, stopping, worker, shutting_down, requests, ring, reply, leaked, fatal>>

StopSend(s) ==
    /\ Goto(s, "stop_send", "stop_join")
    /\ \/ connected /\ Len(channel) < Entries /\ channel' = Append(channel, Shutdown)
       \/ ~connected /\ UNCHANGED channel
    /\ UNCHANGED <<connected, stopping, worker, shutting_down, requests, ring, reply, leaked, fatal>>

\* The first call takes the handle and joins; a later one finds it taken.
StopJoin(s) ==
    /\ \/ worker = "exited" /\ Goto(s, "stop_join", "stopped")
       \/ Goto(s, "skip_join", "stopped_again")
    /\ UNCHANGED <<channel, connected, stopping, worker, shutting_down, requests, ring, reply, leaked, fatal>>

-----------------------------------------------------------------------------
(* run_completion_thread                                                   *)

NothingInflight == \A u \in UserData : inflight[u] = None

\* Mutant: the thread blocks for a command while reads are in flight.
MustBlockAlways == ~shutting_down

MustBlock == pending = <<>> /\ NothingInflight /\ ~shutting_down

\* A received command: Shutdown, a read, or a read that came too late.
Receive ==
    /\ channel # <<>>
    /\ channel' = Tail(channel)
    /\ \/ /\ Head(channel) = Shutdown
          /\ shutting_down' = TRUE
          /\ UNCHANGED <<pending, reply>>
       \/ /\ Head(channel) # Shutdown
          /\ IF shutting_down
             THEN Answer({Head(channel)}, "stopped") /\ UNCHANGED pending
             ELSE pending' = Append(pending, Head(channel)) /\ UNCHANGED reply
          /\ UNCHANGED shutting_down
    /\ UNCHANGED <<connected, callers, inflight, next_user_data, ring, leaked, fatal>>

RecvBlocking == MustBlock /\ Step("recv", "drain") /\ Receive

SkipRecv ==
    /\ ~MustBlock
    /\ Step("recv", "drain")
    /\ UNCHANGED <<channel, connected, callers, shutting_down, requests, ring, reply, leaked, fatal>>

DrainOne == Step("drain", "drain") /\ Receive

DrainEmpty ==
    /\ channel = <<>>
    /\ Step("drain", "submit")
    /\ UNCHANGED <<channel, connected, callers, shutting_down, requests, ring, reply, leaked, fatal>>

\* The k-th user_data to try, counting from next_user_data around 0.
Candidate(k) == ((next_user_data - 1 + k) % (UserDataMod - 1)) + 1

\* Mutant: a user_data in flight is handed out again.
AllocateBlindly == Candidate(0)

\* allocate_user_data: the first candidate that is not in flight.
allocate_user_data ==
    LET k == CHOOSE i \in 0 .. (UserDataMod - 2) :
                /\ inflight[Candidate(i)] = None
                /\ \A j \in 0 .. (i - 1) : inflight[Candidate(j)] # None
    IN Candidate(k)

\* submit_pending: one request becomes an entry of the submission queue.
PushRead ==
    /\ Step("submit", "submit")
    /\ pending # <<>>
    /\ Len(sq) < Entries
    /\ LET u == allocate_user_data IN
          /\ inflight' = [inflight EXCEPT ![u] = Head(pending)]
          /\ sq' = Append(sq, [user_data |-> u, request |-> Head(pending)])
          /\ next_user_data' = (u % (UserDataMod - 1)) + 1
    /\ pending' = Tail(pending)
    /\ UNCHANGED <<channel, connected, callers, shutting_down, kernel, cq, reply, leaked, fatal>>

AfterSubmit == IF NothingInflight
               THEN IF shutting_down /\ pending = <<>> THEN "close" ELSE "recv"
               ELSE "enter"

\* Mutant: a request that found the submission queue full is forgotten.
SqFullForgets ==
    /\ pending # <<>>
    /\ Len(sq) = Entries
    /\ Step("submit", AfterSubmit)
    /\ pending' = Tail(pending)
    /\ UNCHANGED <<channel, connected, callers, shutting_down, inflight, next_user_data, ring, reply, leaked, fatal>>

\* The queue is full: the request goes back to the front, its user_data is
\* skipped.
SqFull ==
    /\ pending # <<>>
    /\ Len(sq) = Entries
    /\ Step("submit", AfterSubmit)
    /\ next_user_data' = (allocate_user_data % (UserDataMod - 1)) + 1
    /\ UNCHANGED <<channel, connected, callers, shutting_down, pending, inflight, ring, reply, leaked, fatal>>

AllPushed ==
    /\ pending = <<>>
    /\ Step("submit", AfterSubmit)
    /\ UNCHANGED <<channel, connected, callers, shutting_down, requests, ring, reply, leaked, fatal>>

\* submit_and_wait(1) hands the entries to the kernel, ...
Enter ==
    /\ Step("enter", "reap")
    /\ kernel' = kernel \cup {sq[i] : i \in 1 .. Len(sq)}
    /\ sq' = <<>>
    /\ UNCHANGED <<channel, connected, callers, shutting_down, requests, cq, reply, leaked, fatal>>

\* ... and fails before or after that, or reports no completion.  Dropping
\* the ring forgets what was not submitted.
EnterFails ==
    /\ worker \in {"enter", "reap"}
    /\ worker' = "fail"
    /\ fatal' = TRUE
    /\ sq' = <<>>
    /\ UNCHANGED <<channel, connected, callers, shutting_down, requests, kernel, cq, reply, leaked>>

\* The kernel finishes an entry: a whole page, or an error or a short read.
KernelCompletes ==
    /\ \E e \in kernel, result \in {"ok", "error"} :
          /\ kernel' = kernel \ {e}
          /\ cq' = cq \cup {[user_data |-> e.user_data, request |-> e.request,
                             result |-> result]}
    /\ UNCHANGED <<channel, connected, callers, worker, shutting_down, requests, sq, reply, leaked, fatal>>

\* Every completion seen answers the request in flight under its user_data.
Reap ==
    /\ cq # {}
    /\ Step("reap", "recv")
    /\ reply' = [r \in Readers |->
                   IF \E e \in cq : inflight[e.user_data] = r
                   THEN (CHOOSE e \in cq : inflight[e.user_data] = r).result
                   ELSE reply[r]]
    /\ inflight' = [u \in UserData |->
                      IF \E e \in cq : e.user_data = u THEN None ELSE inflight[u]]
    /\ cq' = {}
    /\ UNCHANGED <<channel, connected, callers, shutting_down, pending, next_user_data, sq, kernel, leaked, fatal>>

Inflight == {inflight[u] : u \in UserData} \ {None}

\* Mutant: pages in flight are freed like any other.
FailAllFrees ==
    /\ Step("fail", "close")
    /\ Answer(Inflight \cup {pending[i] : i \in 1 .. Len(pending)}, "error")
    /\ pending' = <<>>
    /\ inflight' = [u \in UserData |-> None]
    /\ UNCHANGED <<channel, connected, callers, shutting_down, next_user_data, ring, leaked, fatal>>

\* fail_all: everyone is told, and the pages the kernel may still write to
\* are leaked.
FailAll ==
    /\ Step("fail", "close")
    /\ Answer(Inflight \cup {pending[i] : i \in 1 .. Len(pending)}, "error")
    /\ leaked' = Inflight
    /\ pending' = <<>>
    /\ inflight' = [u \in UserData |-> None]
    /\ UNCHANGED <<channel, connected, callers, shutting_down, next_user_data, ring, fatal>>

\* The thread ends: dropping the receiver drops the requests still queued,
\* and their callers see the completion channel closed.
Close ==
    /\ Step("close", "exited")
    /\ connected' = FALSE
    /\ Answer({channel[i] : i \in 1 .. Len(channel)} \cap Readers, "stopped")
    /\ channel' = <<>>
    /\ UNCHANGED <<callers, shutting_down, requests, ring, leaked, fatal>>

-----------------------------------------------------------------------------
ReaderStep(r) == OpenGate(r) \/ CheckStopping(r) \/ SendRead(r) \/ ReceiveReply(r)
StopperStep(s) == StopGate(s) \/ StopSend(s) \/ StopJoin(s)
WorkerStep ==
    \/ RecvBlocking \/ SkipRecv \/ DrainOne \/ DrainEmpty \/ PushRead \/ SqFull
    \/ AllPushed \/ Enter \/ Reap \/ FailAll \/ Close

Next ==
    \/ \E r \in Readers : CallRead(r) \/ ReaderStep(r)
    \/ \E s \in Stoppers : StopBegins(s) \/ StopperStep(s)
    \/ WorkerStep \/ EnterFails \/ KernelCompletes

\* Threads inside a call keep running, and the kernel finishes every read it
\* was given.  Nobody has to call read or shutdown.
Fairness ==
    /\ \A r \in Readers : WF_vars(ReaderStep(r))
    /\ \A s \in Stoppers : WF_vars(StopperStep(s))
    /\ WF_vars(WorkerStep) /\ WF_vars(KernelCompletes)

Spec == Init /\ [][Next]_vars
FairSpec == Spec /\ Fairness

-----------------------------------------------------------------------------
(***************************************************************************)
(* Type correctness: the command channel stays within its capacity and the *)
(* submission queue within its slots.                                      *)
(***************************************************************************)
TypeOK ==
    /\ channel \in Seq(Readers \cup {Shutdown}) /\ Len(channel) <= Entries
    /\ connected \in BOOLEAN /\ stopping \in BOOLEAN
    /\ pc \in [Readers \cup Stoppers -> CallerPlaces] /\ worker \in WorkerPlaces
    /\ shutting_down \in BOOLEAN
    /\ pending \in Seq(Readers)
    /\ inflight \in [UserData -> Readers \cup {None}]
    /\ next_user_data \in UserData
    /\ sq \in Seq(Entry) /\ Len(sq) <= Entries
    /\ kernel \subseteq Entry /\ cq \subseteq Completion
    /\ reply \in [Readers -> {None, "ok", "error", "stopped"}]
    /\ leaked \subseteq Readers /\ fatal \in BOOLEAN

(***************************************************************************)
(* A completion is matched to the request whose page the kernel wrote, and *)
(* to no other, whatever user_data wraps and requeues do: no caller gets   *)
(* another caller's page, and no completion is unknown to the ring thread. *)
(***************************************************************************)
CompletionMatches ==
    ~fatal =>
        \A e \in cq \cup kernel \cup {sq[i] : i \in 1 .. Len(sq)} :
            inflight[e.user_data] = e.request

(***************************************************************************)
(* While the kernel may write into a request's page, the page is owned by  *)
(* the in-flight table or was leaked: it is neither freed nor handed out.  *)
(***************************************************************************)
KernelPagesLive ==
    \A e \in kernel \cup {sq[i] : i \in 1 .. Len(sq)} :
        e.request \in Inflight \cup leaked

(***************************************************************************)
(* A read that was accepted is in exactly one place until it is answered:  *)
(* the channel, the ring thread's backlog or the in-flight table.          *)
(***************************************************************************)
Places(r) ==
    Cardinality({i \in 1 .. Len(channel) : channel[i] = r})
        + Cardinality({i \in 1 .. Len(pending) : pending[i] = r})
        + Cardinality({u \in UserData : inflight[u] = r})

RequestConserved ==
    \A r \in Readers :
        Places(r) = IF pc[r] = "wait" /\ reply[r] = None THEN 1 ELSE 0

(***************************************************************************)
(* Shutdown drains accepted reads: unless the ring itself failed, no read  *)
(* that was accepted is answered with "stopped".                           *)
(***************************************************************************)
AcceptedReadsDrained ==
    ~fatal => \A r \in Readers : reply[r] # "stopped"

(***************************************************************************)
(* Every call returns: a read, whatever shutdown and ring failures come in *)
(* between, and a shutdown, also the second one and one that finds the     *)
(* ring thread dead.                                                       *)
(***************************************************************************)
CallsReturn ==
    /\ \A r \in Readers : pc[r] = "gate" ~> pc[r] = "done"
    /\ \A s \in Stoppers :
          /\ pc[s] = "gate_first" ~> pc[s] = "stopped"
          /\ pc[s] = "gate_again" ~> pc[s] = "stopped_again"
=============================================================================
