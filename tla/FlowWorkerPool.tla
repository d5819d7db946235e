--------------------------- MODULE FlowWorkerPool ---------------------------
(***************************************************************************)
(* FlowWorkerPool (backend/app/services/flow_worker_pool.py): bounded FIFO *)
(* lanes, one worker thread each; submit() sends every packet of one       *)
(* conversation, in either direction, to the same lane.  submit() reads    *)
(* _accepting under the lock and enqueues after releasing it, and close()  *)
(* runs in another thread, so the two interleave.                          *)
(*                                                                         *)
(* A packet is its two endpoints; a job is the n-th packet a thread        *)
(* submits.  Latencies, the count of incomplete flow keys and the texts of *)
(* the last error and drop reason are left out: no code path reads them.   *)
(***************************************************************************)
EXTENDS Naturals, Sequences, FiniteSets, Functions

CONSTANTS Submitters,   \* threads that call submit()
          Packets,      \* the packets: records [src, dst]
          WorkerCount,  \* NETBOT_FLOW_WORKER_COUNT
          QueueMax,     \* NETBOT_FLOW_WORKER_QUEUE_MAX
          Hash(_),      \* sha256 of a flow key modulo WorkerCount
          Policies,     \* the overflow policies to consider
          Modes,        \* values of NETBOT_FLOW_WORKERS_ENABLED to consider
          Jobs,         \* bound: packets one thread submits
          Traffics      \* bound: what each thread submits, in order; one is chosen

ASSUME SubmittersAssumption == IsFiniteSet(Submitters)
ASSUME CapacityAssumption == /\ WorkerCount \in Nat \ {0}
                             /\ QueueMax \in Nat /\ QueueMax >= WorkerCount
ASSUME PoliciesAssumption ==
    Policies \subseteq {"drop_oldest", "drop_newest", "reject_new", "block_short"}
ASSUME TrafficsAssumption ==
    /\ Jobs \in Nat /\ Traffics \subseteq [Submitters -> Seq(Packets)]
    /\ \A t \in Traffics, s \in Submitters : Len(t[s]) <= Jobs
ASSUME ModesAssumption == Modes \subseteq BOOLEAN

Lanes == 0 .. WorkerCount - 1
Job == [by : Submitters, n : 1 .. Jobs, packet : Packets]
NoJob == << >>

\* FlowDispatchKey.from_packet sorts the two endpoints, so both directions of a
\* conversation have one key.  An endpoint is an address, with its port under TCP and
\* UDP.  Packets without an address or a protocol, whose keys are not sorted, are left
\* out.
SourceKey(k) == {k.src}
DispatchKey(k) == {k.src, k.dst}
LaneOf(k) == Hash(DispatchKey(k))
ASSUME HashAssumption == \A k \in Packets : LaneOf(k) \in Lanes

\* _create_workers: the remainder of the division goes to the first lanes.
Capacity(w) == (QueueMax \div WorkerCount) + (IF w < QueueMax % WorkerCount THEN 1 ELSE 0)

VARIABLES
    traffic,    \* the packets each thread submits
    policy,     \* overflow_policy
    enabled,    \* enabled: with workers, or processing inline
    accepting,  \* _accepting
    stop,       \* _stop
    received, processed, failed, dropped, rejected,     \* the _jobs_ counters
    queue,      \* per lane: the jobs waiting, oldest first
    unfinished, \* per lane: queue.unfinished_tasks
    worker,     \* per lane: where its thread is in _worker_loop
    held,       \* per lane: the job its thread took and has not finished
    pc,         \* per submitter: where it is inside submit()
    sent,       \* per submitter: how many packets it has submitted
    closer,     \* where close() is
    scanned,    \* the lanes the current poll of wait_until_drained found idle
    drained,    \* what wait_until_drained answered to close()
    taken,      \* history, per lane: the jobs its thread took, in order
    lost,       \* history, per lane: the jobs evicted from or refused by it
    early       \* history: the jobs put into a lane before close() began

counters == <<received, processed, failed, dropped, rejected>>
lanes == <<queue, unfinished, worker, held, taken, lost>>
submitters == <<pc, sent>>
closing == <<accepting, stop, closer, scanned, drained, early>>
vars == <<traffic, policy, enabled, counters, lanes, submitters, closing>>

SubmitSteps == {"idle", "enqueue", "inline", "full", "evicted", "dropOldest", "retry",
                "drop", "reject"}
WorkerSteps == {"off", "check", "get", "busy", "done", "finish", "exited"}

\* Types, with every lane within its capacity.
TypeOK ==
    /\ traffic \in Traffics /\ policy \in Policies /\ enabled \in Modes
    /\ accepting \in BOOLEAN /\ stop \in BOOLEAN
    /\ {received, processed, failed, dropped, rejected} \subseteq Nat
    /\ queue \in [Lanes -> Seq(Job)]
    /\ \A w \in Lanes : Len(queue[w]) <= Capacity(w)
    /\ unfinished \in [Lanes -> Nat]
    /\ worker \in [Lanes -> WorkerSteps]
    /\ held \in [Lanes -> Job \cup {NoJob}]
    /\ pc \in [Submitters -> SubmitSteps]
    /\ sent \in [Submitters -> Nat]
    /\ \A s \in Submitters : sent[s] <= Len(traffic[s])
    /\ closer \in {"open", "draining", "drained", "stopping"}
    /\ scanned \subseteq Lanes
    /\ drained \in {"unknown", "yes", "no"}
    /\ taken \in [Lanes -> Seq(Job)]
    /\ lost \in [Lanes -> SUBSET Job]
    /\ early \subseteq Job

Init ==
    /\ traffic \in Traffics /\ policy \in Policies /\ enabled \in Modes
    /\ accepting = TRUE /\ stop = FALSE
    /\ received = 0 /\ processed = 0 /\ failed = 0 /\ dropped = 0 /\ rejected = 0
    /\ queue = [w \in Lanes |-> << >>] /\ unfinished = [w \in Lanes |-> 0]
    /\ worker = [w \in Lanes |-> IF enabled THEN "check" ELSE "off"]
    /\ held = [w \in Lanes |-> NoJob]
    /\ pc = [s \in Submitters |-> "idle"]
    /\ sent = [s \in Submitters |-> 0]
    /\ closer = "open" /\ scanned = {} /\ drained = "unknown"
    /\ taken = [w \in Lanes |-> << >>] /\ lost = [w \in Lanes |-> {}]
    /\ early = {}

-----------------------------------------------------------------------------
(* submit() *)

Goto(s, step) == pc' = [pc EXCEPT ![s] = step]

\* The job thread s is submitting.
Mine(s) == [by |-> s, n |-> sent[s], packet |-> traffic[s][sent[s]]]
MyLane(s) == LaneOf(Mine(s).packet)
Full(w) == Len(queue[w]) >= Capacity(w)

\* The first locked section: count the job and read _accepting.
Submit(s) ==
    /\ pc[s] = "idle" /\ sent[s] < Len(traffic[s])
    /\ received' = received + 1
    /\ sent' = [sent EXCEPT ![s] = @ + 1]
    /\ Goto(s, IF ~accepting THEN "reject" ELSE IF enabled THEN "enqueue" ELSE "inline")
    /\ UNCHANGED <<traffic, policy, enabled, processed, failed, dropped, rejected, lanes, closing>>

\* _process_inline, in the submitting thread, when the pool has no workers.
ProcessInline(s) ==
    /\ pc[s] = "inline"
    /\ \/ processed' = processed + 1 /\ UNCHANGED failed
       \/ failed' = failed + 1 /\ UNCHANGED processed
    /\ Goto(s, "idle")
    /\ UNCHANGED <<traffic, policy, enabled, received, dropped, rejected, lanes, sent, closing>>

PutAtHead(w, j) == queue' = [queue EXCEPT ![w] = <<j>> \o @]
PutAtTail(w, j) == queue' = [queue EXCEPT ![w] = Append(@, j)]
PutJob(s) ==
    LET w == MyLane(s)
    IN  /\ ~Full(w)
        /\ PutAtTail(w, Mine(s))
        /\ unfinished' = [unfinished EXCEPT ![w] = @ + 1]
        /\ early' = IF closer = "open" THEN early \cup {Mine(s)} ELSE early
        /\ Goto(s, "idle")

\* Where each overflow policy leads when the lane is full.
WhenFull == [p \in {"drop_oldest", "drop_newest", "reject_new", "block_short"} |->
                CASE p = "drop_oldest" -> "full"
                  [] p = "drop_newest" -> "drop"
                  [] OTHER -> "reject"]

GiveUpMine(s) == lost' = [lost EXCEPT ![MyLane(s)] = @ \cup {Mine(s)}]

\* _enqueue: put_nowait, or put(timeout=) under block_short, which waits for a
\* slot and may time out while the lane is full.
Enqueue(s) ==
    /\ pc[s] = "enqueue"
    /\ \/ PutJob(s) /\ UNCHANGED lost
       \/ /\ Full(MyLane(s))
          /\ Goto(s, WhenFull[policy])
          /\ IF policy = "drop_oldest" THEN UNCHANGED lost ELSE GiveUpMine(s)
          /\ UNCHANGED <<queue, unfinished, early>>
    /\ UNCHANGED <<traffic, policy, enabled, counters, worker, held, taken, sent,
                   accepting, stop, closer, scanned, drained>>

\* drop_oldest: get_nowait; queue.Empty is passed over.
EvictOldest(s) ==
    /\ pc[s] = "full"
    /\ LET w == MyLane(s)
       IN  \/ /\ queue[w] # << >>
              /\ queue' = [queue EXCEPT ![w] = Tail(@)]
              /\ lost' = [lost EXCEPT ![w] = @ \cup {Head(queue[w])}]
              /\ Goto(s, "evicted")
           \/ /\ queue[w] = << >>
              /\ Goto(s, "retry")
              /\ UNCHANGED <<queue, lost>>
    /\ UNCHANGED <<traffic, policy, enabled, counters, unfinished, worker, held, taken,
                   sent, closing>>

EvictedDone(s) ==
    /\ pc[s] = "evicted"
    /\ unfinished' = [unfinished EXCEPT ![MyLane(s)] = @ - 1]
    /\ Goto(s, "dropOldest")
    /\ UNCHANGED <<traffic, policy, enabled, counters, queue, worker, held, taken, lost,
                   sent, closing>>

\* _record_drop for the evicted job, then on to the second put_nowait.
DropOldest(s) ==
    /\ pc[s] = "dropOldest"
    /\ dropped' = dropped + 1
    /\ Goto(s, "retry")
    /\ UNCHANGED <<traffic, policy, enabled, received, processed, failed, rejected, lanes,
                   sent, closing>>

AfterRetrySilent == "idle"
AfterRetry == "drop"
PutAgain(s) ==
    /\ pc[s] = "retry"
    /\ \/ PutJob(s) /\ UNCHANGED lost
       \/ /\ Full(MyLane(s))
          /\ GiveUpMine(s)
          /\ Goto(s, AfterRetry)
          /\ UNCHANGED <<queue, unfinished, early>>
    /\ UNCHANGED <<traffic, policy, enabled, counters, worker, held, taken, sent,
                   accepting, stop, closer, scanned, drained>>

\* _record_drop for the job just submitted; submit() returns False.
DropMine(s) ==
    /\ pc[s] = "drop"
    /\ dropped' = dropped + 1
    /\ Goto(s, "idle")
    /\ UNCHANGED <<traffic, policy, enabled, received, processed, failed, rejected, lanes,
                   sent, closing>>

\* _record_rejection: closed pool, reject_new, or block_short timed out.
RejectMine(s) ==
    /\ pc[s] = "reject"
    /\ rejected' = rejected + 1
    /\ Goto(s, "idle")
    /\ UNCHANGED <<traffic, policy, enabled, received, processed, failed, dropped, lanes,
                   sent, closing>>

SubmitStep(s) == \/ ProcessInline(s) \/ Enqueue(s) \/ EvictOldest(s) \/ EvictedDone(s)
                 \/ DropOldest(s) \/ PutAgain(s) \/ DropMine(s) \/ RejectMine(s)

-----------------------------------------------------------------------------
(* _worker_loop of one lane. *)

WorkerGoto(w, step) == worker' = [worker EXCEPT ![w] = step]

GoOn(w) == ~stop \/ queue[w] # << >>
WorkerCheck(w) ==
    /\ worker[w] = "check"
    /\ WorkerGoto(w, IF GoOn(w) THEN "get" ELSE "exited")
    /\ UNCHANGED <<traffic, policy, enabled, counters, queue, unfinished, held, taken, lost,
                   submitters, closing>>

\* get(timeout=0.1)
WorkerGet(w) ==
    /\ worker[w] = "get"
    /\ \/ /\ queue[w] # << >>
          /\ held' = [held EXCEPT ![w] = Head(queue[w])]
          /\ taken' = [taken EXCEPT ![w] = Append(@, Head(queue[w]))]
          /\ queue' = [queue EXCEPT ![w] = Tail(@)]
          /\ WorkerGoto(w, "busy")
       \/ /\ queue[w] = << >>
          /\ WorkerGoto(w, "check")
          /\ UNCHANGED <<queue, held, taken>>
    /\ UNCHANGED <<traffic, policy, enabled, counters, unfinished, lost, submitters, closing>>

\* _processor(job.packet) returns, or raises and is counted as failed at once;
\* the exception goes no further.
AfterFailureDies == "exited"
AfterFailure == "finish"
WorkerProcess(w) ==
    /\ worker[w] = "busy"
    /\ \/ WorkerGoto(w, "done") /\ UNCHANGED failed
       \/ WorkerGoto(w, AfterFailure) /\ failed' = failed + 1
    /\ UNCHANGED <<traffic, policy, enabled, received, processed, dropped, rejected,
                   queue, unfinished, held, taken, lost, submitters, closing>>

\* _record_completion counts only a job that did not fail.
WorkerComplete(w) ==
    /\ worker[w] = "done"
    /\ processed' = processed + 1
    /\ WorkerGoto(w, "finish")
    /\ UNCHANGED <<traffic, policy, enabled, received, failed, dropped, rejected,
                   queue, unfinished, held, taken, lost, submitters, closing>>

WorkerFinish(w) ==
    /\ worker[w] = "finish"
    /\ unfinished' = [unfinished EXCEPT ![w] = @ - 1]
    /\ held' = [held EXCEPT ![w] = NoJob]
    /\ WorkerGoto(w, "check")
    /\ UNCHANGED <<traffic, policy, enabled, counters, queue, taken, lost, submitters, closing>>

WorkerStep(w) == \/ WorkerCheck(w) \/ WorkerGet(w) \/ WorkerProcess(w)
                 \/ WorkerComplete(w) \/ WorkerFinish(w)

-----------------------------------------------------------------------------
(* close() *)

CloseBegin ==
    /\ closer = "open"
    /\ accepting' = FALSE /\ closer' = "draining"
    /\ UNCHANGED <<traffic, policy, enabled, counters, lanes, submitters, stop, scanned, drained, early>>

\* wait_until_drained asks one lane after the other; a busy lane ends the poll,
\* and the next one starts over, until the time is up.
NextLane == Cardinality(scanned)
IdleByDepth(w) == queue[w] = << >>
Idle(w) == unfinished[w] = 0
DrainPoll ==
    /\ closer = "draining"
    /\ \/ /\ NextLane \in Lanes /\ Idle(NextLane)
          /\ scanned' = scanned \cup {NextLane}
          /\ UNCHANGED <<closer, drained>>
       \/ /\ NextLane \in Lanes /\ ~Idle(NextLane)
          /\ scanned' = {}
          /\ \/ closer' = "drained" /\ drained' = "no"
             \/ UNCHANGED <<closer, drained>>
       \/ /\ NextLane \notin Lanes
          /\ closer' = "drained" /\ drained' = "yes"
          /\ UNCHANGED scanned
    /\ UNCHANGED <<traffic, policy, enabled, counters, lanes, submitters, accepting, stop, early>>

\* _stop.set(), after which close() joins the threads for as long as it may.
CloseStop ==
    /\ closer = "drained"
    /\ stop' = TRUE /\ closer' = "stopping"
    /\ UNCHANGED <<traffic, policy, enabled, counters, lanes, submitters, accepting, scanned,
                   drained, early>>

CloseStep == CloseBegin \/ DrainPoll \/ CloseStop

Next == \/ \E s \in Submitters : Submit(s) \/ SubmitStep(s)
        \/ \E w \in Lanes : WorkerStep(w)
        \/ CloseStep

\* Every thread is scheduled; nobody is obliged to submit a packet or to close.
Fairness == /\ \A s \in Submitters : WF_vars(SubmitStep(s))
            /\ \A w \in Lanes : WF_vars(WorkerStep(w))

Spec == Init /\ [][Next]_vars
FairSpec == Spec /\ Fairness

-----------------------------------------------------------------------------
(* Properties. *)

InStep(steps) == {s \in Submitters : pc[s] \in steps}
Waiting(w) == Range(queue[w])
Working(w) == IF worker[w] \in {"busy", "done", "finish"} THEN {held[w]} ELSE {}
Pending == UNION {Waiting(w) \cup Working(w) : w \in Lanes}
Done == UNION {Range(taken[w]) \ Working(w) : w \in Lanes}

\* The places of the lanes that hold a job.
Places == UNION {{w} \X DOMAIN queue[w] : w \in Lanes}

\* Every job the pool received is in exactly one place: counted as processed,
\* failed, dropped or rejected, waiting in a lane, or in the hands of one thread
\* (a submitter that evicted a job and has not counted it has two).
JobsConserved ==
    received = processed + failed + dropped + rejected
                 + Cardinality(Places)
                 + Cardinality({w \in Lanes : worker[w] \in {"busy", "done"}})
                 + Cardinality(InStep(SubmitSteps \ {"idle"}))
                 + Cardinality(InStep({"evicted", "dropOldest"}))

\* Packets of one conversation are processed in the order in which they were
\* submitted, whichever direction they travel: a later one is never done, nor
\* being processed, while an earlier one still waits or is being processed.
FlowOrder ==
    \A w, v \in Lanes : \A b \in Range(taken[w]), a \in Waiting(v) \cup Working(v) :
        (a.by = b.by /\ {a.packet.src, a.packet.dst} = {b.packet.src, b.packet.dst})
            => b.n <= a.n

\* A lane whose thread has left holds only jobs that were enqueued after close()
\* began: the thread never leaves one behind that was there before.
NoneLeftBehind ==
    \A w \in Lanes : worker[w] = "exited" => Waiting(w) \cap early = {}

\* The pool's books balance, and they close: no job is uncounted, and none that was enqueued
\* before close() began is left in a lane that nobody serves.
JobsAccounted == TypeOK /\ JobsConserved /\ NoneLeftBehind

\* When close() answers True, every job put into a lane before it began has been
\* processed or was dropped, although the lanes are asked one after the other.
DrainTrustworthy == drained = "yes" => early \cap Pending = {}

\* Each lane implements the lossy FIFO.
LossyLane(w) == INSTANCE LossyFifo WITH
    Item <- Job, channel <- queue[w], taken <- taken[w], lost <- lost[w]
ImplementsLossyFifo ==
    /\ \A w \in Lanes : LossyLane(w)!Init
    /\ [][\A w \in Lanes : LossyLane(w)!Next \/ UNCHANGED LossyLane(w)!vars]_lanes

\* A job put into a lane before close() began is eventually taken or dropped,
\* and what is taken is eventually done.
EarlyIsEventuallyDone == \A s \in Submitters, i \in 1 .. Jobs :
    (\E j \in early : j.by = s /\ j.n = i)
        ~> (\E j \in Done \cup UNION {lost[w] : w \in Lanes} : j.by = s /\ j.n = i)
=============================================================================
