-------------------------- MODULE BatchPersistence --------------------------
(***************************************************************************)
(* BatchPersistenceWriter (backend/app/services/batch_persistence.py), the *)
(* write-behind queue of SnifferPersistence: the flow workers enqueue a    *)
(* packet with its alerts as one unit and each flow snapshot as another,   *)
(* one thread collects them per kind and writes a batch when it is old,    *)
(* large, urgent, or a flush asks for it.  The storage call commits the    *)
(* packets and alerts in one transaction and the flow snapshots in a       *)
(* second, and either may fail.  An SQLite error in the first rolls it     *)
(* back; any other exception leaves what was inserted in the open          *)
(* transaction of the shared connection, for the next commit or rollback.  *)
(*                                                                         *)
(* An event is the record of one kind that a thread's n-th unit carries;   *)
(* that of its alerts stands for all of them.  Ages are left out: any      *)
(* buffered kind may be due.  So are redaction, latencies, the high-water  *)
(* mark, retry totals, and the runs with persisting disabled.              *)
(***************************************************************************)
EXTENDS Naturals, Sequences, FiniteSets, Functions

CONSTANTS Producers,    \* the threads that enqueue
          Scripts,      \* bound: what each thread enqueues, in order; one is chosen
          Units,        \* bound: units one thread enqueues
          Policies,     \* the overflow policies to consider
          Modes,        \* values of NETBOT_PERSISTENCE_BATCH_ENABLED to consider
          QueueMax,     \* NETBOT_PERSISTENCE_QUEUE_MAX
          RetryMax,     \* NETBOT_PERSISTENCE_RETRY_MAX
          BatchSize     \* per kind: the size that makes a batch due

History == {"packet_record", "alert_record"}    \* insert_batch stores these
Kinds == History \cup {"flow_record"}           \* and the flow writer these

\* SnifferPersistence enqueues a packet with its alerts, or one flow snapshot; a unit
\* with a high or critical alert is urgent.
Unit == [kinds : (SUBSET History) \cup {{"flow_record"}}, urgent : BOOLEAN]

ASSUME ProducersAssumption == IsFiniteSet(Producers)
ASSUME ScriptsAssumption ==
    /\ Units \in Nat /\ Scripts \subseteq [Producers -> Seq(Unit)]
    /\ \A t \in Scripts, p \in Producers : Len(t[p]) <= Units
ASSUME PoliciesAssumption == Policies \subseteq {"drop_oldest", "drop_newest", "reject_new"}
ASSUME LimitsAssumption == /\ QueueMax \in Nat \ {0} /\ RetryMax \in Nat
                           /\ BatchSize \in [Kinds -> Nat \ {0}]
ASSUME ModesAssumption == Modes \subseteq BOOLEAN

Event == [by : Producers, n : 1 .. Units, kind : Kinds]
Item == [events : SUBSET Event, urgent : BOOLEAN, flush : BOOLEAN]
FlushCommand == [events |-> {}, urgent |-> FALSE, flush |-> TRUE]
NoBatch == [k \in Kinds |-> << >>]
NoRows == [e \in Event |-> 0]

VARIABLES
    script,     \* what each thread enqueues
    policy,     \* _overflow_policy
    enabled,    \* _enabled
    received, written, failed, dropped,     \* the _events_ counters
    queue,      \* _queue: units and flush commands, oldest first
    buffers,    \* _buffers: per kind, the events collected
    batch,      \* per kind, the rows handed to the storage call
    left,       \* retries left for the batch
    worker,     \* where the writer thread is
    serving,    \* whether the item it took is a flush command
    pc,         \* per producer: where it is inside enqueue
    sent,       \* per producer: how many units it has enqueued
    stop,       \* _stop
    closer,     \* where close() is
    completed,  \* the completed event of close()'s flush command
    flushed,    \* what that flush answered
    rows,       \* per event: its rows in the history tables, 2 for more than one
    uncommitted,\* per event: its rows in the open transaction, 2 for more than one
    snapshot,   \* per producer: the newest of its flow snapshots in the flow table
    lost,       \* history: events evicted or refused
    early,      \* history: events put on the queue before close() began
    halfWritten \* history: events of which an attempt that failed stored something

counters == <<received, written, failed, dropped>>
producing == <<pc, sent>>
store == <<rows, uncommitted, snapshot, halfWritten>>
closing == <<stop, closer, flushed>>
writer == <<buffers, batch, left, worker, serving>>
fixed == <<script, policy, enabled>>
vars == <<fixed, counters, queue, writer, producing, closing, completed, store, lost, early>>

\* The unit p is enqueueing, its events and their number.
MyUnit(p) == script[p][sent[p]]
EventsOf(p, n) == {[by |-> p, n |-> n, kind |-> k] : k \in script[p][n].kinds}
MyEvents(p) == EventsOf(p, sent[p])
MyItem(p) == [events |-> MyEvents(p), urgent |-> MyUnit(p).urgent, flush |-> FALSE]
Rows(b) == UNION {Range(b[k]) : k \in Kinds}
Size(b) == Len(b["packet_record"]) + Len(b["alert_record"]) + Len(b["flow_record"])
Buffered == {k \in Kinds : buffers[k] # << >>}

\* Types, with the queue within NETBOT_PERSISTENCE_QUEUE_MAX.
TypeOK ==
    /\ script \in Scripts /\ policy \in Policies /\ enabled \in Modes
    /\ {received, written, failed, dropped} \subseteq Nat
    /\ queue \in Seq(Item) /\ Len(queue) <= QueueMax
    /\ buffers \in [Kinds -> Seq(Event)] /\ batch \in [Kinds -> Seq(Event)]
    /\ left \in 0 .. RetryMax
    /\ worker \in {"off", "get", "history", "flows", "failure",
                   "complete", "exited"}
    /\ serving \in BOOLEAN
    /\ pc \in [Producers -> {"idle", "put", "full", "retry", "count"}]
    /\ sent \in [Producers -> Nat] /\ \A p \in Producers : sent[p] <= Len(script[p])
    /\ stop \in BOOLEAN /\ completed \in BOOLEAN
    /\ closer \in {"open", "waiting", "flushed", "stopping"}
    /\ flushed \in {"unknown", "yes", "no"}
    /\ rows \in [Event -> 0 .. 2] /\ uncommitted \in [Event -> 0 .. 2]
    /\ snapshot \in [Producers -> 0 .. Units]
    /\ lost \subseteq Event /\ early \subseteq Event /\ halfWritten \subseteq Event

Init ==
    /\ script \in Scripts /\ policy \in Policies /\ enabled \in Modes
    /\ received = 0 /\ written = 0 /\ failed = 0 /\ dropped = 0
    /\ queue = << >> /\ buffers = NoBatch /\ batch = NoBatch
    /\ left = 0 /\ worker = (IF enabled THEN "get" ELSE "off") /\ serving = FALSE
    /\ pc = [p \in Producers |-> "idle"] /\ sent = [p \in Producers |-> 0]
    /\ stop = FALSE /\ closer = "open" /\ completed = FALSE /\ flushed = "unknown"
    /\ rows = NoRows /\ uncommitted = NoRows /\ snapshot = [p \in Producers |-> 0]
    /\ lost = {} /\ early = {} /\ halfWritten = {}

-----------------------------------------------------------------------------
(* enqueue and enqueue_many, in the flow workers. *)

Goto(p, step) == pc' = [pc EXCEPT ![p] = step]
Full == Len(queue) >= QueueMax

PutAtHead(x) == queue' = <<x>> \o queue
PutAtTail(x) == queue' = Append(queue, x)

\* The locked section that counts the events before the queue is tried.
Receive(p) ==
    /\ enabled /\ pc[p] = "idle" /\ sent[p] < Len(script[p])
    /\ sent' = [sent EXCEPT ![p] = @ + 1]
    /\ received' = received + Cardinality(EventsOf(p, sent[p] + 1))
    /\ Goto(p, "put")
    /\ UNCHANGED <<fixed, written, failed, dropped, queue, writer, closing, completed,
                   store, lost, early>>

PutItem(p) ==
    /\ ~Full /\ PutAtTail(MyItem(p))
    /\ early' = IF closer = "open" THEN early \cup MyEvents(p) ELSE early

Put(p) ==
    /\ pc[p] = "put"
    /\ \/ PutItem(p) /\ Goto(p, "idle") /\ UNCHANGED lost
       \/ /\ Full /\ policy = "drop_oldest"
          /\ Goto(p, "full")
          /\ UNCHANGED <<queue, lost, early>>
       \/ /\ Full /\ policy # "drop_oldest"
          /\ Goto(p, "count")
          /\ lost' = lost \cup MyEvents(p)
          /\ UNCHANGED <<queue, early>>
    /\ UNCHANGED <<fixed, counters, writer, sent, closing, completed, store>>

\* _handle_overflow, drop_oldest: whatever is oldest goes, and the caller of an
\* evicted flush command is told that it completed.
EvictOldest(p) ==
    /\ pc[p] = "full"
    /\ Goto(p, "retry")
    /\ \/ /\ queue # << >>
          /\ queue' = Tail(queue)
          /\ lost' = lost \cup Head(queue).events
          /\ completed' = (completed \/ Head(queue).flush)
       \/ queue = << >> /\ UNCHANGED <<queue, lost, completed>>
    /\ UNCHANGED <<fixed, counters, writer, sent, closing, store, early>>

PutAgain(p) ==
    /\ pc[p] = "retry"
    /\ Goto(p, "count")
    /\ \/ PutItem(p) /\ UNCHANGED lost
       \/ Full /\ lost' = lost \cup MyEvents(p) /\ UNCHANGED <<queue, early>>
    /\ UNCHANGED <<fixed, counters, writer, sent, closing, completed, store>>

\* What is counted is the size of the new unit, also when an older one was lost.
CountDrop(p) ==
    /\ pc[p] = "count"
    /\ dropped' = dropped + Cardinality(MyEvents(p))
    /\ Goto(p, "idle")
    /\ UNCHANGED <<fixed, received, written, failed, queue, writer, sent, closing,
                   completed, store, lost, early>>

\* A commit stores the rows of new and whatever is open on the connection.
Capped(n) == IF n > 2 THEN 2 ELSE n
Commit(open, new) ==
    /\ rows' = [e \in Event |-> Capped(rows[e] + open[e] + (IF e \in new THEN 1 ELSE 0))]
    /\ uncommitted' = NoRows

\* _write_synchronously, when batching is disabled: the whole retry loop runs in
\* the calling thread and ends in success or failure.  Attempts that raised may have
\* left rows open, packets first, since the last that rolled back; a unit of a flow
\* snapshot opens none, and commits only what the clean-up of old rows finds open.
WriteSynchronously(p) ==
    /\ ~enabled /\ pc[p] = "idle" /\ sent[p] < Len(script[p])
    /\ sent' = [sent EXCEPT ![p] = @ + 1]
    /\ LET new == EventsOf(p, sent[p] + 1)
           stored == {e \in new : e.kind \in History}
       IN  /\ received' = received + Cardinality(new)
           /\ \E kept \in [stored -> 0 .. 2], rollbacks \in 0 .. 1 :
                LET open == [e \in Event |-> (IF rollbacks = 0 THEN uncommitted[e] ELSE 0)
                                              + (IF e \in stored THEN kept[e] ELSE 0)]
                    Within(attempts) == \A e \in stored : kept[e] + rollbacks <= attempts
                IN  /\ stored = {} => rollbacks = 0
                    /\ \A e, f \in stored : e.kind = "packet_record" => kept[f] <= kept[e]
                    /\ halfWritten' = halfWritten \cup {e \in stored : kept[e] > 0}
                    /\ \/ /\ Within(RetryMax)
                          /\ Commit(open, stored) \/ (stored = {} /\ UNCHANGED <<rows, uncommitted>>)
                          /\ snapshot' = IF stored # new THEN [snapshot EXCEPT ![p] = sent[p] + 1]
                                                         ELSE snapshot
                          /\ written' = written + Cardinality(new)
                          /\ UNCHANGED failed
                       \/ /\ Within(RetryMax + 1)
                          /\ uncommitted' = [e \in Event |-> Capped(open[e])]
                          /\ failed' = failed + Cardinality(new)
                          /\ UNCHANGED <<written, rows, snapshot>>
    /\ UNCHANGED <<fixed, dropped, queue, writer, pc, closing, completed, lost, early>>

EnqueueStep(p) == Put(p) \/ EvictOldest(p) \/ PutAgain(p) \/ CountDrop(p)

-----------------------------------------------------------------------------
(* _run, the writer thread. *)

\* _flush_due pops the due kinds of b from the buffers before it writes them; when
\* nothing is due the thread goes on.
Flush(b, due, otherwise) ==
    /\ batch' = [k \in Kinds |-> IF k \in due THEN b[k] ELSE << >>]
    /\ buffers' = [k \in Kinds |-> IF k \in due THEN << >> ELSE b[k]]
    /\ left' = RetryMax
    /\ worker' = IF due = {} THEN otherwise ELSE "history"

\* while not stop or not empty or buffers; one more forced flush ends the thread.
GoOn == ~stop \/ queue # << >> \/ Buffered # {}
WorkerEnd ==
    /\ worker = "get" /\ ~GoOn
    /\ Flush(buffers, Buffered, "exited")
    /\ UNCHANGED <<fixed, counters, queue, serving, producing, closing, completed,
                   store, lost, early>>

\* get(timeout) ends with queue.Empty: flush what is old enough.
WorkerIdle ==
    /\ worker = "get" /\ GoOn /\ queue = << >>
    /\ \E due \in SUBSET Buffered : Flush(buffers, due, "get")
    /\ UNCHANGED <<fixed, counters, queue, serving, producing, closing, completed,
                   store, lost, early>>

\* get() returns an item.  A unit goes to the buffers; a flush command, an urgent
\* unit or a full buffer flushes all of them, otherwise what is old enough.  The
\* buffers are the thread's own, so nothing comes between the get and the flush.
Collected(item) ==
    [k \in Kinds |-> IF \E e \in item.events : e.kind = k
                     THEN Append(buffers[k], CHOOSE e \in item.events : e.kind = k)
                     ELSE buffers[k]]
ForcedByUnit(item, b) == item.urgent \/ \E e \in item.events : Len(b[e.kind]) >= BatchSize[e.kind]
Forced(item, b) == \/ item.flush \/ item.urgent
                   \/ \E e \in item.events : Len(b[e.kind]) >= BatchSize[e.kind]
WorkerTake ==
    /\ worker = "get" /\ GoOn /\ queue # << >>
    /\ queue' = Tail(queue)
    /\ serving' = Head(queue).flush
    /\ LET b == Collected(Head(queue))
           all == {k \in Kinds : b[k] # << >>}
       IN  \E due \in SUBSET all : /\ Forced(Head(queue), b) => due = all
                                   /\ Flush(b, due, "complete")
    /\ UNCHANGED <<fixed, counters, producing, closing, completed, store, lost, early>>

\* _write_central_batch: insert_batch, unless there is nothing for it, commits packets
\* and alerts; or it rolls back what is open; or it raises and leaves open the rows that
\* were inserted so far, the packets being before the alerts.
HistoryRows == batch["packet_record"] \o batch["alert_record"]
Inserted(n) == {HistoryRows[i] : i \in 1 .. n}
WriteHistory ==
    /\ worker = "history"
    /\ \/ /\ IF HistoryRows = << >> THEN UNCHANGED <<rows, uncommitted>>
                                   ELSE Commit(uncommitted, Range(HistoryRows))
          /\ worker' = "flows"
          /\ UNCHANGED halfWritten
       \/ /\ HistoryRows # << >> /\ uncommitted' = NoRows
          /\ worker' = "failure"
          /\ UNCHANGED <<rows, halfWritten>>
       \/ \E n \in 1 .. Len(HistoryRows) :
            /\ uncommitted' = [e \in Event |->
                   Capped(uncommitted[e] + (IF e \in Inserted(n) THEN 1 ELSE 0))]
            /\ halfWritten' = halfWritten \cup Inserted(n)
            /\ worker' = "failure"
            /\ UNCHANGED rows
    /\ UNCHANGED <<fixed, counters, queue, buffers, batch, left, serving, producing, closing,
                   completed, snapshot, lost, early>>

\* Then the flow writer upserts the last snapshot of each flow, the clean-up of old rows
\* may be due and commits what is open, and the batch is counted as written.
LastOf(p, flows) ==
    LET mine == {i \in DOMAIN flows : flows[i].by = p}
    IN  IF mine = {} THEN snapshot[p]
        ELSE flows[CHOOSE i \in mine : \A j \in mine : j <= i].n
WriteFlows ==
    /\ worker = "flows"
    /\ \/ /\ snapshot' = [p \in Producers |-> LastOf(p, batch["flow_record"])]
          /\ written' = written + Size(batch)
          /\ batch' = NoBatch /\ worker' = "complete"
          /\ Commit(uncommitted, {}) \/ UNCHANGED <<rows, uncommitted>>
          /\ UNCHANGED halfWritten
       \/ /\ batch["flow_record"] # << >>
          /\ halfWritten' = halfWritten \cup Rows(batch)
          /\ worker' = "failure"
          /\ UNCHANGED <<snapshot, written, batch, rows, uncommitted>>
    /\ UNCHANGED <<fixed, received, failed, dropped, queue, buffers, left, serving, producing,
                   closing, completed, lost, early>>

\* _write_with_retry: wait and write the whole batch again, or give it up when the
\* retries are spent or the stop flag is set, before or during the wait.
CanRetry == left > 0 /\ ~stop
SpendNone == left
SpendOne == left - 1
CountBatch == 1
CountRows == Size(batch)
WriteFailure ==
    /\ worker = "failure"
    /\ \/ /\ CanRetry
          /\ left' = SpendOne /\ worker' = "history"
          /\ UNCHANGED <<failed, batch>>
       \/ /\ ~CanRetry
          /\ failed' = failed + CountRows
          /\ batch' = NoBatch /\ worker' = "complete"
          /\ UNCHANGED left
    /\ UNCHANGED <<fixed, received, written, dropped, queue, buffers, serving, producing,
                   closing, completed, store, lost, early>>

\* The flush command's event is set, and the loop goes on.
WorkerComplete ==
    /\ worker = "complete"
    /\ completed' = (completed \/ serving)
    /\ serving' = FALSE /\ worker' = "get"
    /\ UNCHANGED <<fixed, counters, queue, buffers, batch, left, producing, closing,
                   store, lost, early>>

WorkerStep == \/ WorkerEnd \/ WorkerIdle \/ WorkerTake \/ WriteHistory \/ WriteFlows
              \/ WriteFailure \/ WorkerComplete

-----------------------------------------------------------------------------
(* close(): flush, then the stop flag, then a join that may time out. *)

CloseFlush ==
    /\ enabled /\ closer = "open"
    /\ \/ /\ ~Full /\ PutAtTail(FlushCommand)
          /\ closer' = "waiting" /\ UNCHANGED flushed
       \/ /\ Full
          /\ closer' = "flushed" /\ flushed' = "no" /\ UNCHANGED queue
    /\ UNCHANGED <<fixed, counters, writer, producing, stop, completed, store, lost, early>>

CloseWait ==
    /\ closer = "waiting"
    /\ flushed' = IF completed THEN "yes" ELSE "no"
    /\ closer' = "flushed"
    /\ UNCHANGED <<fixed, counters, queue, writer, producing, stop, completed, store, lost, early>>

CloseStop ==
    /\ closer = "flushed"
    /\ stop' = TRUE /\ closer' = "stopping"
    /\ UNCHANGED <<fixed, counters, queue, writer, producing, flushed, completed, store, lost, early>>

CloseStep == CloseFlush \/ CloseWait \/ CloseStop

Next == \/ \E p \in Producers : Receive(p) \/ EnqueueStep(p) \/ WriteSynchronously(p)
        \/ WorkerStep
        \/ CloseStep

\* A flush, timed or after an item, finds everything that is buffered due.
FlushOld == (WorkerIdle \/ WorkerTake) /\ Buffered # {} /\ buffers' = NoBatch

\* Threads are scheduled, every wait is bounded, every storage call returns or
\* raises, and the clock passes the flush intervals of what stays buffered; nobody
\* is obliged to enqueue or to close.
Fairness == /\ \A p \in Producers : WF_vars(EnqueueStep(p))
            /\ WF_vars(WorkerStep)
            /\ SF_vars(FlushOld)

Spec == Init /\ [][Next]_vars
FairSpec == Spec /\ Fairness

-----------------------------------------------------------------------------
(* Properties. *)

\* The events of the units whose threads are at these steps.
Held(steps) == UNION {MyEvents(p) : p \in {q \in Producers : pc[q] \in steps}}
Pending == (UNION {queue[i].events : i \in DOMAIN queue})
             \cup Rows(buffers) \cup Rows(batch)

\* Under drop_newest and reject_new the counters account for every event received:
\* written, failed, dropped, or on its way in exactly one place.  Under drop_oldest
\* they do not: see EveryDropCounted.
EventsConserved ==
    policy # "drop_oldest" =>
        received = written + failed + dropped
                     + Cardinality(Pending) + Cardinality(Held({"put", "count"}))

\* When a flush answers True under these two policies, everything enqueued before
\* close() asked for it has been written or has failed, whatever was buffered.
FlushSound ==
    flushed = "yes" /\ policy # "drop_oldest" => early \cap Pending = {}

\* The writer thread leaves nothing behind that was enqueued before close() began,
\* whether the flush was answered, timed out or was evicted.
NoneLeftBehind == worker = "exited" => early \cap Pending = {}

\* The stored snapshot of a flow never goes back to an older one: the queue, the
\* buffers and the retries keep the snapshots of a flow in order.
SnapshotsAdvance == [][\A p \in Producers : snapshot'[p] >= snapshot[p]]_snapshot

\* A packet or an alert has two rows only when an attempt to write it failed and had
\* stored it all the same: the batch committed and then failed on its flow snapshots,
\* or an exception left its row open for a later commit.  Nothing else is stored twice.
TwiceOnlyAfterHalfWrite == \A e \in Event : rows[e] = 2 => e \in halfWritten

\* The writer's books balance under the refusing policies; nothing is left behind, or
\* stored twice but by an attempt that failed half way.
EventsAccounted == TypeOK /\ EventsConserved /\ NoneLeftBehind /\ TwiceOnlyAfterHalfWrite

\* What is enqueued before close() begins is eventually written, counted as failed
\* or lost to the overflow policy: the retries of a failing store end.  A thread
\* enqueues finitely many units, so all of its units are settled if each of them is.
EarlyIsEventuallySettled == \A p \in Producers :
    (\E e \in early \cap Pending : e.by = p) ~> ~(\E e \in early \cap Pending : e.by = p)

\* docs/PERFORMANCE_PIPELINE.md: every drop is counted.  The counter is behind the
\* events lost by no more than those whose thread has not reached it.
EveryDropCounted ==
    Cardinality(lost) <= dropped + Cardinality(Held({"full", "retry", "count"}))
=============================================================================
