# NetBotPro in TLA+

NetBotPro captures packets on a host, analyses them, stores what it finds in
SQLite and shows it live in a browser or a desktop window; agents on other hosts
report to it. This directory holds TLA+ models of its stateful parts, the TLC runs
that check them on small instances, and theorems with proofs that TLAPS checks for
every instance.

The models are written from the source. `PROJECT.json` gives, for each
definition, the lines it stands for; for each run, what it shows; for each
property, a mutation of the code's model that breaks it; and the hazards of the
code, with the properties that watch them.

## The system

### Parts, their state and their operations

| Part | State | Operations | Model |
| --- | --- | --- | --- |
| Capture life cycle: `sniffer_service.py`, `netbotpro_sniffer_core/runtime.py` | the session held (`_engine`), the service's lock, per session a run flag and a thread, the packet worker and its stop flag | `start`, `stop`, `close`, `drain_packet_queue`, `_on_packet` | `SnifferService` |
| Packet intake queue: `packet_queue.py` | a bounded queue, `unfinished_tasks`, four counters behind a lock of their own | `put`, `get`, `task_done`, `wait_until_drained` | `PacketQueue` |
| Flow worker pool: `flow_worker_pool.py` | one bounded queue and one thread per lane, `_accepting`, `_stop`, five counters | `submit`, `wait_until_drained`, `close` | `FlowWorkerPool` |
| Batch persistence: `batch_persistence.py`, `sniffer_persistence.py`, `netbotpro_logging/storage.py` | a bounded queue of units and flush commands, a buffer per kind, counters; the tables | `enqueue`, `enqueue_many`, `flush`, `close`, the writer thread | `BatchPersistence` |
| Event aggregator: `event_aggregator.py` | a buffer and a timer per category, counters | `publish`, `flush_all`, `close`, the timers | `EventAggregator` |
| Event bus and websocket clients: `event_bus.py`, `main.py` (`ws_events`, `lifespan`) | the subscribers, a bounded queue per client, counters | `_publish_direct`, `_safe_put`, `subscribe`, `unsubscribe` | `EventBus` |
| Detection pipeline and auto-block: `sniffer_detection_pipeline.py`, `ids_signature.py` | dictionaries of sample lists without a lock, recently blocked addresses behind one | `analyze`, `_maybe_auto_block` | `DetectionPipeline` |
| Incident correlation: `incident_correlation.py` | signals that wait, per type and source; open incidents; counters | `ingest_signal`, `list_incidents`, `reset` | `IncidentCorrelation` |
| Live session: `sniffer_service.py` (`_process_packet`, `reset_session`), `sniffer_dashboard_state.py`, `capture_policy.py` | the recent lists and counters of the dashboard | per packet one call after the other into the parts below; `reset_session` | `LiveSession` |
| Flow engine: `flow_engine.py`, `flow_risk.py`, `protocol_intelligence.py` | flows, conversations and destinations seen, behind one lock | `ingest`, `reset`, `conversations`, `get_conversation` | `FlowEngine` |
| Live ring buffer: `live_ring_buffer.py` | a bounded deque per category with a time to live, counters | `append`, `query`, `metrics`, `clear` | `LiveRingBuffer` |
| Service attribution: `service_attribution.py` | a bounded cache of flow outcomes, counters | `enrich`, `reset_runtime` | `ServiceAttribution` |
| Flow service: `flow_service.py` | a queue of flow snapshots and a writer thread | `ingest`, `enqueue`, the writer, `close` | `FlowSnapshots` |
| History: `history_service.py`, `history_repository.py`, with `storage.py` | recent rows in memory; the tables; a cache of lists and one of details | lists, details, contexts and streams; the clean-up | `History` over `FlowContext` |
| Agent registry and runner: `agent_registry.py`, `agent_demo.py`, `agent/`, the agent routes | agents in memory; tables or a JSONL file; the runner's timers and pause | `register`, `heartbeat`, `telemetry`, loading, clean-up, seeding; the runner's loop | `AgentRegistry` |
| Settings: `settings_service.py`, `settings_manager.py` | a cache, a file, the persistence switch | `update_settings`, loading | `Settings` |
| Saved filters: `saved_filter_service.py` | a file | `create`, `update`, `delete` | `SavedFilters` |
| Parsing, IDS rules, scores, monitoring, reports, exports, offline analysis, HTTP security, frontend, desktop shell, packaging | | | not modelled: see below and `PROJECT.json` |

### How they interact

```
NetSniffer threads --put--> intake queue --packet worker--> flow worker pool (lanes)
                                                               | _process_packet
                    +--------------------------+---------------+-------+
                    v                          v                       v
     services, flows, detection,      batch persistence (one thread)   event aggregator
     incidents, dashboard, ring         | insert_batch; write_snapshots    | emit
                    |                   v                                  v
                    |     agents --> SQLite <--retention   event bus --call_soon_threadsafe--> clients
                    v                   v
              live views             history (lists, contexts), or the recent rows in memory
```

Agents call the backend over HTTP; the registry has an SQLite file (or a JSONL file)
of its own. The settings decide whether packets are stored, and thereby which of its
two sources the history reads.

`start()` opens a session in a thread of its own and waits for it, holding the
service's lock, for at most 15 seconds. `stop()` takes the session out, joins its
sniff loop for at most 3 seconds, then drains the intake queue and the worker
pool, one after the other. At shutdown the lifespan handler closes the event bus,
then the service, which stops the packet worker, the pool and the persistence.

### What is hard

* **Full queues.** Every queue is bounded and has an overflow policy made of
  several library calls (get the oldest, count it, put again). Other threads run
  between any two.
* **Counters apart from queues.** Counters have locks of their own. They agree
  with the queues only up to the threads that are between the two.
* **Drains and flushes.** `stop()`, `close()` and `flush()` give answers that
  others rely on, from several observations made one after the other.
* **Timeouts.** Every wait ends, and what was waited for may still happen later:
  a capture session that opens after `start()` gave up, a timer that fires while
  it is cancelled.
* **Partial failure.** A batch is two transactions. Retrying it repeats the first.
* **State without a lock.** The detection windows are shared by the flow workers
  and protected by nothing but the interpreter lock.
* **Limits that forget.** Keys, deques, incidents and addresses are evicted at a
  limit or with age, and decisions are then taken on what is left.
* **Several copies of one thing.** An agent is in memory, in its row and in the
  snapshot tables; a setting in a cache, a file and a switch; a packet in six live
  views that a reset empties one by one. Each write may fail between two copies.
* **Read, change, write back.** Settings and filters are rewritten as a whole by
  requests that run side by side.
* **Order.** The packets of a conversation and the snapshots of a flow pass
  through several queues and threads and must not overtake each other.

### What makes each part correct

* Intake queue: a packet goes in and comes out once, in order, or is lost at one
  end of the queue and counted; a drain that answers True is right.
* Worker pool: the same for each lane; all packets of a conversation are in one
  lane; a job that fails stops nobody; close() abandons nothing that was queued.
* Persistence: every event ends as written, failed or dropped; a flush that
  answers True is right; rows are doubled only when an attempt failed half way;
  the stored flow never goes back.
* Aggregator and bus: no event stays in a buffer that nobody will flush; each
  batch reaches each subscriber once, or is counted as lost.
* Detection: what colliding workers lose does no lasting damage; no alert rests on
  samples older than the window; an address is not blocked again and again.
* Incidents: every signal is in one place or counted; an incident holds what
  belongs together; its severity does not fall.
* Life cycle: a session that runs can be stopped; every request returns; a drained
  stop leaves nothing of its session behind.
* Live views: they agree with each other and with the packets processed; a reset
  leaves nothing that was finished before it; records removed are counted.
* History: a list shown page by page is one list; a context is that of its packet,
  from either source; retention removes what is too old (it does not).
* Agents: what was accepted is kept; memory and tables agree; an agent that was
  refused or forgotten gets through again.
* Settings, filters, stored flows: an answer is true afterwards; nothing else
  changes; the newest state is the one stored.

## Modules

| Module | What it is |
| --- | --- |
| `LossyFifo` | The abstract specification of a bounded intake queue: items come out once and in order; an item is given up only as the oldest waiting or as the one arriving. |
| `PacketQueue` | The intake queue with its capture threads and the packet worker. `put()` is up to six steps: `Put`, `EvictOldest`, `EvictedDone`, `CountOldest`, `PutAgain`, then `RecordAccepted` or `CountNewest`. Implements `LossyFifo`. |
| `FlowWorkerPool` | The pool: `Submit`, then `Enqueue` and the steps of the overflow policy; `WorkerStep` per lane; `close()` as `CloseBegin`, `DrainPoll` per lane, `CloseStop`. Each lane implements `LossyFifo`. |
| `BatchPersistence` | The write-behind queue and its thread; `WriteHistory` and `WriteFlows` are the two transactions of `_write_central_batch`, either of which may fail. An SQLite error rolls the first back; another exception leaves the rows inserted so far in the open transaction (`uncommitted`) for the next commit or rollback. |
| `EventAggregator` | Buffers and timers. `Ring` is the moment a timer can no longer be cancelled, `TimerFlush` the `_flush` its thread runs later. The emit callback is left open: `emitting` holds the batches under way. |
| `EventBus` | Extends `EventAggregator` and refines its emit callback: fan-out to the subscribers, the callbacks in the event loop, the websocket handlers. |
| `SnifferService` | The life cycle, with the intake queue and the pool reduced to what `stop()` observes of them. |
| `DetectionPipeline` | The sliding windows of the detectors and auto-block. A worker's `frame` holds its local variables; lists are objects (`content`) that the dictionary (`table`) may have lost. `engine` chooses between the three ways in which the code keeps a window. |
| `IncidentCorrelation` | The signals drawn from a packet, its alerts and its flow; signals that wait and incidents; `Join`, `Wait` and `Open` are the three outcomes of `ingest_signal`. `expired` and `evicted` are histories of what left. |
| `LiveSession` | What the flow workers do with a packet after detection: `Enrich`, `Ingest`, `Correlate`, `AddPacket`, `AddAlerts`, `Show` (one record of the ring each) and `End`; `reset_session` as five steps; a conversation read in two. Extends the next three. |
| `FlowEngine` | `ingest`, `reset` and the conversations, one operator per locked section; which flow, which protocol, which risk. |
| `LiveRingBuffer` | One operator per locked section of the ring. |
| `ServiceAttribution` | The service and score of a packet; the counters of flow outcomes over a bounded cache. |
| `FlowSnapshots` | The flow service that stores flows itself: `Enqueue`, then the writer's `Check`, `Wait`, `Gather`, `WriteBatch`, `BatchFails`, `Pause`; or `WriteDirectly`. |
| `FlowContext` | What the history derives from sample rows, as operators: flow identity, contexts of packets and alerts, streams with exchanges, behaviours, anomalies and neighbours. |
| `History` | The two sources with capture, batches, clean-up, restarts and the switch; readers with the cache: `Ask`, `Choose`, `Count`, `Read`, `Finish`. |
| `HistoryStories` | The traffic and requests with which `History` is checked. |
| `AgentRegistry` | Runners (`Begin`, `Send`, `Refused`, `Timeout`), handlers (`Verify`, `Call`, `Enter`, `Upsert`, `Insert`, `FailWrite`, `Answer`), seeding (`SeedStart`, `SeedAgent`, `SeedReload`, `SeedSwap`), `Cleanup` and `Crash`. |
| `Settings` | An update as `BeginUpdate`, `Truncate`, `Write` (or `FailToSave`), `Replace`, `Switch`; `Restart`. |
| `SavedFilters` | A change as `Ask`, `TakeLock`, then `Save`, `Refuse` or `FailToWrite`; `Die`, which may come before the write, in it, or after it and before the answer. |
| `QueueLemmas` | Lemmas for the proofs: how many threads are at certain places, what putting into and taking from a sequence does, and what a recursive function over a sequence computes. |
| `PacketQueueProofs`, `FlowWorkerPoolProofs`, `BatchPersistenceProofs`, `EventBusProofs`, `AnalysisProofs`, `SnifferServiceProofs`, `StoresProofs` | The theorems; `AnalysisProofs` those of the detection pipeline and of the incidents, `SnifferServiceProofs` those of the life cycle and of the live session, `StoresProofs` those of the agents, the settings, the filters and the flow snapshots. |
| `MC*` | Instances for TLC. `MCAnalysis`, `MCStores` and `MCSessionViews` run parts side by side that share no state: each initial state begins one of them, and the others stand still. |

Conventions. An action is a section of code between two points where another
thread can interfere: a locked section, a call of `queue.Queue` (which locks
itself), a storage call. A thread's place inside an operation is its `pc`.
Variables keep the names of the source where TLA+ allows it. History variables
(`taken`, `lost`, `handled`, `early`, `addressed`, ...) record what happened and
are read by no guard, with one kind of exception: `closer` (the place of the
closing thread) decides what becomes part of `early`. Python's `threading`
objects have no undefined behaviour under the interpreter lock; what is open is
the schedule, which the models leave open.

## Runs

| Run | Instance | Distinct states |
| --- | --- | --- |
| `packet_intake` | two capture threads, two packets each, queue of 2, both policies | 60 thousand |
| `worker_pool` | two submitting threads, three packets, lanes of 2 and 1, three policies, with and without workers | 180 thousand |
| `persistence` | two flow workers, two snapshots with a packet or one with a packet and its alert, queue of 2, one retry, two policies, batched and synchronous | 355 thousand |
| `persistence_drops` | two snapshots with a packet and its alert, under `drop_oldest`; finds the violation | |
| `live_events` | three publishers, two categories and an event of none, buffers of 2, one client with a queue of 1, three policies | 229 thousand |
| `live_events_shutdown` | the lifespan handler alone; finds the violation | |
| `analysis` | detection: two workers, five traffics of three or four packets, alerts at two samples, window 1, cool-down 2, room for one key and one address, three engines; incidents: five kinds of packets of two hosts and of none, two open incidents, deques of four, window 1, retention 2, clock to 3, five packets | 1.7 million |
| `detection_blocks` | the alerts alone; finds the violation | |
| `capture` | two request threads and the lifespan thread, three calls, two sessions of one packet, intake queue of 1 | 148 thousand |
| `stores` | one runner and one demo agent, two request threads, both storages, clock to 1, one fault, one seed; two settings, three updates of three kinds, two faults; two clients, three changes, two faults; two flows of two packets, queue and batch of 2, one retry | 545 thousand |
| `session_views` | two flow workers, twelve sessions of up to three packets, one reset, one reader, ring capacities 2 and 3, time to live 1; two history readers, stories of up to four packets, pages of one, cached pages 2, cached details 1 | 820 thousand |
| `retention` | `History` alone, with a retention; finds the violation | |

### Why these bounds

* Two threads on each side of a queue are what every race of these operations
  needs: one that evicts or counts and one that takes the slot. The number of
  threads beyond two changes only how many are in the same steps; the proofs
  about `PacketQueue`, `FlowWorkerPool`, `BatchPersistence` and `EventAggregator` hold
  for any number.
* Queues of one and two overflow with three or four items; two is what tells the
  oldest from the newest.
* Lanes of different capacities exercise the remainder in `_create_workers`, and
  the two directions of a conversation the sorting of the endpoints.
* One retry separates the first failure from the last.
* Two samples raise an alert where the code wants three to eighty: a collision
  concerns one list, one filter and one append, however long the list is. Five
  traffics cover what two workers can do to one key, to a key one cleans while the
  other fetches it, and to a full table.
* The signals of five packets fill deques and timelines and leave more; the clock
  passes the window and the retention.
* One runner and one demo agent: what agents share is the lock, the registry object
  and the file, and `lagging` is per agent. Two request threads let a late handler
  meet the next call of the same runner; one fault and one seed can then fall between
  any two steps. `AckedIsKept`, `MemoryAgrees` and `ReportsAdvance` are
  proved for any number of each.
* Two settings, one of them the switch, are what it takes to lose an update of the
  one to an update of the other; the texts differ in length by one.
* Three packets let a later one of a flow overtake, be reset between, or be evicted,
  with a second flow or the opposite direction beside it. The sessions are chosen so
  that each rule of protocol and risk is taken. What `LiveSession` says is proved for
  any packets, workers, resets and sizes.
* A story walks through lists of up to four rows, page by page, or asks for single
  packets; the capture numbers pass from 9 to 10, where text order and number order
  part; the day ends; a restart begins the numbers again.
* Two sessions are enough for one to be abandoned, or to be stopping, while the
  next one runs.

Each bound is a constant: `Offers`, `Jobs`, `Units`, `Events`, `Packets`,
`Sessions`, `Calls` and `Ingested` bound what the environment offers, `Duration`
the clock; `Traffics` and `Scripts` name the traffic considered. `CHECK_DEADLOCK FALSE` stands in the
configurations because each of these systems can be closed, or its traffic end.

### What the runs show

All properties listed for the passing runs hold. The four other runs are
disagreements between the documentation or the tests and the code:

* **`persistence_drops`.** `docs/PERFORMANCE_PIPELINE.md` says that every drop is
  counted. Under `drop_oldest`, `BatchPersistenceWriter._handle_overflow` counts
  the size of the new unit instead of the one it evicts. Where a packet with its
  alerts is evicted by one flow snapshot, fewer events are counted than lost.
  For the same reason `EventsAccounted` of `BatchPersistence` is stated for the
  refusing policies only, and so is `FlushSound`: an evicted flush command is
  answered as completed.
* **`live_events_shutdown`.** The same document says that shutdown flushes the
  pending events and cancels the timers. The lifespan handler closes the event
  bus before the service, whose `stop()` publishes `sniffer:stopped` and so
  leaves a pending summary and an armed timer behind.
* **`detection_blocks`.** A test says that auto-blocking skips duplicate blocks.
  Looking up the cool-down and recording the block are two locked sections around
  the firewall command, so two flow workers that meet two flows of one source both
  block it, and the command appends a second rule. `RepeatsOverlap` says that this,
  and an address that fell out of the 2048 tracked ones, are the only ways.
* **`retention`.** The repository's README says that retention settings can remove
  old packet history. The clean-up needs a column `created_at` that no schema has;
  it adds it with a default that SQLite accepts for empty tables only, and it runs
  after a batch was inserted. Its errors are swallowed, and nothing is removed.

Some facts are part of the properties rather than findings, because no document
denies them:

* A batch whose packets were committed and whose flow snapshots then failed is
  written again, and its packets and alerts have two rows. So do rows that an exception
  other than SQLite's left in the open transaction, when the retry commits them too; or
  they are stored although the batch was counted as failed. `EventsAccounted` says that
  these are the only ways to a second row.
* A capture session that opens after `start()` gave up runs until the process ends
  (`SessionsAccounted` says that these are the only sessions out of reach).
* A write of an agent's row that failed, or one made through a registry that seeding
  has replaced, leaves what is shown and what is stored apart until the agent's next
  write; half a line in a JSONL file makes the registry forget everything at its next
  start (`MemoryAgrees`, `AckedIsKept`). After a late handler an older report may
  replace a newer one (`ReportsAdvance`).
* Two settings updates that meet can lose one, or leave a text that cannot be read,
  which a restart turns into the defaults (`InStep`, `NothingLost`). A filter file
  cut off in a write makes the next change forget all custom filters (`AnswersKept`).
* `get_conversation` raises when the flow table is reset while it is being read
  (`ConversationAnswered` says: only then).
* An exchange of a stream pairs the first response with the first request, so it is
  right only if every request of the sample is answered in turn; numbers are compared
  as texts within a second; a second run gives capture numbers again. The premises of
  `ContextsSound` name these cases. Traffic between two hosts of the own network has
  two identities, one for each direction, and is left out of it.
* The pages of a walk are one list only if they come from one source, none is older
  than the one before it, and no row was written between the count and the rows of a
  page (`ListsSound`).

What the modelling also showed, without a run: README.md:417 of the repository says
that alert-only mode keeps payload previews empty, but `_process_packet` passes the
policy without `alert_only_mode` (`sniffer_service.py:194`), so
`_apply_payload_policy` never sees it; docs/AGENT_MODE.md lists the offline status
among the risks, but risk is computed when telemetry arrives, from the status before
it; the documented correlation of DNS answers has no source, since no code sets the
fields it reads; `flow_alerts` and `pair_alerts` of a context are always the same
list (`history_repository.py:442-446`); the fleet report reads the agents five times;
`FlowService.enqueue` after `close()` is accepted and may never be written;
`insert_batch` with storing switched off drops rows that the persistence counts as
written.

### Fairness

Weak fairness is assumed of every thread that is inside an operation and of the
loops of the worker threads: the operating system schedules them and no lock is
held longer than a step. The exception is the service's lock, which `start()`
holds while it waits; `SnifferService` therefore assumes nothing but that the
request threads run and their waits time out, and in particular nothing of the
thread that opens the session. In `BatchPersistence` strong fairness of
`FlushOld` says that the clock passes the flush interval of what stays buffered:
ages are not modelled, so "nothing is old enough yet" could otherwise hold for
ever. Nobody is obliged to deliver a packet, to publish, to connect or to close.

`AgentRegistry` assumes that a runner goes on with its loop and that request threads
run; nobody has to seed, clean up or read. The bounded faults stop, so what
`EveryReportGetsThrough` says is that no state left behind by faults keeps a runner
out. In `FlowSnapshots` the writer's thread runs. `LiveSession`, `History`,
`Settings` and `SavedFilters` have safety properties only and need no fairness.

In `DetectionPipeline` a worker may be interrupted at every call and at every turn
of a loop, as CPython 3.13 does. `ExactAlone` (with `CountsWhatIsFresh` in `CountsSound`) says
what this costs: the samples a detector counts are exactly those of the window once a window's length of traffic
was analysed without collision. It excepts an application engine with more keys
than it may track, which drops the oldest. `CountsWhatIsFresh` bounds the other
damage: a stale sample is counted only if a worker with an earlier clock put it
back during the same analysis.

`IncidentCorrelation` assumes that the wall clock is not set back. Signals then
arrive in the order of their timestamps, because the timestamp of a captured
packet is a time of day without a date, which `_parse_time` cannot read and
replaces by the present. `SeverityNeverFalls` needs timelines as long as the
critical threshold, as by default (500 and 10).

## Proofs

`PacketQueueProofs` proves for any finite set of capture threads, any positive
queue size and either policy:

* `TypeCorrect`: `Spec => []TypeOK`;
* `DrainSound`: `Spec => []DrainedMeansHandled`;
* `BooksBalance`: `Spec => []PutsAccounted`;
* `QueueIsLossyFifo`: `Spec => ImplementsLossyFifo`.

`DrainedMeansHandled` is not inductive: it speaks of `unfinished = 0`, and the
steps keep it only because `unfinished` is always exactly the queue's length,
plus one while the packet worker holds a packet, plus the number of threads that
have evicted a packet and not yet called `task_done`. That equation, with what
the worker has taken and handled, is `IInv`. `QueueLemmas` has the lemmas for
the third term: a step of one thread changes the number of threads at a place by
at most one. The books are equations of the same kind, with the threads that have
lost a packet and not counted it as their third term. The refinement needs that an
item is offered once (no thread has put its next packet yet): each step of `put()`
is then an arrival, a loss of the oldest, a loss of the arriving one, or a stutter.

`FlowWorkerPoolProofs` proves for any finite set of submitting threads, any number
of lanes and capacity, any packets, and any hash of the flow key into the lanes:

* `TypeCorrect`: `Spec => []TypeOK`;
* `LanesAreLossyFifos`: `Spec => ImplementsLossyFifo`, for every lane;
* `ConversationsInOrder`: `Spec => []FlowOrder`;
* `DrainSound`: `Spec => []DrainTrustworthy`;
* `BooksClose`: `Spec => []JobsAccounted`.

`IInv` is the equation of `PacketQueueProofs` for each lane. `Fresh` says that no
place knows a job that its thread has not put yet, so what is put is new; that makes
each step a step of the lossy FIFO. `FlowOrder` follows from `OwnLane` (a job is in
the lane of its conversation, which is all that is used of the hash) and `InOrder`
(within a lane the jobs of a thread are taken, and wait, in the order in which it
submitted them). For `close()`, which polls lane after lane, `ScannedClear` says that
a lane found idle has none of the jobs put before, and gets none, since jobs do not
change lanes. The sum over the lanes is the number of their `Places`, pairs of a lane
and a position, which a step changes by at most one.

`BatchPersistenceProofs` proves for any finite set of flow workers, any units, any
sizes of queue and batch, any number of retries, and whatever the storage does:

* `BooksAndTables`: `Spec => []EventsAccounted`;
* `FlushTellsTheTruth`: `Spec => []FlushSound`;
* `SnapshotsInOrder`: `Spec => SnapshotsAdvance`.

`Ordered` carries all three. The events of one flow worker stand in the order in which
they were put: first those of the batch being written, then the buffers, then the
queue, then the unit in the worker's hands. So an event is in one place, and what has
left a place does not return. The rows a batch writes are then distinct events, and
the counters, which add up lengths, count events (`EventsConserved`). An event beyond
the batch has no row, committed or not, and what is uncommitted was left by an attempt
that failed (`RowsBehind`), so a second row needs such an attempt; the snapshots stored of a flow are older than those to come
(`SnapshotsBehind`), so the stored one advances. `Closing` follows `flush()` and
`close()`: the flush command stands behind what was put before it began (`early`), and
when it is served nothing of that is in the queue or a buffer any more.

`EventBusProofs` proves for any finite set of publishers and categories, any batch
size and any traffic:

* `TypeCorrect`: `Spec => []TypeOK`;
* `Unstranded`: `Spec => []NothingStranded`;

and for the event bus over it, with any finite set of clients, any size of their
queues and any slow-client policies:

* `UnstrandedWithBus`: `BusSpec => []NothingStranded`;
* `DeliveriesAccounted`: `BusSpec => []DeliveryAccounted`.

The invariant adds two facts. `MidPublish`: a publisher inside `publish()` has an
event of the category its step is about. `FiredRings`: a timer that is in
`_timers` and has fired still has a thread before `_flush`. The second is why
relying on an existing timer in `_schedule` is right even if it fired: its thread
takes the lock later, and so flushes the event. Popping a newer timer is harmless
for the same reason that it looks dangerous: the thread that pops it empties the
buffer in the same locked section. The bus leaves all that these facts speak of
alone, so they carry over to `BusSpec`.

`DeliveryAccounted` counts batches, and a count is right only while a batch is moved
from place to place and never copied. `OnePlace` says so of each client: a batch it
is owed is still to be asked for, in a callback, in its queue, lost, or gone to its
handler, in one of these, and what the queue holds is distinct. A batch enters when
`_publish_direct` takes its snapshot, so `OnePlace` needs `BatchesNew`: a batch not
yet taken up is new to every client. That in turn needs `EventsApart`: an event that
waits in a buffer is in no batch and in no other buffer, so a flush always makes a
batch nobody has seen. `EventsApart` holds because a publisher adds an event whose
number it has not used. With these the equations follow step by step; the events in
the buffers and the batches lost are counted as tagged pairs (`TaggedMoves` in
`QueueLemmas`).

`AnalysisProofs` proves of the detection pipeline, for any finite set of workers, any
packets, any engine and any limits:

* `BlocksRepeatOnlyByOverlap`: `Spec => []RepeatsOverlap`.

Between the check of the cool-down and the block another worker may block the
address, and a third may drop it from the tracked ones. Three facts carry the
argument. `BlocksTracked`: an address that was blocked is tracked, once, with a
time no earlier than its last block, or was dropped. `BusyOverlap`: two workers
that are at work have seen each other. `Justified`: for a worker about to block,
each block of its address is old enough, or by a packet its own overlaps, or of
an address dropped since. The check establishes the last from the first; a block
by another worker keeps it because of the second. All steps of the windows fall
under one lemma, `RoutineKeeps`: they touch neither the blocks nor what is
tracked.

Of the windows of its engines, under the same assumptions:

* `DetectorsCountWhatIsDue`: `Spec => []CountsSound`.

`CountsSound` speaks of finished analyses; the invariant `CInv` says what holds in the
middle of one, where the lists are read and replaced without a lock:

* Types (`WindowShape`), with what each step of a worker may rely on: the list a
  worker holds is one of its packet's key, what it keeps is of that list. No key is
  twice in the table (`KeysOnce`), and a list nobody has made yet is empty and
  unknown to all (`NewListsEmpty`), so two workers that both miss a key do not share
  a list.
* Who overlaps whom (`Ordered`): packets at work are different, clocks follow the
  order of the packets, and a packet at work has met all that began since.
* Nothing stale is counted, `CountsWhatIsFresh`. `Excuses` carries it: each sample of a
  list that a worker has cleaned is fresh by its own clock or by that of a packet it
  has met, since whoever else writes the list keeps what is fresh to it and is met.
* Nothing due is missed, half of `ExactAlone`. It rests on three facts about a time
  without overlap: a worker alone at work drops nothing fresh (`Undisturbing`), so a
  sample within the window stays in the table (`Retained`), so it is counted
  (`Complete`). Each supposes only that nobody overlapped from the sample on: what
  collisions before did to the lists is of no consequence.
* The table stays within its limit and one key more per worker (`Limited`). Several
  workers measure the same table and each drops what it measured; another may add in
  between. The invariant puts those that have measured in an order: the one of rank
  `n` leaves room for `n` keys besides those of the workers about to add one
  (`Claim`), and who is done makes those behind it move up (`LeaveLimited`).

And of the incidents, for any set of workers, any packets and any limits the
constructor lets through:

* `EverySignalAccounted`: `IncidentsSpec => []SignalsAccounted`;
* `GroupingIsSound`: `IncidentsSpec => []GroupingSound`;
* `NoIncidentDowngraded`: `IncidentsSpec => SeverityNeverFalls`.

The books of the first are sums over sequences from which elements are taken at
several places at once. `Total`, `Picked` and `Opened` are recursive functions, and
what they return for a sequence of any length is proved from the least index at which
it would fail (`Recursion`, `SameRecursion`): a total of two parts is the sum of
theirs, without one element it is less by that one, what is picked is in its old
order. With these each of `Join`, `Wait` and `Open` moves the one signal it received
to one place (`JoinCounts`, `WaitCounts`, `OpenCounts`).

For the second the invariant says what makes an incident: `Coherent` (its hosts are
of one source, its last update is the end of its timeline, its severity is what
`Graded` gives, successive entries are within the window) and, of two of them,
`Apart`. When a signal opens an incident no other may be joinable, but several
signals waited, each since another time. So `Aligned` says that the signals of a
deque are of one key and in order, and that none is later than the clock: the deque
of a new incident then ends with the signal that came, and being `Apart` follows from
that one being unable to join. A host keeps its own key because a flow is not named
like a host (`EvidenceAssumption`). The third rests on `Coherent`, too: while a
timeline has forgotten nothing it can only gain severities (`GradedGrows`), and when
it forgets, `MaxSignals >= CriticalAt` makes the incident critical by its count.

`SnifferServiceProofs` proves for any finite set of request threads, any number of
sessions, packets and calls, and any size of the intake queue:

* `SessionsTracked`: `Spec => []SessionsAccounted`;
* `StopIsComplete`: `Spec => []StopDrains`.

The first rests on the lock. `Starting`: a thread that waits for its session holds
the lock, and no session is held meanwhile; `Held` and `Opening`: a session held or
being stopped was opened completely, one being opened belongs to a `start()` or was
given up. `StopDrains` looks at one moment, while `stop()` learned what it relies on
in three. The invariant says what it knew at each. `LoopsEnd`: a loop that has ended
has no packet in its callback, and (`Frozen`) delivers none later. `Conserved`: a
packet delivered is in its callback, in the intake queue, with the packet worker, in
the pool, or settled. So an empty intake leaves the session's packets in the pool or
settled, and packets only move on (`Onwards`); an empty pool then leaves them
settled. `Knows` keeps this for each thread while the others act.

And of the live session, for any workers, any packets of the fields the views look at
(`CapturesAssumption`), any resets and readers, and any positive limits:

* `SessionViewsAgree`: `SessionSpec => []ViewsAgree`;
* `TableIsItsLog`: `SessionSpec => []TableMatchesLog`;
* `CountersStayRight`: `SessionSpec => []CountersAgree`;
* `RequestsAnswered`: `SessionSpec => []ConversationAnswered`;
* `RiskOnlyRises`: `SessionSpec => RiskFallsOnlyWhenRecognised`.

`_process_packet` and `reset_session` hold no lock over their steps, so what the views
say of one packet is true at different times. `Seen` says which of them it is true of
already: a packet past a step is in that step's view, unless a reset met the packet
(`Met`: one between its steps has met, or swept, all packets taken) or newer packets
displaced it. `Forgotten` says it of the reset: the views it has emptied hold nothing
that was finished before it began, and nobody who is still at work brings any back.

The order in the ring rests on the lanes. `Orderly`: a packet in process is the latest
its lane has taken, and no earlier one of the lane is left out; so two workers never
process packets of one conversation (`WorkersApart`). But the ring gets copies of a
flow, made some steps earlier, maybe before a reset. `Abreast` says that the ring does
not hold the packet whose record a worker still owes it, and that its copies of that
packet's flow are older than the worker's, by resets seen and packets counted; a worker
owes each of the two ordinary records once (`Once`). Appending then keeps the order,
and evicting or expiring only shortens the ring at its old end (`Ends`).

`Tabled` says what the flow table is in terms of the part of the log that belongs to
each flow (`PartOf`): what `Tells` of a flow is `Expected` of it. Each packet more is
one step of the recursive sums of the property and one step of `ingest`
(`MoreTells`, `FirstTells`), and no other flow notices it (`OthersTell`). A flow keeps
whether its destination was new when it began, so what was before its first packet
must not change: no packet is ingested twice (`Unlogged`), again by `Orderly`.

The counters of the ring are right by one equation per category (`Entries`); those of
the attribution because the outcomes remembered are one per flow, of which
`_record_result` takes out the earlier before it puts in the later (`RecordTallies`,
with `WhereLacking` of `QueueLemmas`). A conversation names only flows of the table
(`Readable`), and flows leave it by a reset only. The risk adds up points that do not
fall while the protocol stays (`RiskGrows`): counts only rise, and the direction, the
port and the process are those of the flow's first packet.

`StoresProofs` proves of the agents, for any sets of agents and request threads, either
storage and any number of faults, seeds and restarts:

* `TypeCorrect`: `Spec => [](TypeOK /\ Matched)`;
* `AcceptedReportsAreKept`: `Spec => []AckedIsKept`;
* `DashboardIsStored`: `Spec => []MemoryAgrees`;
* `RowsNeverGoBack`: `Spec => ReportsAdvance`.

`Matched` relates a runner that waits and its request. `Answered` carries the second:
a request about to answer 200 to a report has put the report into all five tables.
The seed route deletes only rows of demo agents, `Cleanup` only what is past the
retention, and a transaction that fails puts in nothing. `MemoryAgrees` needs only the
types: every action that changes a record changes its row or marks the agent.

`RowsNeverGoBack` rests on the lock of a registry object (`WritersLock`: who writes
through it holds it) and on the numbers of the reports (`Numbered`: no row, record or
call knows a report the agent has not made, and a call somebody waits for carries the
latest). `WritesAdvance` then says of a handler between its two writes that what it is
about to store is no older than the row, because memory and row agreed when it took
the lock.

Of the settings it proves, for any finite set of settings and any threads, updates and
faults:

* `SettingsInStep`: `Spec => []InStep`;
* `LoneUpdatesKeepTheRest`: `Spec => NothingLost`.

`update_settings` holds no lock from its copy to the end. What takes the lock's place
in the invariant is `Solitude`: a thread outside `together` is the only one busy. The
other parts say how far such an update has come: `CopyIsCurrent` until it replaces
the cache, `FileFollows` and `SwitchFollows` for what its last steps leave.

And of the custom filters, for any clients, changes and faults:

* `FiltersKept`: `Spec => []AnswersKept`.

Here `LockHeld` and `ReadIsCurrent` do the work: only the owner of the lock is past
it, and what it has read is what the answers so far promised.

And of the flow snapshots, for any threads and flows, any numbers of packets and
retries and any sizes of queue and batch:

* `FlowsAreNewest`: `FlowsSpec => []NewestIsStored`.

`NewestIsStored` speaks of a flow none of whose copies waits; the invariant says how
the copies of a flow are ordered meanwhile. From the oldest to the newest they are in
the table, in the batch, in the queue and in the hand of the flow's thread (`InOrder`,
`HandIsNewest`); those given up are older than what waits. So the last copy in a batch
is the one to write however often the batch is retried (`UpsertTakesNewest`), and
every copy taken is in the table, replaced, given up or waiting (`Settled`), while the
table holds no other (`Sourced`).

The proofs assume the named `ASSUME`s of their modules, which TLC evaluates in the
runs: finite sets of threads and categories, positive sizes, the shape of the
traffic, that the hash of a flow key is a function into the lanes (`HashAssumption`),
and that the value for "no record" is no record (`NoneAssumption`); the theorems on
the settings also that the settings are finitely many. They use nothing else.

Only model-checked, and why:

* Every liveness property: TLAPS does not do liveness under fairness.
* `ContextsSound` and `ListsSound` of `MCSessionViews`, and the properties of
  `History`: they compare what a reader was told with queries over two tables, computed by
  `FlowContext` in the same way.
* The runs that find a violation.

## What is left out, and why

* Time, except in `DetectionPipeline`, `IncidentCorrelation`, `AgentRegistry`,
  `LiveRingBuffer` and `History`, which have a clock. Elsewhere a timeout is a choice
  between the answer and the timeout; ages and intervals are choices too. This adds
  behaviours and removes none.
* Confidence, texts and the last hundred of each list of an incident; signals the
  incident engine refuses. Scores, and alerts after the first of a packet.
* Packet contents, redaction, parsing and scores. A packet is its endpoints where
  its lane matters, the fields a rule looks at in `FlowEngine`, `ServiceAttribution`
  and `FlowContext`, and a name elsewhere. Packets without an address or protocol,
  whose flow keys are not sorted, are left out of `FlowWorkerPool`.
* In `SnifferService` the stages are what `stop()` sees of them. `PacketQueue` and
  `FlowWorkerPool` have the detail. The pool is taken to have its workers.
* The event loop is taken to run. That it is gone, where `_publish_direct` puts
  directly or catches `RuntimeError`, is not modelled, nor is a handler that is
  cancelled. The server ends its connections before the lifespan handler goes on.
* The persistence in `History` loses a batch only to the switch and to a restart; its
  failures are in `BatchPersistence`, where the alerts of a unit are one event, a
  synchronous call with its retries is one step, and the switch stays on.
* A context or stream in `FlowContext` is computed from one moment; the code reads the
  packet, the packet rows and the alert rows one after the other. The cap of four
  processes in it is left out, and `FlowSnapshots` leaves out its `cleanup_history`,
  which nothing in the backend calls.
* `FlowSnapshots` is the service as `tests/test_flow_engine.py` builds it; a capture
  uses the flow service without storing and sends flows through `BatchPersistence`.
* In `History` a list's filter matches a whole field where the code matches part of a
  text, and most filters are left out: they select rows one by one. The asynchronous
  queries are the same as the others, with `aiosqlite`.
* Batches may overtake each other between the aggregator's lock and the event
  loop. The model has this; the code promises nothing about it, so no property
  mentions it.

Not modelled at all:

* Packet parsing, dissection and stream reassembly: functions of bytes.
* The rule engine, the machine-learning engine and scores: numbers from packets. The
  rule engine keeps windows like those of `DetectionPipeline` and ships without rules.
* Monitoring, audit, reports and exports read what the other parts hold and write
  files that nobody reads back.
* Offline analysis and traceroute are sequential tools over files and subprocesses.
* The HTTP boundary: request checks, and a rate limiter that is one locked section.
* Frontend, desktop shell, packaging and scripts.

## Order of the work, and what could follow

The order was by how much of the system depends on the part: the intake queue with
`LossyFifo`, the worker pool, the persistence, the aggregator and the bus over it,
the life cycle, incidents and detection; then the agents, the live session with its
views, the history, settings, filters and flow snapshots.

What could follow: proofs about `History`, beginning with its cache; a model of the
event loop that is gone.
