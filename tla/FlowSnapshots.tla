---------------------------- MODULE FlowSnapshots ---------------------------
(***************************************************************************)
(* FlowService (backend/app/services/flow_service.py) when it stores the   *)
(* flows itself: ingest() hands a copy of the flow to the table, directly  *)
(* or through _FlowSnapshotBatchWriter, whose thread gathers a batch,      *)
(* keeps the latest copy of each flow, writes them in one transaction and  *)
(* tries again a few times.  (A capture stores flows through               *)
(* BatchPersistence instead and calls ingest() with persist=False.)        *)
(*                                                                         *)
(* Each flow has one thread that ingests its packets, as the lanes of      *)
(* FlowWorkerPool see to it.  A flow and its copies are the number of the  *)
(* packets it ever had: reset() starts the engine's own count again, but   *)
(* reaches neither the queue nor the table, and an upsert replaces what    *)
(* the copies differ in.  Left out: the counters that stats() shows, and   *)
(* cleanup_history(), which no code of the backend calls.                  *)
(***************************************************************************)
EXTENDS Naturals, Sequences, Functions

CONSTANTS Ingesters,    \* threads that ingest
          OwnerOf,      \* the flows, with the thread of each
          MaxSize,      \* NETBOT_FLOW_PERSIST_QUEUE_MAX_SIZE
          BatchSize,    \* NETBOT_FLOW_PERSIST_BATCH_SIZE
          MaxRetries,   \* NETBOT_FLOW_PERSIST_MAX_RETRIES
          MaxPackets    \* bound: the packets of a flow

Flows == DOMAIN OwnerOf

VARIABLES batching,     \* batch_persistence
          packets,      \* per flow: its packets so far
          hand,         \* per thread: the copy it has not yet handed on, if any
          queue,        \* _queue
          writer,       \* where _run is, with its batch and the retries made
          stop,         \* _stop
          flowRows,     \* the table flows: the copy of each flow, 0 if it has none
          taken,        \* history: the copies the queue, or the table, was given
          early,        \* history: those given before close()
          lost          \* history: the copies of batches given up

flowVars == <<batching, packets, hand, queue, writer, stop, flowRows, taken, early, lost>>

FlowsInit ==
    /\ batching \in BOOLEAN
    /\ packets = [f \in Flows |-> 0] /\ hand = [i \in Ingesters |-> << >>]
    /\ queue = << >> /\ writer = [at |-> "check", rows |-> << >>, retries |-> 0]
    /\ stop = FALSE /\ flowRows = [f \in Flows |-> 0]
    /\ taken = {} /\ early = {} /\ lost = {}

-----------------------------------------------------------------------------
(* ingest *)

\* engine.ingest returns a copy.
Ingest(i, f) ==
    /\ hand[i] = << >> /\ OwnerOf[f] = i /\ packets[f] < MaxPackets
    /\ packets' = [packets EXCEPT ![f] = @ + 1]
    /\ hand' = [hand EXCEPT ![i] = <<[flow |-> f, packets |-> packets[f] + 1]>>]
    /\ UNCHANGED <<batching, queue, writer, stop, flowRows, taken, early, lost>>

Given(copy) == /\ taken' = taken \cup {copy}
               /\ early' = IF stop THEN early ELSE early \cup {copy}

\* enqueue(): a full queue refuses the copy.
Enqueue(i) ==
    /\ batching /\ hand[i] # << >> /\ hand' = [hand EXCEPT ![i] = << >>]
    /\ IF Len(queue) < MaxSize THEN queue' = queue \o hand[i] /\ Given(hand[i][1])
       ELSE UNCHANGED <<queue, taken, early>>
    /\ UNCHANGED <<batching, packets, writer, stop, flowRows, lost>>

\* Mutant: the first copy of each flow.
FirstOf(rows, f) == CHOOSE k \in DOMAIN rows :
    rows[k].flow = f /\ \A j \in 1 .. k - 1 : rows[j].flow # f
LatestOf(rows, f) == CHOOSE k \in DOMAIN rows :
    rows[k].flow = f /\ \A j \in k + 1 .. Len(rows) : rows[j].flow # f

\* _write_snapshots: one row for each flow, inserted or updated.
Upserted(rows) ==
    [f \in Flows |-> IF \E k \in DOMAIN rows : rows[k].flow = f
                     THEN rows[LatestOf(rows, f)].packets ELSE flowRows[f]]

\* Without a writer the thread writes, and a failure is raised to the caller of ingest().
WriteDirectly(i) ==
    /\ ~batching /\ hand[i] # << >> /\ hand' = [hand EXCEPT ![i] = << >>]
    /\ \/ flowRows' = Upserted(hand[i]) /\ Given(hand[i][1])
       \/ UNCHANGED <<flowRows, taken, early>>
    /\ UNCHANGED <<batching, packets, queue, writer, stop, lost>>

-----------------------------------------------------------------------------
(* The writer's thread *)

WriterGoes(step) == writer' = [writer EXCEPT !.at = step]

\* Mutant: the thread ends with the stop flag.
GoOnUntilStop == ~stop
GoOn == ~stop \/ queue # << >>

\* The condition of the loop.
Check ==
    /\ batching /\ writer.at = "check" /\ WriterGoes(IF GoOn THEN "wait" ELSE "ended")
    /\ UNCHANGED <<batching, packets, hand, queue, stop, flowRows, taken, early, lost>>

\* The first row of a batch, or nothing for half a second.
Wait ==
    /\ writer.at = "wait"
    /\ IF queue = << >> THEN WriterGoes("check") /\ UNCHANGED queue
       ELSE /\ writer' = [at |-> "gather", rows |-> <<Head(queue)>>, retries |-> 0]
            /\ queue' = Tail(queue)
    /\ UNCHANGED <<batching, packets, hand, stop, flowRows, taken, early, lost>>

\* More rows, until the batch is full or the time is over.
Gather ==
    /\ writer.at = "gather"
    /\ \/ /\ Len(writer.rows) < BatchSize /\ queue # << >>
          /\ writer' = [writer EXCEPT !.rows = Append(@, Head(queue))]
          /\ queue' = Tail(queue)
       \/ WriterGoes("write") /\ UNCHANGED queue
    /\ UNCHANGED <<batching, packets, hand, stop, flowRows, taken, early, lost>>

Done == writer' = [at |-> "check", rows |-> << >>, retries |-> 0]

WriteBatch ==
    /\ writer.at = "write" /\ Done
    /\ flowRows' = Upserted(writer.rows)
    /\ UNCHANGED <<batching, packets, hand, queue, stop, taken, early, lost>>

GiveUp == Done /\ lost' = lost \cup Range(writer.rows)

\* _write_with_retry: the transaction is undone; the last attempt, and any after close(), is
\* the end of the batch.
BatchFails ==
    /\ writer.at = "write"
    /\ IF writer.retries >= MaxRetries \/ stop THEN GiveUp
       ELSE /\ writer' = [writer EXCEPT !.at = "pause", !.retries = @ + 1]
            /\ UNCHANGED lost
    /\ UNCHANGED <<batching, packets, hand, queue, stop, flowRows, taken, early>>

\* _stop.wait(delay)
Pause ==
    /\ writer.at = "pause"
    /\ IF stop THEN GiveUp ELSE WriterGoes("write") /\ UNCHANGED lost
    /\ UNCHANGED <<batching, packets, hand, queue, stop, flowRows, taken, early>>

WriterStep == Check \/ Wait \/ Gather \/ WriteBatch \/ BatchFails \/ Pause

\* close() sets the flag and waits for the thread, five seconds at most.
Close ==
    /\ batching /\ ~stop /\ stop' = TRUE
    /\ UNCHANGED <<batching, packets, hand, queue, writer, flowRows, taken, early, lost>>

FlowsNext ==
    \/ \E i \in Ingesters : Enqueue(i) \/ WriteDirectly(i) \/ \E f \in Flows : Ingest(i, f)
    \/ WriterStep \/ Close

\* The thread of the writer runs as long as the process does.
FlowsSpec == FlowsInit /\ [][FlowsNext]_flowVars /\ WF_flowVars(WriterStep)

-----------------------------------------------------------------------------
(* Properties *)

Newest(f, copies) ==
    LET counts == {c.packets : c \in {d \in copies : d.flow = f}} \cup {0}
    IN  CHOOSE n \in counts : \A m \in counts : m <= n

\* Once its copies have left the queue and the writer, the row of a flow is the newest copy that
\* was taken and not given up with its batch: no older one is written over it, whatever is
\* gathered, coalesced, retried or given up.
NewestIsStored ==
    \A f \in Flows :
        (\A k \in DOMAIN queue : queue[k].flow # f)
        /\ (\A k \in DOMAIN writer.rows : writer.rows[k].flow # f)
        => flowRows[f] = Newest(f, taken \ lost)

\* Every copy taken before close() is stored, or replaced by a newer one, or given up with its
\* batch, in the end, and stays so.  (Packets being bounded, there is a last copy.)
Unsettled == {c \in early \ lost : flowRows[c.flow] < c.packets}
EarlyIsEventuallyStored == <>[](Unsettled = {})

=============================================================================
