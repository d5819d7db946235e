---------------------------- MODULE PacketQueue ----------------------------
(***************************************************************************)
(* BoundedPacketQueue (backend/app/services/packet_queue.py) between the   *)
(* capture threads, which call put() from SnifferService._on_packet, and   *)
(* the one packet worker of SnifferService, which gets, hands on and calls *)
(* task_done().  queue.Queue is internally locked, so each of its methods  *)
(* is one step; the counters have a lock of their own, so a put is several *)
(* steps and the other threads run between them.                           *)
(*                                                                         *)
(* Packet <<p, n>> is the n-th one capture thread p delivers.  There is    *)
(* one capture thread per live session; a second one exists while an       *)
(* earlier session is still shutting down.                                 *)
(***************************************************************************)
EXTENDS Naturals, Sequences, FiniteSets, Functions

CONSTANTS Producers,    \* capture threads
          MaxSize,      \* PACKET_QUEUE_MAX_SIZE, at least 1
          Policies,     \* the overflow policies to consider
          Offers        \* bound: packets one capture thread delivers

ASSUME ProducersAssumption == IsFiniteSet(Producers)
ASSUME MaxSizeAssumption == MaxSize \in Nat \ {0}
ASSUME PoliciesAssumption == Policies \subseteq {"drop_oldest", "drop_newest"}
ASSUME OffersAssumption == Offers \in Nat

Packet == Producers \X (1 .. Offers)
NoPacket == << >>

VARIABLES
    policy,         \* _overflow_policy, fixed at construction
    queue,          \* _queue: the packets waiting, oldest first
    unfinished,     \* _queue.unfinished_tasks
    accepted,       \* _accepted_packets
    droppedOldest,  \* _dropped_oldest
    droppedNewest,  \* _dropped_newest
    highWater,      \* _queue_high_water_mark
    pc,             \* where each capture thread is inside put()
    offered,        \* how many packets each capture thread has delivered
    worker,         \* where the packet worker is inside its loop
    held,           \* the item the worker took and has not finished
    stop,           \* _packet_worker_stop
    drained,        \* what the last wait_until_drained() answered
    taken,          \* history: the packets the worker took, in order
    handled,        \* history: the packets submitted or whose processing raised
    lost            \* history: the packets evicted or refused

counters == <<accepted, droppedOldest, droppedNewest, highWater>>
threads == <<pc, offered>>
consumer == <<worker, held, taken, handled>>
vars == <<policy, queue, unfinished, counters, threads, consumer, stop, drained, lost>>

\* The packet thread p is putting.
Mine(p) == <<p, offered[p]>>
Larger(m, n) == IF m > n THEN m ELSE n
Full == Len(queue) >= MaxSize

PutSteps == {"idle", "accept", "full", "evicted", "count", "retry", "refused"}
WorkerSteps == {"check", "get", "busy", "finish", "exited"}

\* Types, with the queue within PACKET_QUEUE_MAX_SIZE.
TypeOK ==
    /\ policy \in Policies
    /\ queue \in Seq(Packet) /\ Len(queue) <= MaxSize
    /\ unfinished \in Nat
    /\ accepted \in Nat /\ droppedOldest \in Nat /\ droppedNewest \in Nat
    /\ highWater \in 0 .. MaxSize
    /\ pc \in [Producers -> PutSteps]
    /\ offered \in [Producers -> 0 .. Offers]
    /\ worker \in WorkerSteps
    /\ held \in Packet \cup {NoPacket}
    /\ stop \in BOOLEAN
    /\ drained \in {"unknown", "yes", "no"}
    /\ taken \in Seq(Packet)
    /\ handled \subseteq Packet /\ lost \subseteq Packet

Init ==
    /\ policy \in Policies
    /\ queue = << >> /\ unfinished = 0
    /\ accepted = 0 /\ droppedOldest = 0 /\ droppedNewest = 0 /\ highWater = 0
    /\ pc = [p \in Producers |-> "idle"]
    /\ offered = [p \in Producers |-> 0]
    /\ worker = "check" /\ held = NoPacket
    /\ stop = FALSE /\ drained = "unknown"
    /\ taken = << >> /\ handled = {} /\ lost = {}

-----------------------------------------------------------------------------
(* put(): the capture thread's side. *)

EnqueueAtHead(x) == queue' = <<x>> \o queue /\ unfinished' = unfinished + 1
Enqueue(x) == queue' = Append(queue, x) /\ unfinished' = unfinished + 1

\* Where the second put_nowait and an empty get_nowait lead.
AfterRetry == "accept"
AfterRefusalSilent == "idle"
AfterRefusal == "refused"
AfterEmptyDone == "evicted"
AfterEmpty == "count"

\* put: put_nowait succeeds, or queue.Full sends the thread to _handle_overflow,
\* where drop_newest gives this packet up.
Put(p) ==
    /\ pc[p] = "idle" /\ offered[p] < Offers
    /\ offered' = [offered EXCEPT ![p] = @ + 1]
    /\ \/ /\ ~Full
          /\ Enqueue(<<p, offered[p] + 1>>)
          /\ pc' = [pc EXCEPT ![p] = "accept"]
          /\ UNCHANGED lost
       \/ /\ Full /\ policy = "drop_newest"
          /\ pc' = [pc EXCEPT ![p] = "refused"]
          /\ lost' = lost \cup {<<p, offered[p] + 1>>}
          /\ UNCHANGED <<queue, unfinished>>
       \/ /\ Full /\ policy = "drop_oldest"
          /\ pc' = [pc EXCEPT ![p] = "full"]
          /\ UNCHANGED <<queue, unfinished, lost>>
    /\ UNCHANGED <<policy, counters, consumer, stop, drained>>

\* _record_accepted, whose qsize() may already miss the packet just put.
RecordAccepted(p) ==
    /\ pc[p] = "accept"
    /\ accepted' = accepted + 1
    /\ highWater' = Larger(highWater, Len(queue))
    /\ pc' = [pc EXCEPT ![p] = "idle"]
    /\ UNCHANGED <<policy, queue, unfinished, droppedOldest, droppedNewest, offered,
                   consumer, stop, drained, lost>>

\* The newest packet was given up: by drop_newest, or because another thread
\* took the slot that drop_oldest had freed.
CountNewest(p) ==
    /\ pc[p] = "refused"
    /\ droppedNewest' = droppedNewest + 1
    /\ highWater' = Larger(highWater, Len(queue))
    /\ pc' = [pc EXCEPT ![p] = "idle"]
    /\ UNCHANGED <<policy, queue, unfinished, accepted, droppedOldest, offered,
                   consumer, stop, drained, lost>>

\* drop_oldest: get_nowait, which finds nothing if the worker was faster.
EvictOldest(p) ==
    /\ pc[p] = "full"
    /\ \/ /\ queue # << >>
          /\ queue' = Tail(queue)
          /\ lost' = lost \cup {Head(queue)}
          /\ pc' = [pc EXCEPT ![p] = "evicted"]
       \/ /\ queue = << >>
          /\ pc' = [pc EXCEPT ![p] = AfterEmpty]
          /\ UNCHANGED <<queue, lost>>
    /\ UNCHANGED <<policy, unfinished, counters, offered, consumer, stop, drained>>

EvictedDone(p) ==
    /\ pc[p] = "evicted"
    /\ unfinished' = unfinished - 1
    /\ pc' = [pc EXCEPT ![p] = "count"]
    /\ UNCHANGED <<policy, queue, counters, offered, consumer, stop, drained, lost>>

\* The drop is counted whether or not get_nowait found a packet.
CountOldest(p) ==
    /\ pc[p] = "count"
    /\ droppedOldest' = droppedOldest + 1
    /\ pc' = [pc EXCEPT ![p] = "retry"]
    /\ UNCHANGED <<policy, queue, unfinished, accepted, droppedNewest, highWater, offered,
                   consumer, stop, drained, lost>>

\* The second put_nowait, which is the last attempt.
PutAgain(p) ==
    /\ pc[p] = "retry"
    /\ \/ /\ ~Full
          /\ Enqueue(Mine(p))
          /\ pc' = [pc EXCEPT ![p] = AfterRetry]
          /\ UNCHANGED lost
       \/ /\ Full
          /\ lost' = lost \cup {Mine(p)}
          /\ pc' = [pc EXCEPT ![p] = AfterRefusal]
          /\ UNCHANGED <<queue, unfinished>>
    /\ UNCHANGED <<policy, counters, offered, consumer, stop, drained>>

PutStep(p) == \/ RecordAccepted(p) \/ CountNewest(p) \/ EvictOldest(p)
              \/ EvictedDone(p) \/ CountOldest(p) \/ PutAgain(p)

-----------------------------------------------------------------------------
(* SnifferService._packet_worker_loop and close(). *)

\* while not stop or not empty: stop is read first, then empty().
GoOnUntilStop == ~stop
GoOn == ~stop \/ queue # << >>
WorkerCheck ==
    /\ worker = "check"
    /\ worker' = IF GoOn THEN "get" ELSE "exited"
    /\ UNCHANGED <<policy, queue, unfinished, counters, threads, held, taken, handled,
                   stop, drained, lost>>

\* get(timeout=0.1): a packet, or queue.Empty and back to the loop's head.
WorkerGet ==
    /\ worker = "get"
    /\ \/ /\ queue # << >>
          /\ held' = Head(queue)
          /\ taken' = Append(taken, Head(queue))
          /\ queue' = Tail(queue)
          /\ worker' = "busy"
       \/ /\ queue = << >>
          /\ worker' = "check"
          /\ UNCHANGED <<queue, held, taken>>
    /\ UNCHANGED <<policy, unfinished, counters, threads, handled, stop, drained, lost>>

\* submit() to the worker pool or _process_packet(); an exception is logged
\* and swallowed, so either way the loop goes on to task_done().
WorkerHandle ==
    /\ worker = "busy"
    /\ handled' = handled \cup {held}
    /\ worker' = "finish"
    /\ UNCHANGED <<policy, queue, unfinished, counters, threads, held, taken,
                   stop, drained, lost>>

WorkerFinish ==
    /\ worker = "finish"
    /\ unfinished' = unfinished - 1
    /\ held' = NoPacket
    /\ worker' = "check"
    /\ UNCHANGED <<policy, queue, counters, threads, taken, handled, stop, drained, lost>>

WorkerStep == WorkerCheck \/ WorkerGet \/ WorkerHandle \/ WorkerFinish

\* wait_until_drained polls unfinished_tasks until it is 0 or the time is up.
Drain ==
    /\ \/ unfinished = 0 /\ drained' = "yes"
       \/ unfinished # 0 /\ drained' = "no"
    /\ UNCHANGED <<policy, queue, unfinished, counters, threads, consumer, stop, lost>>

\* close() sets the stop flag after it drained, whatever the drain answered.
RequestStop ==
    /\ ~stop /\ drained # "unknown"
    /\ stop' = TRUE
    /\ UNCHANGED <<policy, queue, unfinished, counters, threads, consumer, drained, lost>>

Next == \/ \E p \in Producers : Put(p) \/ PutStep(p)
        \/ WorkerStep
        \/ Drain
        \/ RequestStop

\* The threads are scheduled by the operating system and take no lock for longer
\* than a step; nothing obliges the network to deliver a packet.
Fairness == /\ WF_vars(WorkerStep)
            /\ \A p \in Producers : WF_vars(PutStep(p))

Spec == Init /\ [][Next]_vars
FairSpec == Spec /\ Fairness

-----------------------------------------------------------------------------
(* Properties. *)

InStep(steps) == {p \in Producers : pc[p] \in steps}

\* The worker has a packet it has taken and not reported done.
Working == worker \in {"busy", "finish"}

\* When wait_until_drained answers True no packet is queued or in the worker's
\* hands: every packet the worker took has been handed on.  SnifferService.stop
\* and close rely on it before they report the stopped state or close the pool.
DrainedMeansHandled ==
    unfinished = 0 => /\ queue = << >>
                      /\ ~Working
                      /\ Range(taken) \subseteq handled

\* No drop is silent: the counters are behind the packets really given up by at
\* most the drops whose thread has not reached its counter yet.
NoSilentDrop ==
    Cardinality(lost) <= droppedOldest + droppedNewest
                            + Cardinality(InStep({"evicted", "count", "refused"}))

\* Every put() that has returned is counted exactly once, as accepted or as a
\* dropped newest packet, whichever way it went through the overflow.
PutCountedOnce ==
    Cardinality({x \in Packet : x[2] <= offered[x[1]]})
        = accepted + droppedNewest + Cardinality(InStep(PutSteps \ {"idle"}))

\* The books of the intake queue balance: no packet is lost without being counted, and
\* no put() is counted twice or not at all.
PutsAccounted == TypeOK /\ NoSilentDrop /\ PutCountedOnce

\* The queue implements the lossy FIFO: once, in order, lost only at an end.
LossyChannel == INSTANCE LossyFifo WITH Item <- Packet, channel <- queue
ImplementsLossyFifo == LossyChannel!Spec

\* A packet that is queued before the stop flag is set is eventually handed on
\* or given up: the worker never leaves its loop, or waits for ever, with it
\* still queued.
QueuedIsEventuallyHandled ==
    \A x \in Packet :
        (x \in Range(queue) /\ ~stop) ~> (x \in handled \cup lost)
=============================================================================
