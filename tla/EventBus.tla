------------------------------ MODULE EventBus ------------------------------
(***************************************************************************)
(* EventBus (backend/app/services/event_bus.py) fans the batches of the    *)
(* EventAggregator out to the websocket clients (main.py, ws_events).  The *)
(* thread that emits takes a snapshot of the subscribers and asks the      *)
(* event loop, once per subscriber, to run _safe_put; the loop runs those  *)
(* callbacks in order, between the steps of the websocket handlers.        *)
(*                                                                         *)
(* A client is one connection.  The end of the event loop, and with it the *)
(* call_soon_threadsafe that raises, is left out, and so are latencies.    *)
(***************************************************************************)
EXTENDS EventAggregator

CONSTANTS Clients,          \* websocket connections
          ClientQueueMax,   \* NETBOT_WS_CLIENT_QUEUE_MAX
          SlowPolicies      \* the values of NETBOT_WS_SLOW_CLIENT_POLICY to consider

ASSUME ClientsAssumption == IsFiniteSet(Clients)
ASSUME ClientQueueAssumption == ClientQueueMax \in Nat \ {0}
ASSUME SlowPoliciesAssumption == SlowPolicies \subseteq {"coalesce", "drop_oldest", "drop_newest"}

NoBatch == << >>
Batches == Seq(Event)

VARIABLES
    slowPolicy,     \* slow_client_policy
    connection,     \* where each websocket handler is
    subscribers,    \* _subscribers
    fanout,         \* emissions under way, and the subscribers still to be asked for
    ready,          \* the _safe_put callbacks the event loop has not run, in order
    clientQueue,    \* per client, its asyncio queue
    sending,        \* per client, the batch its handler is sending
    published, slowClients, droppedMessages, droppedForSlow, coalescedForSlow,
    addressed,      \* history, per client: the batches published while it subscribed
    delivered,      \* history, per client: the batches sent, in order
    lost            \* history, per client: the batches its queue evicted or refused

busCounters == <<published, slowClients, droppedMessages, droppedForSlow, coalescedForSlow>>
handlers == <<connection, clientQueue, sending, delivered>>
busVars == <<slowPolicy, subscribers, fanout, ready, handlers, busCounters, addressed, lost>>
allVars == <<vars, busVars>>

\* Types, with every client queue within NETBOT_WS_CLIENT_QUEUE_MAX.
BusTypeOK ==
    /\ TypeOK
    /\ slowPolicy \in SlowPolicies
    /\ connection \in [Clients -> {"away", "waiting", "sending", "gone"}]
    /\ subscribers \subseteq Clients
    /\ fanout \subseteq [emission : emitting, to : (SUBSET Clients) \ {{}}]
    /\ ready \in Seq([to : Clients, batch : Batches])
    /\ clientQueue \in [Clients -> Seq(Batches)]
    /\ \A c \in Clients : Len(clientQueue[c]) <= ClientQueueMax
    /\ sending \in [Clients -> Batches] /\ delivered \in [Clients -> Seq(Batches)]
    /\ addressed \in [Clients -> SUBSET Batches] /\ lost \in [Clients -> SUBSET Batches]
    /\ {published, slowClients, droppedMessages, droppedForSlow, coalescedForSlow} \subseteq Nat

BusInit ==
    /\ Init
    /\ slowPolicy \in SlowPolicies
    /\ connection = [c \in Clients |-> "away"] /\ subscribers = {}
    /\ fanout = {} /\ ready = << >>
    /\ clientQueue = [c \in Clients |-> << >>] /\ sending = [c \in Clients |-> NoBatch]
    /\ published = 0 /\ slowClients = 0 /\ droppedMessages = 0
    /\ droppedForSlow = 0 /\ coalescedForSlow = 0
    /\ addressed = [c \in Clients |-> {}] /\ delivered = [c \in Clients |-> << >>]
    /\ lost = [c \in Clients |-> {}]

-----------------------------------------------------------------------------
(* _publish_direct, the aggregator's emit callback. *)

\* emit returns after the last subscriber; until then f is under way.
Proceed(f, others) ==
    IF f.to = {} THEN Emitted(f.emission) /\ fanout' = others
                 ELSE UNCHANGED emitting /\ fanout' = others \cup {f}

\* The locked section: the subscribers of this moment get the batch.
FanoutBegin ==
    /\ \E e \in emitting \ {f.emission : f \in fanout} :
           /\ Proceed([emission |-> e, to |-> subscribers], fanout)
           /\ addressed' = [c \in Clients |-> addressed[c] \cup
                                IF c \in subscribers THEN {e.events} ELSE {}]
    /\ published' = published + 1
    /\ UNCHANGED <<script, buffers, publishing, closing, counters, slowPolicy, subscribers, ready,
                   handlers, slowClients, droppedMessages, droppedForSlow, coalescedForSlow, lost>>

\* call_soon_threadsafe for one subscriber, in the order of the dictionary, which
\* is left open.
FanoutStep ==
    /\ \E f \in fanout : \E c \in f.to :
           /\ ready' = Append(ready, [to |-> c, batch |-> f.emission.events])
           /\ Proceed([f EXCEPT !.to = @ \ {c}], fanout \ {f})
    /\ UNCHANGED <<script, buffers, publishing, closing, counters, slowPolicy, subscribers,
                   handlers, busCounters, addressed, lost>>

-----------------------------------------------------------------------------
(* The event loop: the callbacks and the websocket handlers. *)

QueueFull(c) == Len(clientQueue[c]) >= ClientQueueMax
EvictOnly(q, b) == Tail(q)
EvictAndPut(q, b) == Append(Tail(q), b)
CountMessage == 1

\* _safe_put and _handle_full_queue.  No handler runs in between, so the second
\* put_nowait finds the slot that get_nowait freed.
SafePut ==
    /\ ready # << >> /\ ready' = Tail(ready)
    /\ LET c == Head(ready).to
           b == Head(ready).batch
       IN  \/ /\ ~QueueFull(c)
              /\ clientQueue' = [clientQueue EXCEPT ![c] = Append(@, b)]
              /\ UNCHANGED <<lost, slowClients, droppedMessages, droppedForSlow,
                             coalescedForSlow, eventsCoalesced, eventsDropped>>
           \/ /\ QueueFull(c)
              /\ slowClients' = slowClients + 1 /\ droppedMessages' = droppedMessages + CountMessage
              /\ IF slowPolicy = "drop_newest"
                 THEN /\ lost' = [lost EXCEPT ![c] = @ \cup {b}]
                      /\ UNCHANGED clientQueue
                 ELSE /\ clientQueue' = [clientQueue EXCEPT ![c] = EvictAndPut(@, b)]
                      /\ lost' = [lost EXCEPT ![c] = @ \cup {Head(clientQueue[c])}]
              /\ IF slowPolicy = "coalesce"
                 THEN /\ coalescedForSlow' = coalescedForSlow + 1
                      /\ eventsCoalesced' = eventsCoalesced + 1
                      /\ UNCHANGED <<droppedForSlow, eventsDropped>>
                 ELSE /\ droppedForSlow' = droppedForSlow + 1
                      /\ eventsDropped' = eventsDropped + 1
                      /\ UNCHANGED <<coalescedForSlow, eventsCoalesced>>
    /\ UNCHANGED <<script, buffers, publishing, closing, emitting, eventsReceived, eventsSent,
                   slowPolicy, connection, sending, delivered, subscribers, fanout, published,
                   addressed>>

\* ws_events subscribes, greets the client and waits for the first batch.
Connect(c) ==
    /\ connection[c] = "away"
    /\ connection' = [connection EXCEPT ![c] = "waiting"]
    /\ subscribers' = subscribers \cup {c}
    /\ UNCHANGED <<vars, slowPolicy, fanout, ready, clientQueue, sending, delivered,
                   busCounters, addressed, lost>>

HandlerGet(c) ==
    /\ connection[c] = "waiting" /\ clientQueue[c] # << >>
    /\ connection' = [connection EXCEPT ![c] = "sending"]
    /\ sending' = [sending EXCEPT ![c] = Head(clientQueue[c])]
    /\ clientQueue' = [clientQueue EXCEPT ![c] = Tail(@)]
    /\ UNCHANGED <<vars, slowPolicy, subscribers, fanout, ready, delivered, busCounters,
                   addressed, lost>>

\* send_json returns, or raises and the handler unsubscribes on its way out.
HandlerSend(c) ==
    /\ connection[c] = "sending"
    /\ sending' = [sending EXCEPT ![c] = NoBatch]
    /\ \/ /\ connection' = [connection EXCEPT ![c] = "waiting"]
          /\ delivered' = [delivered EXCEPT ![c] = Append(@, sending[c])]
          /\ UNCHANGED subscribers
       \/ /\ connection' = [connection EXCEPT ![c] = "gone"]
          /\ subscribers' = subscribers \ {c}
          /\ UNCHANGED delivered
    /\ UNCHANGED <<vars, slowPolicy, fanout, ready, clientQueue, busCounters, addressed, lost>>

Handler(c) == HandlerGet(c) \/ HandlerSend(c)

BusStep == \/ FanoutBegin \/ FanoutStep \/ SafePut
           \/ \E c \in Clients : Connect(c) \/ Handler(c)
BusNext == (AggregatorStep /\ UNCHANGED busVars) \/ BusStep

\* Threads and the event loop are scheduled, timers fire, and a send ends; nobody
\* is obliged to publish, to connect or to shut down.
Fairness == /\ \A p \in Publishers : WF_allVars(PublishStep(p) /\ UNCHANGED busVars)
            /\ \A c \in Categories : WF_allVars((Ring(c) \/ TimerFlush(c)) /\ UNCHANGED busVars)
            /\ WF_allVars(CloseFlush /\ UNCHANGED busVars)
            /\ WF_allVars(FanoutBegin \/ FanoutStep) /\ WF_allVars(SafePut)
            /\ \A c \in Clients : WF_allVars(Handler(c))

BusSpec == BusInit /\ [][BusNext]_allVars
FairSpec == BusSpec /\ Fairness

-----------------------------------------------------------------------------
(* Properties. *)

AtStep(step) == {p \in Publishers : pc[p] = step}
Directs == {x \in Publishers \X (1 .. Events) :
                x[2] <= sent[x[1]] /\ script[x[1]][x[2]] = "direct"}

\* The positions of the events that wait in a buffer.
Places == UNION {{c} \X DOMAIN buffer[c] : c \in Categories}

\* Every event received is in one place: still with its publisher, in a buffer, sent
\* in a batch, overwritten by a later summary, or one of those emitted directly.  The
\* total of coalesced events also counts the batches evicted from slow clients.
EventsConserved ==
    eventsReceived + coalescedForSlow =
        eventsSent + eventsCoalesced
          + Cardinality(Places) + Cardinality(AtStep("append")) + Cardinality(Directs)

OnTheWay(c) == Cardinality({f \in fanout : c \in f.to})
                 + Cardinality({i \in DOMAIN ready : ready[i].to = c})

\* A client gets every batch published since it subscribed exactly once, unless its
\* queue lost it or its connection broke.
DeliveredOnce == \A c \in Clients : connection[c] # "gone" =>
    Cardinality(addressed[c]) = Len(delivered[c]) + Len(clientQueue[c]) + OnTheWay(c)
                                  + Cardinality(lost[c])
                                  + (IF connection[c] = "sending" THEN 1 ELSE 0)

\* The counters show every batch a slow client lost, each of them once.
LossesCounted ==
    /\ Cardinality(UNION {{c} \X lost[c] : c \in Clients}) = droppedMessages
    /\ droppedForSlow + coalescedForSlow = droppedMessages

\* From publish to the websocket every event is in one place, delivered once, or counted.
DeliveryAccounted == BusTypeOK /\ EventsConserved /\ DeliveredOnce /\ LossesCounted

\* A buffer in which an event waits is eventually emptied; every flush takes all of
\* it, so no event waits for ever.
EventuallyFlushed == \A c \in Categories : buffer[c] # << >> ~> buffer[c] = << >>

\* docs/PERFORMANCE_PIPELINE.md: shutdown flushes pending aggregated events and
\* cancels pending batch timers.
ShutdownFlushes ==
    (closer = "closed" /\ sent[Lifespan] = Len(script[Lifespan]) /\ pc[Lifespan] = "idle")
        => \A c \in Categories : buffer[c] = << >> /\ timer[c] = "none"
=============================================================================
