--------------------------- MODULE SnifferService ---------------------------
(***************************************************************************)
(* The life of a capture: SnifferService.start, stop and close             *)
(* (backend/app/services/sniffer_service.py), called by API requests and   *)
(* by the lifespan handler, the NetSniffer session each start() opens in a *)
(* thread of its own (core/netbotpro_sniffer_core/runtime.py), and the two *)
(* stages of the pipeline that stop() drains.                              *)
(*                                                                         *)
(* start() holds the service's lock while it waits for that thread, at     *)
(* most CAPTURE_START_TIMEOUT_SEC; the thread itself may hang, and may     *)
(* open its session long after start() gave up.  The stages are abstract:  *)
(* PacketQueue and FlowWorkerPool model them; the pool has its workers.    *)
(* What is published and what close() asks of the persistence are in       *)
(* EventBus and BatchPersistence.                                          *)
(*                                                                         *)
(* Session s is the s-th one; packet <<s, i>> the i-th it delivers.        *)
(***************************************************************************)
EXTENDS Naturals, Sequences, FiniteSets

CONSTANTS Requests,     \* threads that serve start and stop requests
          Lifespan,     \* the thread that closes the service
          Sessions,     \* bound: how many sessions are opened
          Packets,      \* bound: packets one session delivers
          IntakeMax,    \* PACKET_QUEUE_MAX_SIZE
          Calls         \* bound: calls that are made

\* No thread is called 0, which stands for nobody.
ASSUME ThreadsAssumption == IsFiniteSet(Requests) /\ 0 \notin Requests \cup {Lifespan}
ASSUME BoundsAssumption == Sessions \in Nat /\ Packets \in Nat /\ Calls \in Nat
ASSUME IntakeAssumption == IntakeMax \in Nat \ {0}

Threads == Requests \cup {Lifespan}
Session == 1 .. Sessions
Packet == Session \X (1 .. Packets)
None == 0
NoPacket == << >>

VARIABLES
    lock,       \* which start() holds _lock; the other holders never wait
    engine,     \* _engine
    pc,         \* where each thread is
    mine,       \* the session a thread is starting or stopping
    calls,      \* how many calls have been made
    joined,     \* per thread: the sniff loop it stopped had ended
    drained,    \* per thread: what drain_packet_queue answered
    opened,     \* how many sessions have been opened
    runner,     \* per session: where the thread that opens it is
    run,        \* per session: NetSniffer._running and not _stop_event
    looping,    \* per session: its sniff loop is alive
    calling,    \* per session: the packet in its callback
    delivered,  \* per session: how many packets it has delivered
    intake, held,       \* the packet queue, and what the packet worker holds
    worker,             \* the packet worker has not left its loop
    stopWorker,         \* _packet_worker_stop
    pool,               \* the packets in the flow workers' lanes
    accepting,          \* the worker pool's _accepting
    abandoned,  \* history: the sessions whose start() gave up
    processed, lost     \* history: packets processed; evicted, refused or rejected

requests == <<lock, engine, pc, mine, calls, joined, drained, abandoned>>
sessions == <<opened, runner, run, looping, calling, delivered>>
pipeline == <<intake, held, worker, stopWorker, pool, accepting, processed, lost>>
vars == <<requests, sessions, pipeline>>

Steps == {"idle", "start", "startWait", "started", "stop", "signal", "join", "drainIntake",
          "drainPool", "stopped", "close", "closed"}

\* Types.
TypeOK ==
    /\ lock \in Threads \cup {None} /\ engine \in Session \cup {None}
    /\ pc \in [Threads -> Steps] /\ mine \in [Threads -> Session \cup {None}]
    /\ calls \in 0 .. Calls
    /\ joined \in [Threads -> BOOLEAN] /\ drained \in [Threads -> BOOLEAN]
    /\ opened \in 0 .. Sessions
    /\ runner \in [Session -> {"none", "creating", "live", "done", "failed"}]
    /\ run \in [Session -> BOOLEAN] /\ looping \in [Session -> BOOLEAN]
    /\ calling \in [Session -> Packet \cup {NoPacket}]
    /\ delivered \in [Session -> 0 .. Packets]
    /\ intake \in Seq(Packet) /\ Len(intake) <= IntakeMax
    /\ held \in Packet \cup {NoPacket}
    /\ worker \in BOOLEAN /\ stopWorker \in BOOLEAN /\ accepting \in BOOLEAN
    /\ abandoned \subseteq Session
    /\ pool \subseteq Packet /\ processed \subseteq Packet /\ lost \subseteq Packet

Init ==
    /\ lock = None /\ engine = None
    /\ pc = [t \in Threads |-> "idle"] /\ mine = [t \in Threads |-> None]
    /\ calls = 0
    /\ joined = [t \in Threads |-> FALSE] /\ drained = [t \in Threads |-> FALSE]
    /\ opened = 0 /\ runner = [s \in Session |-> "none"]
    /\ run = [s \in Session |-> FALSE] /\ looping = [s \in Session |-> FALSE]
    /\ calling = [s \in Session |-> NoPacket] /\ delivered = [s \in Session |-> 0]
    /\ intake = << >> /\ held = NoPacket /\ worker = TRUE /\ stopWorker = FALSE
    /\ pool = {} /\ accepting = TRUE
    /\ abandoned = {} /\ processed = {} /\ lost = {}

Goto(t, step) == pc' = [pc EXCEPT ![t] = step]
Return(t) == /\ Goto(t, "idle") /\ mine' = [mine EXCEPT ![t] = None]
             /\ joined' = [joined EXCEPT ![t] = FALSE] /\ drained' = [drained EXCEPT ![t] = FALSE]

-----------------------------------------------------------------------------
(* start() *)

\* The server ends its requests before it lets the lifespan handler close the service.
Call(t) ==
    /\ calls < Calls /\ calls' = calls + 1
    /\ pc[t] = "idle" /\ pc[Lifespan] = "idle"
    /\ \/ t # Lifespan /\ Goto(t, "start")
       \/ t # Lifespan /\ Goto(t, "stop")
       \/ t = Lifespan /\ (\A u \in Requests : pc[u] = "idle") /\ Goto(t, "stop")
    /\ UNCHANGED <<lock, engine, mine, joined, drained, abandoned, sessions, pipeline>>

\* Who holds the lock while the session opens.
HeldByNobody(t) == None
HeldByStart(t) == t
StartEnter(t) ==
    /\ pc[t] = "start" /\ lock = None
    /\ \/ /\ engine # None              \* already running
          /\ Goto(t, "started")
          /\ UNCHANGED <<lock, mine, opened, runner>>
       \/ /\ engine = None              \* the preflight or the interface is refused
          /\ Goto(t, "idle")
          /\ UNCHANGED <<lock, mine, opened, runner>>
       \/ /\ engine = None /\ opened < Sessions
          /\ opened' = opened + 1
          /\ runner' = [runner EXCEPT ![opened + 1] = "creating"]
          /\ mine' = [mine EXCEPT ![t] = opened + 1]
          /\ lock' = HeldByStart(t)
          /\ Goto(t, "startWait")
    /\ UNCHANGED <<engine, calls, joined, drained, abandoned, run, looping, calling, delivered,
                   pipeline>>

\* worker.join ends with a session, with an exception, or with the time up while
\* the thread is alive; only the first is kept.
Release(t) == lock' = IF lock = t THEN None ELSE lock
StartSucceeds(t) ==
    /\ pc[t] = "startWait" /\ runner[mine[t]] = "done"
    /\ engine' = mine[t]
    /\ Release(t) /\ Goto(t, "started")
    /\ UNCHANGED <<mine, calls, joined, drained, abandoned, sessions, pipeline>>

JoinEnded(s) == runner[s] = "failed"
JoinEnds(s) == runner[s] \in {"failed", "creating", "live"}
StartGivesUp(t) ==
    /\ pc[t] = "startWait" /\ JoinEnds(mine[t])
    /\ abandoned' = abandoned \cup {mine[t]}
    /\ Release(t) /\ Return(t)
    /\ UNCHANGED <<engine, calls, sessions, pipeline>>

\* get_state and the event that tells the clients.
Started(t) ==
    /\ pc[t] = "started" /\ lock = None
    /\ Return(t)
    /\ UNCHANGED <<lock, engine, calls, abandoned, sessions, pipeline>>

-----------------------------------------------------------------------------
(* stop() and close() *)

StopTakes(t) ==
    /\ pc[t] = "stop" /\ lock = None
    /\ mine' = [mine EXCEPT ![t] = engine]
    /\ engine' = None
    /\ joined' = [joined EXCEPT ![t] = engine = None]
    /\ Goto(t, IF engine = None THEN "drainIntake" ELSE "signal")
    /\ UNCHANGED <<lock, calls, drained, abandoned, sessions, pipeline>>

\* NetSniffer.stop: the flag, then a join of the sniff loop that may time out.
StopSignals(t) ==
    /\ pc[t] = "signal"
    /\ run' = [run EXCEPT ![mine[t]] = FALSE]
    /\ Goto(t, "join")
    /\ UNCHANGED <<lock, engine, mine, calls, joined, drained, abandoned, opened, runner, looping,
                   calling, delivered, pipeline>>
StopJoins(t) ==
    /\ pc[t] = "join"
    /\ joined' = [joined EXCEPT ![t] = ~looping[mine[t]]]
    /\ Goto(t, "drainIntake")
    /\ UNCHANGED <<lock, engine, mine, calls, drained, abandoned, sessions, pipeline>>

\* drain_packet_queue: the intake queue, then the worker pool, each until nothing is
\* unfinished or the time is up.
PoolIdle == pool = {}
IntakeEmpty == intake = << >>
IntakeIdle == IntakeEmpty /\ held = NoPacket
DrainIntake(t) ==
    /\ pc[t] = "drainIntake"
    /\ drained' = [drained EXCEPT ![t] = IntakeIdle]
    /\ Goto(t, "drainPool")
    /\ UNCHANGED <<lock, engine, mine, calls, joined, abandoned, sessions, pipeline>>
DrainPool(t) ==
    /\ pc[t] = "drainPool"
    /\ drained' = [drained EXCEPT ![t] = @ /\ PoolIdle]
    /\ Goto(t, "stopped")
    /\ UNCHANGED <<lock, engine, mine, calls, joined, abandoned, sessions, pipeline>>

\* get_state and the event that tells the clients.  close() goes on: it drains once
\* more, whatever that answers, and tells the packet worker to stop.
Stopped(t) ==
    /\ pc[t] = "stopped" /\ lock = None
    /\ IF t = Lifespan
       THEN Goto(t, "close") /\ stopWorker' = TRUE /\ UNCHANGED <<mine, joined, drained>>
       ELSE Return(t) /\ UNCHANGED stopWorker
    /\ UNCHANGED <<lock, engine, calls, abandoned, sessions, intake, held, worker, pool, accepting,
                   processed, lost>>

\* The worker is given a second to leave before the pool stops accepting.
ClosePool(t) ==
    /\ pc[t] = "close"
    /\ accepting' = FALSE
    /\ Goto(t, "closed")
    /\ UNCHANGED <<lock, engine, mine, calls, joined, drained, abandoned, sessions, intake, held,
                   worker, stopWorker, pool, processed, lost>>

CallStep(t) == \/ StartEnter(t) \/ StartSucceeds(t) \/ StartGivesUp(t) \/ Started(t)
               \/ StopTakes(t) \/ StopSignals(t) \/ StopJoins(t) \/ DrainIntake(t)
               \/ DrainPool(t) \/ Stopped(t) \/ ClosePool(t)

-----------------------------------------------------------------------------
(* The thread that opens session s, and the session's sniff loop. *)

\* create_session and engine.start, either of which may raise.
RunnerOpens(s) ==
    /\ runner[s] = "creating"
    /\ \/ /\ runner' = [runner EXCEPT ![s] = "live"]
          /\ run' = [run EXCEPT ![s] = TRUE] /\ looping' = [looping EXCEPT ![s] = TRUE]
       \/ /\ runner' = [runner EXCEPT ![s] = "failed"]
          /\ UNCHANGED <<run, looping>>
    /\ UNCHANGED <<requests, opened, calling, delivered, pipeline>>

\* describe_interface may raise with the session running.
RunnerEnds(s) ==
    /\ runner[s] = "live"
    /\ \E end \in {"done", "failed"} : runner' = [runner EXCEPT ![s] = end]
    /\ UNCHANGED <<requests, opened, run, looping, calling, delivered, pipeline>>

\* _handle_packet: the run flag is read before the packet goes to _on_packet.
Callback(s) ==
    /\ looping[s] /\ run[s] /\ calling[s] = NoPacket /\ delivered[s] < Packets
    /\ delivered' = [delivered EXCEPT ![s] = @ + 1]
    /\ calling' = [calling EXCEPT ![s] = <<s, delivered[s] + 1>>]
    /\ UNCHANGED <<requests, opened, runner, run, looping, pipeline>>

\* put(): accepted, or a packet is lost to the overflow policy.
IntakeFull == Len(intake) >= IntakeMax
CallbackPut(s) ==
    /\ calling[s] # NoPacket
    /\ \/ /\ ~IntakeFull
          /\ intake' = Append(intake, calling[s])
          /\ UNCHANGED lost
       \/ /\ IntakeFull
          /\ \/ lost' = lost \cup {calling[s]} /\ UNCHANGED intake
             \/ /\ intake' = Append(Tail(intake), calling[s])
                /\ lost' = lost \cup {Head(intake)}
    /\ calling' = [calling EXCEPT ![s] = NoPacket]
    /\ UNCHANGED <<requests, opened, runner, run, looping, delivered, held, worker, stopWorker,
                   pool, accepting, processed>>

\* The loop ends when it is told to, or by an exception of the capture library; the
\* service goes on reporting the session as running then.
LoopEnds(s) ==
    /\ looping[s] /\ calling[s] = NoPacket
    /\ looping' = [looping EXCEPT ![s] = FALSE]
    /\ run' = [run EXCEPT ![s] = FALSE]
    /\ UNCHANGED <<requests, opened, runner, calling, delivered, pipeline>>

SessionStep(s) == RunnerOpens(s) \/ RunnerEnds(s) \/ Callback(s) \/ CallbackPut(s) \/ LoopEnds(s)

-----------------------------------------------------------------------------
(* The packet worker and the flow workers. *)

\* The loop's test and the get(), which may time out, are one step: nobody else takes
\* from the queue but an eviction, and then the worker tests again.
WorkerGet ==
    /\ worker /\ held = NoPacket
    /\ \/ /\ intake # << >>
          /\ held' = Head(intake) /\ intake' = Tail(intake) /\ UNCHANGED worker
       \/ /\ intake = << >> /\ stopWorker
          /\ worker' = FALSE /\ UNCHANGED <<held, intake>>
    /\ UNCHANGED <<requests, sessions, stopWorker, pool, accepting, processed, lost>>

\* submit() puts the packet on its lane, where an older one may have to make room, or
\* drops or rejects it; then task_done().
WorkerSubmit ==
    /\ held # NoPacket /\ held' = NoPacket
    /\ \/ /\ accepting
          /\ \E evicted \in SUBSET pool :
                 /\ Cardinality(evicted) <= 1
                 /\ pool' = (pool \ evicted) \cup {held}
                 /\ lost' = lost \cup evicted
       \/ lost' = lost \cup {held} /\ UNCHANGED pool
    /\ UNCHANGED <<requests, sessions, intake, worker, stopWorker, accepting, processed>>

\* _process_packet takes the lock for the packet's id, and waits for a start().
Process ==
    /\ lock = None
    /\ \E x \in pool : pool' = pool \ {x} /\ processed' = processed \cup {x}
    /\ UNCHANGED <<requests, sessions, intake, held, worker, stopWorker, accepting, lost>>

Next == \/ \E t \in Threads : Call(t) \/ CallStep(t)
        \/ \E s \in Session : SessionStep(s)
        \/ WorkerGet \/ WorkerSubmit \/ Process

\* Threads are scheduled, and every wait of a request is bounded by its timeout: this
\* is what enables StartGivesUp, StopJoins and the drains.  Nothing is assumed of the
\* threads the capture library runs in, nor of the pipeline's.
Fairness == \A t \in Threads : WF_vars(CallStep(t))

Spec == Init /\ [][Next]_vars
FairSpec == Spec /\ Fairness

-----------------------------------------------------------------------------
(* Properties. *)

Doing(step, s) == \E t \in Threads : pc[t] = step /\ mine[t] = s

\* A session that runs is the one stop() will find, or is being opened or stopped by
\* a request, or is one that a start() gave up: two starts, or a start and a stop,
\* never lose one between them, and none that was given up is ever held.  (Nothing
\* stops an abandoned session any more.)
RunningIsReachable ==
    /\ \A s \in Session : run[s] =>
           s = engine \/ s \in abandoned \/ Doing("startWait", s) \/ Doing("signal", s)
    /\ engine \notin abandoned

\* Requests and sessions agree about who holds which session.
SessionsAccounted == TypeOK /\ RunningIsReachable

\* When stop() has seen the sniff loop end and both stages drained, every packet of
\* the session has been processed or was counted as lost, although the stages are
\* asked one after the other and other sessions may be delivering.
StopDrains == \A t \in Threads :
    (pc[t] = "stopped" /\ mine[t] # None /\ joined[t] /\ drained[t])
        => \A i \in 1 .. delivered[mine[t]] : <<mine[t], i>> \in processed \cup lost

\* Every start and stop request returns, however long the capture library hangs and
\* whatever the pipeline holds.
CallsReturn == \A t \in Threads : pc[t] # "idle" ~> pc[t] \in {"idle", "closed"}
=============================================================================
