--------------------------- MODULE EventAggregator ---------------------------
(***************************************************************************)
(* EventAggregator (backend/app/services/event_aggregator.py): live events *)
(* of a category are buffered and flushed as one batch, by the publisher   *)
(* that fills the buffer, by the category's timer, or by close().  Every   *)
(* locked section is a step of its own, and a batch is emitted after the   *)
(* lock is released.  A timer that has fired cannot be cancelled any more: *)
(* its thread goes on to _flush, which may pop a newer timer.              *)
(*                                                                         *)
(* An event is the n-th one a thread publishes.  Envelopes, redaction and  *)
(* the batch-size statistics are left out.                                 *)
(***************************************************************************)
EXTENDS Naturals, Sequences, FiniteSets

CONSTANTS Publishers,   \* the threads that publish
          Lifespan,     \* the one among them that shuts the application down
          Lists,        \* categories whose events are collected: packet, alert, ...
          Latest,       \* categories of which the latest event is kept: dashboard, ops
          BatchMax,     \* the buffer length that makes the publisher flush
          Scripts,      \* bound: what each thread publishes, in order; one is chosen
          Events        \* bound: events one thread publishes

Categories == Lists \cup Latest
Timers == "timers"

ASSUME PublishersAssumption == /\ IsFiniteSet(Publishers) /\ Lifespan \in Publishers
                               /\ Timers \notin Publishers
ASSUME CategoriesAssumption == /\ IsFiniteSet(Categories) /\ Lists \cap Latest = {}
                               /\ "direct" \notin Categories
ASSUME BatchMaxAssumption == BatchMax \in Nat \ {0}
ASSUME ScriptsAssumption ==
    /\ Events \in Nat
    /\ Scripts \subseteq [Publishers -> Seq(Categories \cup {"direct"})]
    /\ \A t \in Scripts, p \in Publishers : Len(t[p]) <= Events

Event == [by : Publishers, n : 1 .. Events]
Emission == [by : Publishers \cup {Timers}, events : Seq(Event)]

VARIABLES
    script,     \* the category of each event a thread publishes
    buffer,     \* per category, the events waiting; at most one if Latest
    timer,      \* per category, the timer in _timers: none, waiting or fired
    ringing,    \* per category, the timer threads that fired and are before _flush
    pc,         \* where each publisher is inside publish()
    sent,       \* how many events each publisher has published
    closer,     \* where close() is
    toFlush,    \* the categories flush_all has not flushed yet
    emitting,   \* the batches popped whose emit callback has not returned
    eventsReceived, eventsSent, eventsCoalesced, eventsDropped  \* the totals

counters == <<eventsReceived, eventsSent, eventsCoalesced, eventsDropped>>
buffers == <<buffer, timer, ringing>>
publishing == <<pc, sent>>
closing == <<closer, toFlush>>
vars == <<script, buffers, publishing, closing, emitting, counters>>

\* Types; a summary category holds at most one event.
TypeOK ==
    /\ script \in Scripts
    /\ buffer \in [Categories -> Seq(Event)]
    /\ \A c \in Latest : Len(buffer[c]) <= 1
    /\ timer \in [Categories -> {"none", "waiting", "fired"}]
    /\ ringing \in [Categories -> Nat]
    /\ pc \in [Publishers -> {"idle", "append", "flush", "schedule", "direct"}]
    /\ sent \in [Publishers -> 0 .. Events]
    /\ closer \in {"open", "flushing", "closed"}
    /\ toFlush \subseteq Categories
    /\ emitting \subseteq Emission
    /\ {eventsReceived, eventsSent, eventsCoalesced, eventsDropped} \subseteq Nat

Init ==
    /\ script \in Scripts
    /\ buffer = [c \in Categories |-> << >>]
    /\ timer = [c \in Categories |-> "none"] /\ ringing = [c \in Categories |-> 0]
    /\ pc = [p \in Publishers |-> "idle"] /\ sent = [p \in Publishers |-> 0]
    /\ closer = "open" /\ toFlush = {} /\ emitting = {}
    /\ eventsReceived = 0 /\ eventsSent = 0 /\ eventsCoalesced = 0 /\ eventsDropped = 0

-----------------------------------------------------------------------------
(* _flush *)

Goto(p, step) == pc' = [pc EXCEPT ![p] = step]
Mine(p) == [by |-> p, n |-> sent[p]]
MyCategory(p) == script[p][sent[p]]

\* The timer in _timers is popped and cancelled, whichever timer that is.
KeepFired(c) == timer' = [timer EXCEPT ![c] = IF @ = "fired" THEN @ ELSE "none"]
PopTimer(c) == timer' = [timer EXCEPT ![c] = "none"]

\* The locked section of _flush: the buffer becomes a batch, which the thread t
\* emits next; an empty buffer is not emitted.
TakeBuffer(c) == buffer' = [buffer EXCEPT ![c] = << >>]
Flush(c, t) ==
    /\ PopTimer(c) /\ TakeBuffer(c)
    /\ eventsSent' = eventsSent + Len(buffer[c])
    /\ emitting' = IF buffer[c] = << >> THEN emitting
                   ELSE emitting \cup {[by |-> t, events |-> buffer[c]]}

\* The emit callback returns.
Emitted(e) == emitting' = emitting \ {e}
Emitting(t) == \E e \in emitting : e.by = t

-----------------------------------------------------------------------------
(* publish() *)

\* _record_received.  The lifespan handler closes the event bus before the
\* service, whose stop() publishes sniffer:stopped.
Publish(p) ==
    /\ pc[p] = "idle" /\ sent[p] < Len(script[p]) /\ ~Emitting(p)
    /\ p = Lifespan => closer = "closed"
    /\ sent' = [sent EXCEPT ![p] = @ + 1]
    /\ eventsReceived' = eventsReceived + 1
    /\ Goto(p, IF script[p][sent[p] + 1] = "direct" THEN "direct" ELSE "append")
    /\ UNCHANGED <<script, buffers, closing, emitting, eventsSent, eventsCoalesced, eventsDropped>>

\* _append_buffer, or _coalesce, which replaces the event that is waiting.
AppendEvent(p) ==
    LET c == MyCategory(p)
    IN  /\ pc[p] = "append"
        /\ \/ /\ c \in Lists
              /\ buffer' = [buffer EXCEPT ![c] = Append(@, Mine(p))]
              /\ Goto(p, IF Len(buffer[c]) + 1 >= BatchMax THEN "flush" ELSE "schedule")
              /\ UNCHANGED eventsCoalesced
           \/ /\ c \in Latest
              /\ buffer' = [buffer EXCEPT ![c] = <<Mine(p)>>]
              /\ eventsCoalesced' = eventsCoalesced + Len(buffer[c])
              /\ Goto(p, "schedule")
        /\ UNCHANGED <<script, timer, ringing, sent, closing, emitting, eventsReceived,
                       eventsSent, eventsDropped>>

FlushFull(p) ==
    /\ pc[p] = "flush"
    /\ Flush(MyCategory(p), p)
    /\ Goto(p, "idle")
    /\ UNCHANGED <<script, ringing, sent, closing, eventsReceived, eventsCoalesced, eventsDropped>>

\* _schedule: a timer that is in _timers already, fired or not, is relied upon.
Schedule(p) ==
    /\ pc[p] = "schedule"
    /\ timer' = [timer EXCEPT ![MyCategory(p)] = IF @ = "none" THEN "waiting" ELSE @]
    /\ Goto(p, "idle")
    /\ UNCHANGED <<script, buffer, ringing, sent, closing, emitting, counters>>

\* Events of no category, sniffer:reset, are emitted at once and not counted as sent.
PublishDirect(p) ==
    /\ pc[p] = "direct"
    /\ emitting' = emitting \cup {[by |-> p, events |-> <<Mine(p)>>]}
    /\ Goto(p, "idle")
    /\ UNCHANGED <<script, buffers, sent, closing, counters>>

PublishStep(p) == AppendEvent(p) \/ FlushFull(p) \/ Schedule(p) \/ PublishDirect(p)

-----------------------------------------------------------------------------
(* The timers and close(). *)

Ring(c) ==
    /\ timer[c] = "waiting"
    /\ timer' = [timer EXCEPT ![c] = "fired"]
    /\ ringing' = [ringing EXCEPT ![c] = @ + 1]
    /\ UNCHANGED <<script, buffer, publishing, closing, emitting, counters>>

TimerFlush(c) ==
    /\ ringing[c] > 0
    /\ ringing' = [ringing EXCEPT ![c] = @ - 1]
    /\ Flush(c, Timers)
    /\ UNCHANGED <<script, publishing, closing, eventsReceived, eventsCoalesced, eventsDropped>>

\* close() takes the timers out and cancels them after it released the lock, too
\* late for those that fire in between.
CloseBegin ==
    /\ closer = "open"
    /\ closer' = "flushing" /\ toFlush' = Categories
    /\ timer' = [c \in Categories |-> "none"]
    /\ \E late \in SUBSET {c \in Categories : timer[c] = "waiting"} :
           ringing' = [c \in Categories |-> ringing[c] + (IF c \in late THEN 1 ELSE 0)]
    /\ UNCHANGED <<script, buffer, publishing, emitting, counters>>

\* flush_all, one category after the other; their order is left open.
CloseFlush ==
    /\ closer = "flushing" /\ ~Emitting(Lifespan)
    /\ \/ \E c \in toFlush : /\ Flush(c, Lifespan)
                             /\ toFlush' = toFlush \ {c}
                             /\ UNCHANGED closer
       \/ /\ toFlush = {} /\ closer' = "closed"
          /\ UNCHANGED <<buffer, timer, emitting, eventsSent, toFlush>>
    /\ UNCHANGED <<script, ringing, publishing, eventsReceived, eventsCoalesced, eventsDropped>>

AggregatorStep == \/ \E p \in Publishers : Publish(p) \/ PublishStep(p)
                  \/ \E c \in Categories : Ring(c) \/ TimerFlush(c)
                  \/ CloseBegin \/ CloseFlush

EmitReturns == /\ \E e \in emitting : Emitted(e)
               /\ UNCHANGED <<script, buffers, publishing, closing, counters>>

Next == AggregatorStep \/ EmitReturns
Spec == Init /\ [][Next]_vars

-----------------------------------------------------------------------------
(* Properties. *)

\* An event never waits in a buffer that nobody will flush: a timer is running or
\* has fired, or a publisher or close() is on its way to set one or to flush.  Timers
\* that fire while they are cancelled and replaced do not break it.
NothingStranded == \A c \in Categories : buffer[c] # << >> =>
    \/ timer[c] = "waiting" \/ ringing[c] > 0
    \/ \E p \in Publishers : pc[p] \in {"flush", "schedule"} /\ MyCategory(p) = c
    \/ c \in toFlush
=============================================================================
