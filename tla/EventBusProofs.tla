--------------------------- MODULE EventBusProofs ---------------------------
(***************************************************************************)
(* The aggregator, for any number of publishers, categories and events: its *)
(* types, and that no event is stranded in a buffer.  Then the event bus   *)
(* over it, for any clients and queue sizes: every event is in one place,  *)
(* every batch is delivered once, or counted.                              *)
(***************************************************************************)
EXTENDS EventBus, QueueLemmas

\* A publisher inside publish() has an event, and before it is flushed or emitted
\* directly the event has a category.
MidPublish == \A p \in Publishers :
    /\ pc[p] # "idle" => sent[p] \in 1 .. Len(script[p])
    /\ pc[p] \in {"append", "flush", "schedule"} => MyCategory(p) \in Categories

\* A timer that has fired and is still in _timers has its thread on the way to
\* _flush: this is why _schedule may rely on it.
FiredRings == \A c \in Categories : timer[c] = "fired" => ringing[c] > 0

\* The inductive invariant: NothingStranded needs FiredRings where _schedule finds
\* a timer, and MidPublish where a publisher leaves its buffer to a step to come.
IInv == TypeOK /\ MidPublish /\ FiredRings /\ NothingStranded

\* TypeOK, MidPublish and FiredRings hold initially, and no buffer holds an event.
LEMMA InitInv == Init => IInv
<1> SUFFICES ASSUME Init PROVE IInv
  OBVIOUS
<1>1. << >> \in Seq(Event) /\ Len(<< >>) = 0
  BY EmptySeq
<1>2. TypeOK
  BY <1>1, ScriptsAssumption DEF Init, TypeOK, Categories
<1>3. MidPublish /\ FiredRings /\ NothingStranded
  BY DEF Init, MidPublish, FiredRings, NothingStranded
<1> QED
  BY <1>2, <1>3 DEF IInv

\* What a publisher that has an event publishes.
LEMMA MineIsEvent ==
    ASSUME TypeOK, NEW p \in Publishers, sent[p] \in 1 .. Len(script[p])
    PROVE  Mine(p) \in Event
<1>1. Len(script[p]) <= Events /\ sent[p] \in 0 .. Events /\ Events \in Nat
  BY ScriptsAssumption DEF TypeOK
<1>2. script[p] \in Seq(Categories \cup {"direct"})
  BY ScriptsAssumption DEF TypeOK
<1>3. sent[p] \in 1 .. Events
  BY <1>1, <1>2, LenProperties
<1> QED
  BY <1>3 DEF Mine, Event

\* What the locked section of _flush leaves behind, whoever runs it.
LEMMA FlushFacts ==
    ASSUME TypeOK, NEW c \in Categories, NEW t \in Publishers \cup {Timers}, Flush(c, t)
    PROVE  /\ buffer' \in [Categories -> Seq(Event)]
           /\ buffer'[c] = << >>
           /\ \A d \in Categories : d # c => buffer'[d] = buffer[d] /\ timer'[d] = timer[d]
           /\ \A d \in Latest : Len(buffer'[d]) <= 1
           /\ timer' \in [Categories -> {"none", "waiting", "fired"}]
           /\ timer'[c] = "none"
           /\ eventsSent' \in Nat
           /\ emitting' \subseteq Emission
<1> USE DEF Flush, PopTimer, TakeBuffer, TypeOK
<1>1. << >> \in Seq(Event) /\ Len(<< >>) = 0
  BY EmptySeq
<1>2. buffer[c] \in Seq(Event) /\ Len(buffer[c]) \in Nat
  BY LenProperties
<1>3. /\ buffer' \in [Categories -> Seq(Event)]
      /\ buffer'[c] = << >>
      /\ \A d \in Categories : d # c => buffer'[d] = buffer[d] /\ timer'[d] = timer[d]
  BY <1>1
<1>4. \A d \in Latest : Len(buffer'[d]) <= 1
  BY <1>1, <1>3 DEF Categories
<1>5. timer' \in [Categories -> {"none", "waiting", "fired"}] /\ timer'[c] = "none"
  OBVIOUS
<1>6. eventsSent' \in Nat
  BY <1>2
<1>7. emitting' \subseteq Emission
  BY <1>2 DEF Emission
<1> QED
  BY <1>3, <1>4, <1>5, <1>6, <1>7

\* A flush by any thread that only returns to "idle" or leaves pc alone, spends no
\* ringing timer of another category and takes only its own category from close().
LEMMA FlushKeeps ==
    ASSUME IInv, NEW c \in Categories, NEW t \in Publishers \cup {Timers}, Flush(c, t),
           UNCHANGED <<script, sent, eventsReceived, eventsCoalesced, eventsDropped>>,
           pc' \in [Publishers -> {"idle", "append", "flush", "schedule", "direct"}],
           \A p \in Publishers : pc'[p] = pc[p] \/ (pc'[p] = "idle" /\ MyCategory(p) = c),
           ringing' \in [Categories -> Nat],
           \A d \in Categories : d # c => ringing'[d] = ringing[d],
           toFlush' \subseteq Categories,
           \A d \in Categories : d # c => (d \in toFlush => d \in toFlush'),
           closer' \in {"open", "flushing", "closed"}
    PROVE  IInv'
<1>1. TypeOK'
  BY FlushFacts DEF IInv, TypeOK
<1>2. MidPublish'
  BY DEF IInv, MidPublish, MyCategory
<1>3. FiredRings'
  BY FlushFacts DEF IInv, FiredRings
<1>4. ASSUME NEW d \in Categories, buffer'[d] # << >>
      PROVE  \/ timer'[d] = "waiting" \/ ringing'[d] > 0
             \/ \E p \in Publishers : pc'[p] \in {"flush", "schedule"} /\ MyCategory(p)' = d
             \/ d \in toFlush'
  <2>1. TypeOK
    BY DEF IInv
  <2>2. d # c /\ buffer[d] # << >> /\ timer'[d] = timer[d] /\ ringing'[d] = ringing[d]
    BY <1>4, <2>1, FlushFacts
  <2>3. CASE timer[d] = "waiting" \/ ringing[d] > 0 \/ d \in toFlush
    BY <2>2, <2>3
  <2>4. ASSUME NEW p \in Publishers, pc[p] \in {"flush", "schedule"}, MyCategory(p) = d
        PROVE  pc'[p] = pc[p] /\ MyCategory(p)' = d
    BY <2>2, <2>4 DEF MyCategory
  <2> QED
    BY <2>2, <2>3, <2>4 DEF IInv, NothingStranded
<1> QED
  BY <1>1, <1>2, <1>3, <1>4 DEF IInv, NothingStranded

\* The steps of publish() keep the invariant.
LEMMA PublishInv ==
    ASSUME IInv, NEW p \in Publishers, Publish(p) \/ PublishStep(p)
    PROVE  IInv'
<1> USE DEF IInv, Goto, buffers, publishing, closing, counters
<1>1. CASE Publish(p)
  <2> USE <1>1 DEF Publish
  <2>1. Len(script[p]) <= Events /\ Events \in Nat /\ script[p] \in Seq(Categories \cup {"direct"})
    BY ScriptsAssumption DEF TypeOK
  <2>2. Len(script[p]) \in Nat /\ sent[p] + 1 \in 1 .. Len(script[p]) /\ sent[p] + 1 \in 0 .. Events
    BY <2>1, LenProperties DEF TypeOK
  <2>3. script[p][sent[p] + 1] \in Categories \cup {"direct"}
    BY <2>1, <2>2, ElementOfSeq
  <2>4. TypeOK'
    BY <2>2 DEF TypeOK
  <2>5. MidPublish'
    BY <2>2, <2>3 DEF MidPublish, MyCategory, TypeOK
  <2>6. FiredRings'
    BY DEF FiredRings
  <2>7. ASSUME NEW q \in Publishers, pc[q] \in {"flush", "schedule"}
        PROVE  pc'[q] = pc[q] /\ MyCategory(q)' = MyCategory(q)
    BY <2>7 DEF MyCategory, TypeOK
  <2>8. NothingStranded'
    BY <2>7 DEF NothingStranded
  <2> QED
    BY <2>4, <2>5, <2>6, <2>8
<1>2. CASE AppendEvent(p)
  <2> DEFINE c == MyCategory(p)
  <2>1. /\ pc[p] = "append" /\ c \in Categories /\ Mine(p) \in Event
        /\ UNCHANGED <<script, timer, ringing, sent, closer, toFlush, emitting,
                       eventsReceived, eventsSent, eventsDropped>>
    BY <1>2, MineIsEvent DEF AppendEvent, MidPublish
  <2>2. buffer[c] \in Seq(Event) /\ Len(buffer[c]) \in Nat
    BY <2>1, LenProperties DEF TypeOK
  <2>3. /\ Append(buffer[c], Mine(p)) \in Seq(Event)
        /\ <<Mine(p)>> \in Seq(Event) /\ Len(<<Mine(p)>>) = 1
    BY <2>1, <2>2, AppendProperties
  <2>4. /\ pc' \in [Publishers -> {"idle", "append", "flush", "schedule", "direct"}]
        /\ pc'[p] \in {"flush", "schedule"}
        /\ \A q \in Publishers : q # p => pc'[q] = pc[q]
    BY <1>2 DEF AppendEvent, TypeOK
  <2>5. /\ buffer' \in [Categories -> Seq(Event)]
        /\ \A d \in Categories : d # c => buffer'[d] = buffer[d]
        /\ c \in Latest => Len(buffer'[c]) <= 1
        /\ eventsCoalesced' \in Nat
    <3>1. \/ /\ c \in Lists
             /\ buffer' = [buffer EXCEPT ![c] = Append(buffer[c], Mine(p))]
             /\ eventsCoalesced' = eventsCoalesced
          \/ /\ c \in Latest
             /\ buffer' = [buffer EXCEPT ![c] = <<Mine(p)>>]
             /\ eventsCoalesced' = eventsCoalesced + Len(buffer[c])
      BY <1>2 DEF AppendEvent
    <3>2. c \in Lists => c \notin Latest
      BY CategoriesAssumption
    <3> HIDE DEF c
    <3>3. buffer \in [Categories -> Seq(Event)] /\ eventsCoalesced \in Nat
      BY DEF TypeOK
    <3>4. CASE c \in Lists
      BY <2>1, <2>3, <3>1, <3>2, <3>3, <3>4
    <3>5. CASE c \in Latest
      <4>1. buffer' = [buffer EXCEPT ![c] = <<Mine(p)>>] /\ buffer'[c] = <<Mine(p)>>
        BY <2>1, <3>1, <3>2, <3>3, <3>5
      <4>2. Len(buffer'[c]) = 1 /\ eventsCoalesced' \in Nat
        BY <2>2, <2>3, <3>1, <3>2, <3>3, <3>5, <4>1
      <4>3. /\ buffer' \in [Categories -> Seq(Event)]
            /\ \A d \in Categories : d # c => buffer'[d] = buffer[d]
        BY <2>1, <2>3, <3>3, <4>1
      <4> QED
        BY <4>2, <4>3
    <3> QED
      BY <3>1, <3>4, <3>5
  <2>6. TypeOK'
    <3>1. \A d \in Latest : Len(buffer'[d]) <= 1
      BY <2>5 DEF TypeOK, Categories
    <3> HIDE DEF c
    <3> QED
      BY <2>1, <2>4, <2>5, <3>1 DEF TypeOK
  <2>7. MidPublish' /\ FiredRings'
    BY <2>1, <2>4 DEF MidPublish, FiredRings, MyCategory
  <2>8. MyCategory(p)' = c /\ \A q \in Publishers : MyCategory(q)' = MyCategory(q)
    BY <2>1 DEF MyCategory
  <2>9. NothingStranded'
    <3> HIDE DEF c
    <3>1. ASSUME NEW q \in Publishers, pc[q] \in {"flush", "schedule"}
          PROVE  pc'[q] = pc[q] /\ MyCategory(q)' = MyCategory(q)
      BY <2>1, <2>4, <2>8, <3>1
    <3> QED
      BY <2>1, <2>4, <2>5, <2>8, <3>1 DEF NothingStranded
  <2> QED
    BY <2>6, <2>7, <2>9
<1>3. CASE FlushFull(p)
  <2>1. MyCategory(p) \in Categories
    BY <1>3 DEF FlushFull, MidPublish
  <2>2. /\ pc' \in [Publishers -> {"idle", "append", "flush", "schedule", "direct"}]
        /\ \A q \in Publishers : pc'[q] = pc[q] \/ (pc'[q] = "idle" /\ MyCategory(q) = MyCategory(p))
    BY <1>3 DEF FlushFull, TypeOK
  <2>3. /\ Flush(MyCategory(p), p)
        /\ UNCHANGED <<script, ringing, sent, closer, toFlush, eventsReceived, eventsCoalesced,
                       eventsDropped>>
    BY <1>3 DEF FlushFull
  <2>4. ringing' \in [Categories -> Nat] /\ toFlush' \subseteq Categories
        /\ closer' \in {"open", "flushing", "closed"}
    BY <2>3 DEF TypeOK
  <2> HIDE DEF IInv, counters
  <2> QED
    BY <2>1, <2>2, <2>3, <2>4, FlushKeeps
<1>4. CASE Schedule(p)
  <2>1. MyCategory(p) \in Categories
    BY <1>4 DEF Schedule, MidPublish
  <2>2. TypeOK'
    BY <1>4 DEF Schedule, TypeOK
  <2>3. MidPublish' /\ FiredRings'
    BY <1>4, <2>1 DEF Schedule, MidPublish, FiredRings, MyCategory, TypeOK
  <2>4. timer'[MyCategory(p)] = "waiting" \/ ringing'[MyCategory(p)] > 0
    BY <1>4, <2>1 DEF Schedule, FiredRings, TypeOK
  <2>5. \A d \in Categories : timer[d] = "waiting" => timer'[d] = "waiting"
    BY <1>4 DEF Schedule, TypeOK
  <2>6. ASSUME NEW q \in Publishers, q # p, pc[q] \in {"flush", "schedule"}
        PROVE  pc'[q] = pc[q] /\ MyCategory(q)' = MyCategory(q)
    BY <1>4, <2>6 DEF Schedule, MyCategory, TypeOK
  <2>7. NothingStranded'
    BY <1>4, <2>4, <2>5, <2>6 DEF Schedule, NothingStranded
  <2> QED
    BY <2>2, <2>3, <2>7
<1>5. CASE PublishDirect(p)
  <2>1. Mine(p) \in Event /\ <<Mine(p)>> \in Seq(Event)
    BY <1>5, MineIsEvent DEF PublishDirect, MidPublish
  <2>2. TypeOK'
    <3>1. [by |-> p, events |-> <<Mine(p)>>] \in Emission
      BY <2>1 DEF Emission
    <3>2. emitting' \subseteq Emission
      BY <1>5, <3>1 DEF PublishDirect, TypeOK
    <3> QED
      BY <1>5, <3>2 DEF PublishDirect, TypeOK
  <2>3. MidPublish' /\ FiredRings'
    BY <1>5 DEF PublishDirect, MidPublish, FiredRings, MyCategory, TypeOK
  <2>4. ASSUME NEW q \in Publishers, pc[q] \in {"flush", "schedule"}
        PROVE  pc'[q] = pc[q] /\ MyCategory(q)' = MyCategory(q)
    BY <1>5, <2>4 DEF PublishDirect, MyCategory, TypeOK
  <2>5. NothingStranded'
    BY <1>5, <2>4 DEF PublishDirect, NothingStranded
  <2> QED
    BY <2>2, <2>3, <2>5
<1> QED
  BY <1>1, <1>2, <1>3, <1>4, <1>5 DEF PublishStep

\* So do the timers.
LEMMA TimerInv ==
    ASSUME IInv, NEW c \in Categories, Ring(c) \/ TimerFlush(c)
    PROVE  IInv'
<1> USE DEF IInv, buffers, publishing, closing, counters
<1>1. CASE Ring(c)
  <2>1. TypeOK'
    BY <1>1 DEF Ring, TypeOK
  <2>2. MidPublish' /\ FiredRings'
    BY <1>1 DEF Ring, MidPublish, FiredRings, MyCategory, TypeOK
  <2>3. \A d \in Categories : timer[d] = "waiting" => timer'[d] = "waiting" \/ ringing'[d] > 0
    BY <1>1 DEF Ring, TypeOK
  <2>4. \A d \in Categories : ringing[d] > 0 => ringing'[d] > 0
    BY <1>1 DEF Ring, TypeOK
  <2>5. NothingStranded'
    BY <1>1, <2>3, <2>4 DEF Ring, NothingStranded, MyCategory
  <2> QED
    BY <2>1, <2>2, <2>5
<1>2. CASE TimerFlush(c)
  <2>1. /\ ringing' \in [Categories -> Nat]
        /\ \A d \in Categories : d # c => ringing'[d] = ringing[d]
    BY <1>2 DEF TimerFlush, TypeOK
  <2>2. /\ Flush(c, Timers)
        /\ UNCHANGED <<script, pc, sent, closer, toFlush, eventsReceived, eventsCoalesced,
                       eventsDropped>>
    BY <1>2 DEF TimerFlush
  <2>3. /\ pc' \in [Publishers -> {"idle", "append", "flush", "schedule", "direct"}]
        /\ toFlush' \subseteq Categories /\ closer' \in {"open", "flushing", "closed"}
    BY <2>2 DEF TypeOK
  <2> HIDE DEF IInv, counters
  <2> QED
    BY <2>1, <2>2, <2>3, FlushKeeps
<1> QED
  BY <1>1, <1>2

\* So does close(): from the moment it clears _timers it will flush every category.
LEMMA CloseInv == ASSUME IInv, CloseBegin \/ CloseFlush PROVE IInv'
<1> USE DEF IInv, buffers, publishing, closing, counters
<1>1. CASE CloseBegin
  <2>1. PICK late \in SUBSET {c \in Categories : timer[c] = "waiting"} :
            ringing' = [c \in Categories |-> ringing[c] + (IF c \in late THEN 1 ELSE 0)]
    BY <1>1 DEF CloseBegin
  <2>2. TypeOK'
    BY <1>1, <2>1 DEF CloseBegin, TypeOK
  <2>3. MidPublish' /\ FiredRings'
    BY <1>1 DEF CloseBegin, MidPublish, FiredRings, MyCategory, TypeOK
  <2>4. NothingStranded'
    BY <1>1 DEF CloseBegin, NothingStranded
  <2> QED
    BY <2>2, <2>3, <2>4
<1>2. ASSUME NEW c \in toFlush, CloseFlush, Flush(c, Lifespan), toFlush' = toFlush \ {c},
             closer' = closer
      PROVE  IInv'
  <2>1. c \in Categories /\ Lifespan \in Publishers /\ toFlush' \subseteq Categories
    BY <1>2, PublishersAssumption DEF TypeOK
  <2>2. /\ UNCHANGED <<script, ringing, pc, sent, eventsReceived, eventsCoalesced, eventsDropped>>
        /\ \A d \in Categories : d # c => (d \in toFlush => d \in toFlush')
    BY <1>2 DEF CloseFlush
  <2>3. /\ pc' \in [Publishers -> {"idle", "append", "flush", "schedule", "direct"}]
        /\ ringing' \in [Categories -> Nat] /\ closer' \in {"open", "flushing", "closed"}
    BY <1>2, <2>2 DEF TypeOK
  <2> HIDE DEF IInv, counters
  <2> QED
    BY <1>2, <2>1, <2>2, <2>3, FlushKeeps
<1>3. ASSUME CloseFlush, toFlush = {}, closer' = "closed",
             UNCHANGED <<buffer, timer, emitting, eventsSent, toFlush>>
      PROVE  IInv'
  <2>1. TypeOK'
    BY <1>3 DEF CloseFlush, TypeOK
  <2>2. MidPublish' /\ FiredRings' /\ NothingStranded'
    BY <1>3 DEF CloseFlush, MidPublish, FiredRings, NothingStranded, MyCategory
  <2> QED
    BY <2>1, <2>2
<1> QED
  BY <1>1, <1>2, <1>3 DEF CloseFlush

\* Every step of the aggregator keeps the invariant.
LEMMA StepInv == IInv /\ [Next]_vars => IInv'
<1> SUFFICES ASSUME IInv, [Next]_vars PROVE IInv'
  OBVIOUS
<1>1. CASE AggregatorStep
  BY <1>1, PublishInv, TimerInv, CloseInv DEF AggregatorStep
<1>2. CASE EmitReturns \/ UNCHANGED vars
  <2>1. /\ UNCHANGED <<script, buffer, timer, ringing, pc, sent, closer, toFlush, eventsReceived,
                       eventsSent, eventsCoalesced, eventsDropped>>
        /\ emitting' \subseteq emitting
    BY <1>2 DEF EmitReturns, Emitted, vars, buffers, publishing, closing, counters
  <2> QED
    BY <2>1 DEF IInv, TypeOK, MidPublish, FiredRings, NothingStranded, MyCategory
<1> QED
  BY <1>1, <1>2 DEF Next

\* The strengthened invariant holds in every reachable state of the aggregator.
THEOREM Invariance == Spec => []IInv
BY InitInv, StepInv, PTL DEF Spec

\* Type correctness of the aggregator: a summary category never holds two events.
THEOREM TypeCorrect == Spec => []TypeOK
<1>1. IInv => TypeOK
  BY DEF IInv
<1> QED
  BY <1>1, Invariance, PTL

\* No event is ever left in a buffer that no timer, publisher or close() will flush.
THEOREM Unstranded == Spec => []NothingStranded
<1>1. IInv => NothingStranded
  BY DEF IInv
<1> QED
  BY <1>1, Invariance, PTL

-----------------------------------------------------------------------------
(* The event bus over the aggregator. *)

\* Where the batches of a client are on the way from publish to its handler.
FansTo(c) == {f \in fanout : c \in f.to}
CallsTo(c) == {i \in DOMAIN ready : ready[i].to = c}
Asked(c) == {f.emission.events : f \in FansTo(c)}
Called(c) == {r.batch : r \in {q \in Range(ready) : q.to = c}}
Queued(c) == Range(clientQueue[c])

\* The batches that have left the buffers, as far as they are still known, and those
\* of them that _publish_direct has not taken up yet.
Out == {e.events : e \in emitting} \cup UNION {addressed[c] : c \in Clients}
Emissions == {f.emission : f \in fanout}
Unpublished == emitting \ Emissions

\* An event that its publisher has put into a buffer or into a batch of its own.
Left(x) == x.n <= sent[x.by] /\ (pc[x.by] \in {"append", "direct"} => x.n < sent[x.by])

\* An event is in one buffer or in what has left the buffers.
EventsApart ==
    /\ \A b \in Out : b # << >> /\ \A x \in Range(b) : Left(x)
    /\ \A c \in Categories : \A x \in Range(buffer[c]) :
          /\ Left(x) /\ script[x.by][x.n] = c
          /\ \A b \in Out : x \notin Range(b)

\* A batch that waits for _publish_direct is new to everybody.
BatchesNew ==
    /\ \A e, g \in emitting : e.events = g.events => e = g
    /\ \A e \in Unpublished, c \in Clients : e.events \notin addressed[c]
    /\ \A f, g \in fanout : f.emission = g.emission => f = g

\* A batch published for a client is in one place on its way, once.
OnePlace == \A c \in Clients :
    /\ Asked(c) \cup Called(c) \cup Queued(c) \cup lost[c] \subseteq addressed[c]
    /\ Asked(c) \cap Called(c) = {}
    /\ (Asked(c) \cup Called(c)) \cap (Queued(c) \cup lost[c]) = {}
    /\ Queued(c) \cap lost[c] = {}
    /\ IsInjective(clientQueue[c])
CalledOnce == IsInjective(ready)

Finitely == IsFiniteSet(fanout) /\ \A c \in Clients : IsFiniteSet(addressed[c])

\* Types, and what the aggregator keeps.
Shape == IInv /\ BusTypeOK /\ Finitely

\* The bus takes batches out of the aggregator's hands and adds to two totals.
LEMMA BusMoves ==
    ASSUME IInv, BusTypeOK, BusStep
    PROVE  /\ UNCHANGED <<script, buffer, timer, ringing, pc, sent, closer, toFlush,
                          eventsReceived, eventsSent, slowPolicy>>
           /\ emitting' \subseteq emitting
           /\ eventsCoalesced' \in Nat /\ eventsDropped' \in Nat
<1> USE DEF vars, buffers, publishing, closing, counters, handlers, busCounters
<1>0. eventsCoalesced \in Nat /\ eventsDropped \in Nat
  BY DEF IInv, TypeOK
<1>1. CASE FanoutBegin
  BY <1>0, <1>1 DEF FanoutBegin, Proceed, Emitted
<1>2. CASE FanoutStep
  BY <1>0, <1>2 DEF FanoutStep, Proceed, Emitted
<1>3. CASE SafePut
  BY <1>0, <1>3 DEF SafePut
<1>4. ASSUME NEW c \in Clients, Connect(c) \/ Handler(c) PROVE UNCHANGED <<vars, slowPolicy>>
  BY <1>4 DEF Connect, Handler, HandlerGet, HandlerSend
<1>5. QED
  BY <1>0, <1>1, <1>2, <1>3, <1>4 DEF BusStep

\* So every step of the whole keeps the aggregator's invariant.
LEMMA AggregatorKept == ASSUME IInv, BusTypeOK, [BusNext]_allVars PROVE IInv'
<1>1. CASE AggregatorStep
  BY <1>1, StepInv DEF Next
<1>2. CASE BusStep
  BY <1>2, BusMoves DEF IInv, TypeOK, MidPublish, FiredRings, NothingStranded, MyCategory
<1>3. CASE UNCHANGED allVars
  BY <1>3, StepInv DEF allVars
<1> QED BY <1>1, <1>2, <1>3 DEF BusNext

\* The aggregator only adds batches.
LEMMA EmittingGrows == ASSUME AggregatorStep PROVE emitting \subseteq emitting'
BY DEF AggregatorStep, Publish, PublishStep, AppendEvent, FlushFull, Schedule, PublishDirect,
       Ring, TimerFlush, CloseBegin, CloseFlush, Flush

LEMMA EventsAre ==
    ASSUME IInv
    PROVE  /\ \A e \in emitting : e.events \in Batches /\ e \in Emission
           /\ \A c \in Categories : /\ buffer[c] \in Batches /\ Len(buffer[c]) \in Nat
                                    /\ Range(buffer[c]) \subseteq Event
           /\ \A b \in Batches : \A x \in Range(b) :
                 x \in Event /\ x.by \in Publishers /\ x.n \in Nat /\ x = [by |-> x.by, n |-> x.n]
<1>1. \A b \in Batches : /\ b \in Seq(Event) /\ Len(b) \in Nat /\ DOMAIN b = 1 .. Len(b)
                         /\ \A i \in 1 .. Len(b) : b[i] \in Event
  BY LenProperties, ElementOfSeq DEF Batches
<1>2. \A x \in Event : x.by \in Publishers /\ x.n \in Nat /\ x = [by |-> x.by, n |-> x.n]
  BY ScriptsAssumption DEF Event
<1>3. \A b \in Batches : Range(b) \subseteq Event
  BY <1>1 DEF Range
<1>4. /\ \A e \in emitting : e.events \in Batches /\ e \in Emission
      /\ \A c \in Categories : buffer[c] \in Batches
  BY DEF IInv, TypeOK, Emission, Batches
<1> QED BY <1>1, <1>2, <1>3, <1>4

LEMMA OutAre == ASSUME IInv, BusTypeOK PROVE Out \subseteq Batches
BY EventsAre DEF Out, BusTypeOK

\* An event that is about to be put into a buffer is in none, and in no batch.
LEMMA MineIsNew ==
    ASSUME IInv, BusTypeOK, EventsApart, NEW p \in Publishers, pc[p] \in {"append", "direct"}
    PROVE  /\ Mine(p) \in Event /\ ~Left(Mine(p))
           /\ \A b \in Out : Mine(p) \notin Range(b)
           /\ \A c \in Categories : Mine(p) \notin Range(buffer[c])
<1>1. Mine(p) \in Event
  BY MineIsEvent DEF IInv, MidPublish
<1>2. ~Left(Mine(p))
  <2>1. Mine(p).by = p /\ Mine(p).n = sent[p] /\ sent[p] \in Nat
    BY ScriptsAssumption DEF Mine, IInv, TypeOK
  <2> QED BY <2>1 DEF Left
<1> QED BY <1>1, <1>2 DEF EventsApart

\* The locked section of _flush makes at most one batch, of a whole buffer.
LEMMA FlushMakes ==
    ASSUME IInv, NEW c \in Categories, NEW t, Flush(c, t)
    PROVE  /\ \A d \in Categories : buffer'[d] = IF d = c THEN << >> ELSE buffer[d]
           /\ emitting' = emitting \/ /\ buffer[c] # << >>
                                      /\ emitting' = emitting \cup {[by |-> t, events |-> buffer[c]]}
<1>1. buffer \in [Categories -> Seq(Event)]
  BY DEF IInv, TypeOK
<1> QED BY <1>1 DEF Flush, TakeBuffer

LEMMA OutGrows ==
    ASSUME NEW e, emitting' = emitting \cup {e}, fanout' = fanout, addressed' = addressed
    PROVE  Out' = Out \cup {e.events} /\ Unpublished' \subseteq Unpublished \cup {e}
<1>1. {g.events : g \in emitting \cup {e}} = {g.events : g \in emitting} \cup {e.events}
  OBVIOUS
<1>2. UNION {addressed'[c] : c \in Clients} = UNION {addressed[c] : c \in Clients}
  OBVIOUS
<1>3. Out' = Out \cup {e.events}
  BY <1>1, <1>2 DEF Out
<1> QED BY <1>3 DEF Unpublished, Emissions

\* When a buffer leaves as a batch, it is new and nothing in it is in a buffer.
LEMMA ApartAfterFlush ==
    ASSUME IInv, BusTypeOK, EventsApart, BatchesNew, NEW c \in Categories, NEW t, Flush(c, t),
           UNCHANGED <<script, sent, fanout, addressed>>,
           \A p \in Publishers : pc'[p] \in {"append", "direct"} => pc[p] \in {"append", "direct"}
    PROVE  EventsApart' /\ BatchesNew'
<1>1. /\ \A d \in Categories : buffer'[d] = IF d = c THEN << >> ELSE buffer[d]
      /\ emitting' = emitting \/ /\ buffer[c] # << >>
                                 /\ emitting' = emitting \cup {[by |-> t, events |-> buffer[c]]}
  BY FlushMakes
<1>2. ASSUME NEW x \in Event, Left(x) PROVE Left(x)'
  <2>1. x.by \in Publishers
    BY EventsAre DEF Event
  <2> QED BY <1>2, <2>1 DEF Left
<1>3. /\ Out \subseteq Batches
      /\ \A b \in Out \cup {buffer[c]} : \A x \in Range(b) : x \in Event
      /\ \A d \in Categories : \A x \in Range(buffer[d]) : x \in Event
  BY OutAre, EventsAre
<1>4. Range(<< >>) = {}
  BY DEF Range
<1>5. CASE emitting' = emitting
  <2>1. Out' = Out /\ Unpublished' = Unpublished
    BY <1>5 DEF Out, Unpublished, Emissions
  <2>2. EventsApart'
    BY <1>1, <1>2, <1>3, <1>4, <2>1 DEF EventsApart
  <2> QED BY <1>5, <2>1, <2>2 DEF BatchesNew
<1>6. ASSUME buffer[c] # << >>, emitting' = emitting \cup {[by |-> t, events |-> buffer[c]]}
      PROVE  EventsApart' /\ BatchesNew'
  <2>1. Out' = Out \cup {buffer[c]} /\ Unpublished' \subseteq Unpublished \cup {[by |-> t, events |-> buffer[c]]}
    <3> DEFINE e0 == [by |-> t, events |-> buffer[c]]
    <3>1. /\ emitting' = emitting \cup {e0} /\ e0.events = buffer[c]
          /\ fanout' = fanout /\ addressed' = addressed
      BY <1>6
    <3> HIDE DEF e0
    <3>2. Out' = Out \cup {e0.events} /\ Unpublished' \subseteq Unpublished \cup {e0}
      BY <3>1, OutGrows
    <3> QED BY <3>1, <3>2 DEF e0
  <2>2. PICK x \in Range(buffer[c]) : TRUE
    <3>1. buffer[c] \in Seq(Event)
      BY DEF IInv, TypeOK
    <3>2. Head(buffer[c]) \in Range(buffer[c])
      BY <1>6, <3>1, RangeTail
    <3> QED BY <3>2
  <2>3. \A b \in Out : b # buffer[c]
    BY <2>2 DEF EventsApart
  <2>4. EventsApart'
    <3>1. ASSUME NEW b \in Out' PROVE b # << >> /\ \A y \in Range(b) : Left(y)'
      BY <1>2, <1>3, <1>6, <2>1, <3>1 DEF EventsApart
    <3>2. ASSUME NEW d \in Categories, NEW y \in Range(buffer'[d])
          PROVE  Left(y)' /\ script'[y.by][y.n] = d /\ \A b \in Out' : y \notin Range(b)
      <4>1. d # c /\ y \in Range(buffer[d])
        BY <1>1, <1>4, <3>2
      <4>2. y \notin Range(buffer[c])
        BY <4>1 DEF EventsApart
      <4> QED BY <1>2, <1>3, <2>1, <4>1, <4>2 DEF EventsApart
    <3> QED BY <3>1, <3>2 DEF EventsApart
  <2>5. \A e \in emitting : e.events # buffer[c]
    BY <2>3 DEF Out
  <2>6. \A d \in Clients : buffer[c] \notin addressed[d]
    BY <2>3 DEF Out
  <2>8. BatchesNew'
    <3>1. \A e, g \in emitting' : e.events = g.events => e = g
      BY <1>6, <2>5 DEF BatchesNew
    <3>2. \A e \in Unpublished', d \in Clients : e.events \notin addressed'[d]
      BY <2>1, <2>6 DEF BatchesNew
    <3> QED BY <3>1, <3>2 DEF BatchesNew
  <2> QED BY <2>4, <2>8
<1> QED BY <1>1, <1>5, <1>6

\* When the events and the batches stay where they are.
LEMMA ApartWhenStill ==
    ASSUME IInv, BusTypeOK, EventsApart, BatchesNew,
           UNCHANGED <<script, buffer, emitting, fanout, addressed>>,
           \A x \in Event : Left(x) => Left(x)'
    PROVE  EventsApart' /\ BatchesNew'
<1>1. Out' = Out /\ Unpublished' = Unpublished
  BY DEF Out, Unpublished, Emissions
<1>2. /\ \A b \in Out : \A x \in Range(b) : x \in Event
      /\ \A d \in Categories : \A x \in Range(buffer[d]) : x \in Event
  BY OutAre, EventsAre
<1> QED BY <1>1, <1>2 DEF EventsApart, BatchesNew

LEMMA ApartAfterAppend ==
    ASSUME IInv, BusTypeOK, EventsApart, BatchesNew, NEW p \in Publishers, AppendEvent(p),
           UNCHANGED busVars
    PROVE  EventsApart' /\ BatchesNew'
<1> DEFINE c == MyCategory(p)
<1>1. /\ pc[p] = "append" /\ c \in Categories
      /\ UNCHANGED <<script, sent, emitting, fanout, addressed>>
  BY DEF AppendEvent, IInv, MidPublish, busVars
<1>2. /\ Mine(p) \in Event /\ \A b \in Out : Mine(p) \notin Range(b)
  BY <1>1, MineIsNew
<1>3. buffer \in [Categories -> Seq(Event)] /\ pc \in [Publishers -> {"idle", "append", "flush", "schedule", "direct"}]
  BY DEF IInv, TypeOK
<1>4. /\ \A d \in Categories : d # c => buffer'[d] = buffer[d]
      /\ Range(buffer'[c]) \subseteq Range(buffer[c]) \cup {Mine(p)}
  <2>1. Range(Append(buffer[c], Mine(p))) = Range(buffer[c]) \cup {Mine(p)}
    BY <1>1, <1>2, <1>3, RangeAppend
  <2>2. Range(<<Mine(p)>>) = {Mine(p)}
    BY DEF Range
  <2>3. \/ buffer' = [buffer EXCEPT ![c] = Append(buffer[c], Mine(p))]
        \/ buffer' = [buffer EXCEPT ![c] = <<Mine(p)>>]
    BY DEF AppendEvent
  <2> HIDE DEF c
  <2> QED BY <1>1, <1>3, <2>1, <2>2, <2>3
<1>5. pc'[p] \in {"flush", "schedule"} /\ \A q \in Publishers : q # p => pc'[q] = pc[q]
  BY <1>3 DEF AppendEvent, Goto
<1>6. ASSUME NEW x \in Event, Left(x) \/ x = Mine(p) PROVE Left(x)'
  <2>1. x.by \in Publishers /\ Mine(p).by = p /\ Mine(p).n = sent[p] /\ sent[p] \in Nat
    BY ScriptsAssumption DEF Event, Mine, IInv, TypeOK
  <2>2. CASE x = Mine(p)
    BY <1>1, <1>5, <2>1, <2>2 DEF Left
  <2>3. CASE Left(x)
    BY <1>1, <1>5, <2>1, <2>3 DEF Left
  <2> QED BY <1>6, <2>2, <2>3
<1>7. Out' = Out /\ Unpublished' = Unpublished
  BY <1>1 DEF Out, Unpublished, Emissions
<1>8. /\ \A b \in Out : \A x \in Range(b) : x \in Event
      /\ \A d \in Categories : \A x \in Range(buffer[d]) : x \in Event
  BY OutAre, EventsAre
<1>9. script[Mine(p).by][Mine(p).n] = c
  BY DEF Mine, MyCategory
<1> HIDE DEF c
<1>10. ASSUME NEW d \in Categories, NEW x \in Range(buffer'[d])
       PROVE  Left(x)' /\ script'[x.by][x.n] = d /\ \A b \in Out' : x \notin Range(b)
  <2>1. CASE x \in Range(buffer[d])
    BY <1>1, <1>6, <1>7, <1>8, <2>1 DEF EventsApart
  <2>2. CASE d = c /\ x = Mine(p)
    BY <1>1, <1>2, <1>6, <1>7, <1>9, <2>2
  <2> QED BY <1>4, <2>1, <2>2
<1>11. EventsApart'
  BY <1>6, <1>7, <1>8, <1>10 DEF EventsApart
<1>12. BatchesNew'
  BY <1>1, <1>7 DEF BatchesNew
<1> QED BY <1>11, <1>12

LEMMA ApartAfterDirect ==
    ASSUME IInv, BusTypeOK, EventsApart, BatchesNew, NEW p \in Publishers, PublishDirect(p),
           UNCHANGED busVars
    PROVE  EventsApart' /\ BatchesNew'
<1> DEFINE b0 == <<Mine(p)>>
           e0 == [by |-> p, events |-> b0]
<1>1. /\ pc[p] = "direct" /\ emitting' = emitting \cup {e0}
      /\ pc' = [pc EXCEPT ![p] = "idle"]
      /\ UNCHANGED <<script, sent, buffer, fanout, addressed>>
  BY DEF PublishDirect, Goto, busVars, buffers
<1>2. /\ Mine(p) \in Event /\ \A b \in Out : Mine(p) \notin Range(b)
      /\ \A c \in Categories : Mine(p) \notin Range(buffer[c])
  BY <1>1, MineIsNew
<1>3. Range(b0) = {Mine(p)} /\ b0 # << >>
  BY DEF Range
<1>4. ASSUME NEW x \in Event, Left(x) \/ x = Mine(p) PROVE Left(x)'
  <2>1. /\ x.by \in Publishers /\ Mine(p).by = p /\ Mine(p).n = sent[p] /\ sent[p] \in Nat
        /\ pc \in [Publishers -> {"idle", "append", "flush", "schedule", "direct"}]
    BY ScriptsAssumption DEF Event, Mine, IInv, TypeOK
  <2>2. CASE x = Mine(p)
    BY <1>1, <2>1, <2>2 DEF Left
  <2>3. CASE Left(x)
    BY <1>1, <2>1, <2>3 DEF Left
  <2> QED BY <1>4, <2>2, <2>3
<1>5. Out' = Out \cup {b0} /\ Unpublished' \subseteq Unpublished \cup {e0}
  <2>1. /\ emitting' = emitting \cup {e0} /\ e0.events = b0
        /\ fanout' = fanout /\ addressed' = addressed
    BY <1>1
  <2> HIDE DEF e0
  <2>2. Out' = Out \cup {e0.events} /\ Unpublished' \subseteq Unpublished \cup {e0}
    BY <2>1, OutGrows
  <2> QED BY <2>1, <2>2
<1>6. /\ \A b \in Out : \A x \in Range(b) : x \in Event
      /\ \A d \in Categories : \A x \in Range(buffer[d]) : x \in Event
  BY OutAre, EventsAre
<1>7. b0 \notin Out
  BY <1>2, <1>3
<1>8. e0.events = b0
  OBVIOUS
<1> HIDE DEF b0, e0
<1>9. EventsApart'
  <2>1. ASSUME NEW b \in Out' PROVE b # << >> /\ \A x \in Range(b) : Left(x)'
    BY <1>2, <1>3, <1>4, <1>5, <1>6, <2>1 DEF EventsApart
  <2>2. ASSUME NEW d \in Categories, NEW x \in Range(buffer'[d])
        PROVE  Left(x)' /\ script'[x.by][x.n] = d /\ \A b \in Out' : x \notin Range(b)
    BY <1>1, <1>2, <1>3, <1>4, <1>5, <1>6, <2>2 DEF EventsApart
  <2> QED BY <2>1, <2>2 DEF EventsApart
<1>10. BatchesNew'
  <2>1. \A e \in emitting : e.events # b0
    BY <1>7 DEF Out
  <2>2. \A d \in Clients : b0 \notin addressed[d]
    BY <1>7 DEF Out
  <2>3. \A e, g \in emitting' : e.events = g.events => e = g
    BY <1>1, <1>8, <2>1 DEF BatchesNew
  <2>4. \A e \in Unpublished', d \in Clients : e.events \notin addressed'[d]
    BY <1>1, <1>5, <1>8, <2>2 DEF BatchesNew
  <2> QED BY <1>1, <2>3, <2>4 DEF BatchesNew
<1> QED BY <1>9, <1>10

LEMMA ApartOfAggregator ==
    ASSUME IInv, BusTypeOK, EventsApart, BatchesNew, AggregatorStep, UNCHANGED busVars
    PROVE  EventsApart' /\ BatchesNew'
<1> USE DEF buffers, publishing, closing, counters, Goto
<1>0. /\ fanout' = fanout /\ addressed' = addressed
      /\ pc \in [Publishers -> {"idle", "append", "flush", "schedule", "direct"}]
      /\ \A p \in Publishers : sent[p] \in Nat
      /\ \A x \in Event : x.by \in Publishers /\ x.n \in Nat
  BY ScriptsAssumption DEF busVars, IInv, TypeOK, Event
<1>1. ASSUME NEW p \in Publishers, Publish(p) PROVE EventsApart' /\ BatchesNew'
  <2>1. /\ pc[p] = "idle" /\ \A q \in Publishers : q # p => pc'[q] = pc[q] /\ sent'[q] = sent[q]
        /\ sent'[p] = sent[p] + 1
        /\ UNCHANGED <<script, buffer, emitting>>
    BY <1>0, <1>1 DEF Publish, IInv, TypeOK
  <2>2. \A x \in Event : Left(x) => Left(x)'
    <3>1. ASSUME NEW x \in Event, Left(x) PROVE Left(x)'
      <4>1. x.by \in Publishers /\ x.n \in Nat /\ sent[x.by] \in Nat
        BY <1>0
      <4>2. CASE x.by = p
        BY <2>1, <3>1, <4>1, <4>2 DEF Left
      <4>3. CASE x.by # p
        BY <2>1, <3>1, <4>1, <4>3 DEF Left
      <4> QED BY <4>2, <4>3
    <3> QED BY <3>1
  <2> QED BY <1>0, <2>1, <2>2, ApartWhenStill
<1>2. ASSUME NEW p \in Publishers, AppendEvent(p) PROVE EventsApart' /\ BatchesNew'
  BY <1>2, ApartAfterAppend
<1>3. ASSUME NEW p \in Publishers, FlushFull(p) PROVE EventsApart' /\ BatchesNew'
  <2>1. MyCategory(p) \in Categories
    BY <1>3 DEF FlushFull, IInv, MidPublish
  <2>2. /\ Flush(MyCategory(p), p) /\ UNCHANGED <<script, sent, fanout, addressed>>
        /\ \A q \in Publishers : pc'[q] \in {"append", "direct"} => pc[q] \in {"append", "direct"}
    BY <1>0, <1>3 DEF FlushFull
  <2> QED BY <2>1, <2>2, ApartAfterFlush
<1>4. ASSUME NEW p \in Publishers, PublishDirect(p) PROVE EventsApart' /\ BatchesNew'
  BY <1>4, ApartAfterDirect
<1>5. ASSUME NEW c \in Categories, TimerFlush(c) PROVE EventsApart' /\ BatchesNew'
  <2>1. /\ Flush(c, Timers) /\ UNCHANGED <<script, sent, fanout, addressed>> /\ pc' = pc
    BY <1>0, <1>5 DEF TimerFlush
  <2> QED BY <2>1, ApartAfterFlush
<1>6. ASSUME NEW c \in toFlush, CloseFlush, Flush(c, Lifespan) PROVE EventsApart' /\ BatchesNew'
  <2>1. c \in Categories
    BY DEF IInv, TypeOK
  <2>2. UNCHANGED <<script, sent, fanout, addressed>> /\ pc' = pc
    BY <1>0, <1>6 DEF CloseFlush
  <2> QED BY <1>6, <2>1, <2>2, ApartAfterFlush
<1>7. ASSUME UNCHANGED <<script, buffer, sent, emitting>>,
             \A p \in Publishers : pc'[p] = pc[p] \/ pc'[p] = "idle"
      PROVE  EventsApart' /\ BatchesNew'
  <2>1. \A x \in Event : Left(x) => Left(x)'
    BY <1>0, <1>7 DEF Left
  <2> QED BY <1>0, <1>7, <2>1, ApartWhenStill
<1>8. ASSUME NEW p \in Publishers, Schedule(p) PROVE EventsApart' /\ BatchesNew'
  BY <1>0, <1>7, <1>8 DEF Schedule
<1>9. ASSUME NEW c \in Categories, Ring(c) PROVE EventsApart' /\ BatchesNew'
  BY <1>7, <1>9 DEF Ring
<1>10. CASE CloseBegin
  BY <1>7, <1>10 DEF CloseBegin
<1>11. CASE CloseFlush
  <2>1. \/ \E c \in toFlush : Flush(c, Lifespan)
        \/ UNCHANGED <<script, buffer, sent, emitting, pc>>
    BY <1>11 DEF CloseFlush
  <2> QED BY <1>6, <1>7, <1>11, <2>1
<1> QED BY <1>1, <1>2, <1>3, <1>4, <1>5, <1>8, <1>9, <1>10, <1>11 DEF AggregatorStep, PublishStep

-----------------------------------------------------------------------------
(* Types of the bus, and its batches. *)

\* What the locked section of _publish_direct does with the batch it takes up.
Begins(e) ==
    /\ e \in Unpublished
    /\ addressed' = [c \in Clients |-> addressed[c] \cup IF c \in subscribers THEN {e.events} ELSE {}]
    /\ \/ /\ subscribers = {} /\ emitting' = emitting \ {e} /\ fanout' = fanout
       \/ /\ subscribers # {} /\ emitting' = emitting
          /\ fanout' = fanout \cup {[emission |-> e, to |-> subscribers]}

LEMMA BeginMoves ==
    ASSUME FanoutBegin
    PROVE  /\ \E e \in emitting : Begins(e)
           /\ published' = published + 1
           /\ UNCHANGED <<subscribers, ready, clientQueue, connection, sending, delivered, lost,
                          slowClients, droppedMessages, droppedForSlow, coalescedForSlow>>
BY DEF FanoutBegin, Proceed, Emitted, Begins, Unpublished, Emissions, handlers

\* And asking the event loop for one of the subscribers.
Asks(f, c) ==
    /\ f \in fanout /\ c \in f.to
    /\ ready' = Append(ready, [to |-> c, batch |-> f.emission.events])
    /\ \/ /\ f.to = {c} /\ emitting' = emitting \ {f.emission} /\ fanout' = fanout \ {f}
       \/ /\ f.to # {c} /\ emitting' = emitting
          /\ fanout' = (fanout \ {f}) \cup {[emission |-> f.emission, to |-> f.to \ {c}]}

LEMMA AskMoves ==
    ASSUME BusTypeOK, FanoutStep
    PROVE  /\ \E f \in fanout : \E c \in f.to : Asks(f, c)
           /\ UNCHANGED <<subscribers, clientQueue, connection, sending, delivered, lost, addressed,
                          published, slowClients, droppedMessages, droppedForSlow, coalescedForSlow>>
<1>0. PICK f \in fanout : \E c \in f.to :
          /\ ready' = Append(ready, [to |-> c, batch |-> f.emission.events])
          /\ Proceed([f EXCEPT !.to = @ \ {c}], fanout \ {f})
  BY DEF FanoutStep
<1>1. PICK c \in f.to :
          /\ ready' = Append(ready, [to |-> c, batch |-> f.emission.events])
          /\ Proceed([f EXCEPT !.to = @ \ {c}], fanout \ {f})
  BY <1>0
<1>2. f = [emission |-> f.emission, to |-> f.to]
  BY DEF BusTypeOK
<1>3. [f EXCEPT !.to = @ \ {c}] = [emission |-> f.emission, to |-> f.to \ {c}]
  BY <1>2
<1>4. f.to \ {c} = {} <=> f.to = {c}
  OBVIOUS
<1>5. Asks(f, c)
  BY <1>1, <1>3, <1>4 DEF Asks, Proceed, Emitted
<1> QED BY <1>5 DEF FanoutStep, handlers, busCounters

\* And what the event loop does with the first callback: a batch goes onto the queue
\* of its client, alone, instead of the oldest one, or not at all.
Puts(c, b) ==
    /\ Len(clientQueue[c]) < ClientQueueMax
    /\ clientQueue' = [clientQueue EXCEPT ![c] = Append(clientQueue[c], b)]
    /\ UNCHANGED <<lost, droppedMessages>>
Refuses(c, b) ==
    /\ clientQueue' = clientQueue
    /\ lost' = [lost EXCEPT ![c] = lost[c] \cup {b}]
    /\ droppedMessages' = droppedMessages + 1
Evicts(c, b) ==
    /\ clientQueue[c] # << >>
    /\ clientQueue' = [clientQueue EXCEPT ![c] = Append(Tail(clientQueue[c]), b)]
    /\ lost' = [lost EXCEPT ![c] = lost[c] \cup {Head(clientQueue[c])}]
    /\ droppedMessages' = droppedMessages + 1

CountersAgree ==
    /\ eventsCoalesced' - eventsCoalesced = coalescedForSlow' - coalescedForSlow
    /\ (droppedForSlow' + coalescedForSlow') - (droppedForSlow + coalescedForSlow)
            = droppedMessages' - droppedMessages

LEMMA PutMoves ==
    ASSUME IInv, BusTypeOK, SafePut
    PROVE  /\ \E c \in Clients, b \in Batches :
                 /\ ready # << >> /\ Head(ready) = [to |-> c, batch |-> b]
                 /\ Puts(c, b) \/ Refuses(c, b) \/ Evicts(c, b)
           /\ ready' = Tail(ready)
           /\ CountersAgree
           /\ {slowClients', droppedMessages', droppedForSlow', coalescedForSlow'} \subseteq Nat
           /\ UNCHANGED <<subscribers, fanout, emitting, connection, sending, delivered, addressed,
                          published>>
<1> DEFINE c == Head(ready).to
           b == Head(ready).batch
<1>1. ready \in Seq([to : Clients, batch : Batches]) /\ ready # << >>
  BY DEF BusTypeOK, SafePut
<1>2. Head(ready) \in [to : Clients, batch : Batches]
  BY <1>1, RangeTail
<1>3. c \in Clients /\ b \in Batches /\ Head(ready) = [to |-> c, batch |-> b]
  BY <1>2
<1>4. /\ clientQueue[c] \in Seq(Batches) /\ Len(clientQueue[c]) \in Nat
      /\ ClientQueueMax \in Nat \ {0}
      /\ slowClients \in Nat /\ droppedMessages \in Nat /\ droppedForSlow \in Nat
      /\ coalescedForSlow \in Nat /\ eventsCoalesced \in Nat
  BY <1>3, LenProperties, ClientQueueAssumption DEF BusTypeOK, IInv, TypeOK
<1>5. /\ ready' = Tail(ready)
      /\ UNCHANGED <<subscribers, fanout, emitting, connection, sending, delivered, addressed, published>>
  BY DEF SafePut
<1>6. ASSUME ~QueueFull(c), clientQueue' = [clientQueue EXCEPT ![c] = Append(@, b)],
             UNCHANGED <<lost, slowClients, droppedMessages, droppedForSlow,
                         coalescedForSlow, eventsCoalesced, eventsDropped>>
      PROVE  /\ Puts(c, b) /\ CountersAgree
             /\ {slowClients', droppedMessages', droppedForSlow', coalescedForSlow'} \subseteq Nat
  <2>1. Len(clientQueue[c]) < ClientQueueMax
    BY <1>4, <1>6 DEF QueueFull
  <2>2. CountersAgree
    BY <1>4, <1>6 DEF CountersAgree
  <2> HIDE DEF c, b
  <2> QED BY <1>4, <1>6, <2>1, <2>2 DEF Puts
<1>7. ASSUME QueueFull(c),
             slowClients' = slowClients + 1 /\ droppedMessages' = droppedMessages + CountMessage,
             IF slowPolicy = "drop_newest"
                 THEN /\ lost' = [lost EXCEPT ![c] = @ \cup {b}]
                      /\ UNCHANGED clientQueue
                 ELSE /\ clientQueue' = [clientQueue EXCEPT ![c] = EvictAndPut(@, b)]
                      /\ lost' = [lost EXCEPT ![c] = @ \cup {Head(clientQueue[c])}],
             IF slowPolicy = "coalesce"
                 THEN /\ coalescedForSlow' = coalescedForSlow + 1
                      /\ eventsCoalesced' = eventsCoalesced + 1
                      /\ UNCHANGED <<droppedForSlow, eventsDropped>>
                 ELSE /\ droppedForSlow' = droppedForSlow + 1
                      /\ eventsDropped' = eventsDropped + 1
                      /\ UNCHANGED <<coalescedForSlow, eventsCoalesced>>
      PROVE  /\ Refuses(c, b) \/ Evicts(c, b)
             /\ CountersAgree
             /\ {slowClients', droppedMessages', droppedForSlow', coalescedForSlow'} \subseteq Nat
  <2>1. Len(clientQueue[c]) > 0
    BY <1>4, <1>7 DEF QueueFull
  <2>2. clientQueue[c] # << >>
    BY <2>1, <1>4, EmptySeq
  <2>3. droppedMessages' = droppedMessages + 1
    BY <1>7 DEF CountMessage
  <2>4. CountersAgree
    BY <1>4, <1>7, <2>3 DEF CountersAgree
  <2>5. {slowClients', droppedMessages', droppedForSlow', coalescedForSlow'} \subseteq Nat
    BY <1>4, <1>7, <2>3
  <2> HIDE DEF c, b
  <2>6. Refuses(c, b) \/ Evicts(c, b)
    BY <1>7, <2>2, <2>3 DEF Refuses, Evicts, EvictAndPut
  <2> QED BY <2>4, <2>5, <2>6
<1>8. /\ Puts(c, b) \/ Refuses(c, b) \/ Evicts(c, b)
      /\ CountersAgree
      /\ {slowClients', droppedMessages', droppedForSlow', coalescedForSlow'} \subseteq Nat
  BY <1>6, <1>7 DEF SafePut
<1> HIDE DEF c, b
<1> QED BY <1>1, <1>3, <1>5, <1>8

\* What the loop does to the client's queue and to what it lost, in types.
LEMMA PutTyped ==
    ASSUME BusTypeOK, NEW c \in Clients, NEW b \in Batches,
           Puts(c, b) \/ Refuses(c, b) \/ Evicts(c, b)
    PROVE  /\ clientQueue' \in [Clients -> Seq(Batches)] /\ lost' \in [Clients -> SUBSET Batches]
           /\ \A d \in Clients : Len(clientQueue'[d]) <= ClientQueueMax
<1>1. /\ clientQueue \in [Clients -> Seq(Batches)] /\ lost \in [Clients -> SUBSET Batches]
      /\ ClientQueueMax \in Nat
      /\ \A d \in Clients : Len(clientQueue[d]) <= ClientQueueMax /\ Len(clientQueue[d]) \in Nat
  BY LenProperties, ClientQueueAssumption DEF BusTypeOK
<1>2. CASE Puts(c, b)
  <2>1. Append(clientQueue[c], b) \in Seq(Batches) /\ Len(Append(clientQueue[c], b)) = Len(clientQueue[c]) + 1
    BY <1>1, AppendProperties
  <2> QED BY <1>1, <1>2, <2>1 DEF Puts
<1>3. CASE Refuses(c, b)
  BY <1>1, <1>3 DEF Refuses
<1>4. CASE Evicts(c, b)
  <2>1. /\ Tail(clientQueue[c]) \in Seq(Batches) /\ Head(clientQueue[c]) \in Batches
        /\ Len(Tail(clientQueue[c])) = Len(clientQueue[c]) - 1
    BY <1>1, <1>4, HeadTailProperties DEF Evicts
  <2>2. /\ Append(Tail(clientQueue[c]), b) \in Seq(Batches)
        /\ Len(Append(Tail(clientQueue[c]), b)) = Len(clientQueue[c])
    BY <1>1, <2>1, AppendProperties
  <2> QED BY <1>1, <1>4, <2>1, <2>2 DEF Evicts
<1> QED BY <1>2, <1>3, <1>4

\* The batches of a client are finitely many, and so are the publications under way.
LEMMA BusTypes == ASSUME Shape, BatchesNew, [BusNext]_allVars PROVE Shape'
<1> USE DEF Shape
<1>1. IInv'
  BY AggregatorKept
<1>2. TypeOK'
  BY <1>1 DEF IInv
<1>3. BusTypeOK /\ Finitely /\ IInv
  OBVIOUS
<1>4. \A e \in emitting : e.events \in Batches
  BY EventsAre
<1>5. CASE AggregatorStep /\ UNCHANGED busVars
  <2>1. emitting \subseteq emitting'
    BY <1>5, EmittingGrows
  <2>2. UNCHANGED <<slowPolicy, subscribers, fanout, ready, connection, clientQueue, sending, delivered,
                    published, slowClients, droppedMessages, droppedForSlow, coalescedForSlow,
                    addressed, lost>>
    BY <1>5 DEF busVars, handlers, busCounters
  <2>3. fanout' \subseteq [emission : emitting', to : (SUBSET Clients) \ {{}}]
    BY <1>3, <2>1, <2>2 DEF BusTypeOK
  <2>4. BusTypeOK'
    BY <1>2, <1>3, <2>2, <2>3 DEF BusTypeOK
  <2>5. Finitely'
    BY <1>3, <2>2 DEF Finitely
  <2> QED BY <1>1, <2>4, <2>5
<1>6. CASE FanoutBegin
  <2>1. PICK e \in emitting : Begins(e)
    BY <1>6, BeginMoves
  <2>2. /\ published' = published + 1 /\ slowPolicy' = slowPolicy
        /\ UNCHANGED <<subscribers, ready, clientQueue, connection, sending, delivered, lost,
                          slowClients, droppedMessages, droppedForSlow, coalescedForSlow>>
    BY <1>6, BeginMoves DEF FanoutBegin
  <2>3. e.events \in Batches /\ subscribers \subseteq Clients /\ e \notin Emissions
    BY <1>3, <1>4, <2>1 DEF BusTypeOK, Begins, Unpublished
  <2>4. fanout' \subseteq [emission : emitting', to : (SUBSET Clients) \ {{}}]
    <3>1. CASE subscribers = {} /\ emitting' = emitting \ {e} /\ fanout' = fanout
      BY <1>3, <2>3, <3>1 DEF BusTypeOK, Emissions
    <3>2. CASE subscribers # {} /\ emitting' = emitting
               /\ fanout' = fanout \cup {[emission |-> e, to |-> subscribers]}
      BY <1>3, <2>3, <3>2 DEF BusTypeOK
    <3> QED BY <2>1, <3>1, <3>2 DEF Begins
  <2>5. addressed' \in [Clients -> SUBSET Batches]
    BY <1>3, <2>1, <2>3 DEF BusTypeOK, Begins
  <2>6. BusTypeOK'
    <3>1. published' \in Nat
      BY <1>3, <2>2 DEF BusTypeOK
    <3> QED BY <1>2, <1>3, <2>2, <2>4, <2>5, <3>1 DEF BusTypeOK
  <2>7. Finitely'
    <3>1. IsFiniteSet(fanout')
      BY <1>3, <2>1, FS_AddElement DEF Finitely, Begins
    <3>2. ASSUME NEW c \in Clients PROVE IsFiniteSet(addressed'[c])
      <4>1. addressed'[c] = addressed[c] \/ addressed'[c] = addressed[c] \cup {e.events}
        BY <2>1 DEF Begins
      <4>2. IsFiniteSet(addressed[c])
        BY <1>3 DEF Finitely
      <4>3. IsFiniteSet(addressed[c] \cup {e.events})
        BY <4>2, FS_AddElement
      <4> QED BY <4>1, <4>2, <4>3
    <3> QED BY <3>1, <3>2 DEF Finitely
  <2> QED BY <1>1, <2>6, <2>7
<1>7. CASE FanoutStep
  <2>0. /\ slowPolicy' = slowPolicy
        /\ UNCHANGED <<subscribers, clientQueue, connection, sending, delivered, lost, addressed,
                       published, slowClients, droppedMessages, droppedForSlow, coalescedForSlow>>
    BY <1>3, <1>7, AskMoves DEF FanoutStep
  <2>1. PICK f \in fanout : \E c \in f.to : Asks(f, c)
    BY <1>3, <1>7, AskMoves
  <2>2. PICK c \in f.to : Asks(f, c)
    BY <2>1
  <2>3. /\ f.emission \in emitting /\ f.to \in (SUBSET Clients) \ {{}} /\ c \in Clients
        /\ f.emission.events \in Batches
    BY <1>3, <1>4 DEF BusTypeOK
  <2>4. ready' \in Seq([to : Clients, batch : Batches])
    <3>1. [to |-> c, batch |-> f.emission.events] \in [to : Clients, batch : Batches]
      BY <2>3
    <3> QED BY <1>3, <2>2, <3>1, AppendProperties DEF Asks, BusTypeOK
  <2>5. fanout' \subseteq [emission : emitting', to : (SUBSET Clients) \ {{}}] /\ IsFiniteSet(fanout')
    <3>1. CASE f.to = {c} /\ emitting' = emitting \ {f.emission} /\ fanout' = fanout \ {f}
      <4>1. \A g \in fanout' : g.emission # f.emission
        BY <3>1 DEF BatchesNew
      <4> QED BY <1>3, <3>1, <4>1, FS_RemoveElement DEF BusTypeOK, Finitely
    <3>2. CASE f.to # {c} /\ emitting' = emitting
               /\ fanout' = (fanout \ {f}) \cup {[emission |-> f.emission, to |-> f.to \ {c}]}
      <4>1. f.to \ {c} \in (SUBSET Clients) \ {{}}
        BY <2>3, <3>2
      <4>2. [emission |-> f.emission, to |-> f.to \ {c}] \in [emission : emitting', to : (SUBSET Clients) \ {{}}]
        BY <2>3, <3>2, <4>1
      <4>3. IsFiniteSet(fanout')
        BY <1>3, <3>2, FS_AddElement, FS_RemoveElement DEF Finitely
      <4> QED BY <1>3, <3>2, <4>2, <4>3 DEF BusTypeOK
    <3> QED BY <2>2, <3>1, <3>2 DEF Asks
  <2>6. BusTypeOK'
    BY <1>2, <1>3, <2>0, <2>4, <2>5 DEF BusTypeOK
  <2> QED BY <1>1, <1>3, <2>0, <2>5, <2>6 DEF Finitely
<1>8. CASE SafePut
  <2>1. /\ ready' = Tail(ready) /\ ready # << >> /\ slowPolicy' = slowPolicy
        /\ {slowClients', droppedMessages', droppedForSlow', coalescedForSlow'} \subseteq Nat
        /\ UNCHANGED <<subscribers, fanout, emitting, connection, sending, delivered, addressed,
                       published>>
    BY <1>3, <1>8, PutMoves DEF SafePut
  <2>2. /\ clientQueue' \in [Clients -> Seq(Batches)] /\ lost' \in [Clients -> SUBSET Batches]
        /\ \A d \in Clients : Len(clientQueue'[d]) <= ClientQueueMax
    BY <1>3, <1>8, PutMoves, PutTyped
  <2>3. ready' \in Seq([to : Clients, batch : Batches])
    BY <1>3, <2>1, HeadTailProperties DEF BusTypeOK
  <2>4. BusTypeOK'
    BY <1>2, <1>3, <2>1, <2>2, <2>3 DEF BusTypeOK
  <2> QED BY <1>1, <1>3, <2>1, <2>4 DEF Finitely
<1>9. ASSUME NEW c \in Clients, Connect(c) \/ Handler(c) PROVE Shape'
  <2>1. UNCHANGED <<slowPolicy, emitting, fanout, ready, addressed, lost, published, slowClients,
                    droppedMessages, droppedForSlow, coalescedForSlow>>
    BY <1>9 DEF Connect, Handler, HandlerGet, HandlerSend, busCounters, vars
  <2>2. /\ NoBatch \in Batches
        /\ clientQueue \in [Clients -> Seq(Batches)] /\ Len(clientQueue[c]) \in Nat
        /\ ClientQueueMax \in Nat
    BY <1>3, LenProperties, EmptySeq, ClientQueueAssumption DEF BusTypeOK, NoBatch, Batches
  <2>3. CASE Connect(c)
    BY <1>1, <1>2, <1>3, <2>1, <2>3 DEF Connect, BusTypeOK, Finitely
  <2>4. CASE HandlerGet(c)
    <3>1. /\ Head(clientQueue[c]) \in Batches /\ Tail(clientQueue[c]) \in Seq(Batches)
          /\ Len(Tail(clientQueue[c])) = Len(clientQueue[c]) - 1
      BY <2>2, <2>4, HeadTailProperties DEF HandlerGet
    <3>2. /\ clientQueue' \in [Clients -> Seq(Batches)]
          /\ \A d \in Clients : Len(clientQueue'[d]) <= ClientQueueMax
      <4>1. clientQueue' = [clientQueue EXCEPT ![c] = Tail(clientQueue[c])]
        BY <2>4 DEF HandlerGet
      <4>2. \A d \in Clients : Len(clientQueue[d]) <= ClientQueueMax
        BY <1>3 DEF BusTypeOK
      <4>3. Len(Tail(clientQueue[c])) <= ClientQueueMax
        BY <2>2, <3>1, <4>2
      <4> QED BY <2>2, <3>1, <4>1, <4>2, <4>3
    <3>3. sending' \in [Clients -> Batches] /\ connection' \in [Clients -> {"away", "waiting", "sending", "gone"}]
      BY <1>3, <2>4, <3>1 DEF HandlerGet, BusTypeOK
    <3>4. UNCHANGED <<subscribers, delivered>>
      BY <2>4 DEF HandlerGet
    <3> QED BY <1>1, <1>2, <1>3, <2>1, <3>2, <3>3, <3>4 DEF BusTypeOK, Finitely
  <2>5. CASE HandlerSend(c)
    <3>1. delivered' \in [Clients -> Seq(Batches)] /\ subscribers' \subseteq Clients
      <4>1. Append(delivered[c], sending[c]) \in Seq(Batches)
        BY <1>3, AppendProperties DEF BusTypeOK
      <4> QED BY <1>3, <2>5, <4>1 DEF HandlerSend, BusTypeOK
    <3>2. sending' \in [Clients -> Batches] /\ connection' \in [Clients -> {"away", "waiting", "sending", "gone"}]
      BY <1>3, <2>2, <2>5 DEF HandlerSend, BusTypeOK
    <3>3. clientQueue' = clientQueue
      BY <2>5 DEF HandlerSend
    <3> QED BY <1>1, <1>2, <1>3, <2>1, <3>1, <3>2, <3>3 DEF BusTypeOK, Finitely
  <2> QED BY <1>9, <2>3, <2>4, <2>5 DEF Handler
<1>10. CASE UNCHANGED allVars
  BY <1>1, <1>2, <1>3, <1>10 DEF allVars, vars, busVars, handlers, busCounters, BusTypeOK, Finitely
<1> QED BY <1>5, <1>6, <1>7, <1>8, <1>9, <1>10 DEF BusNext, BusStep

\* The bus only passes on what has left the buffers, and takes up a batch once.
LEMMA ApartOfBus ==
    ASSUME IInv, BusTypeOK, EventsApart, BatchesNew, BusStep
    PROVE  EventsApart' /\ BatchesNew'
<1>1. UNCHANGED <<script, buffer, pc, sent>>
  BY BusMoves
<1>2. \A x : Left(x) <=> Left(x)'
  BY <1>1 DEF Left
<1>3. ASSUME Out' \subseteq Out PROVE EventsApart'
  BY <1>1, <1>2, <1>3 DEF EventsApart
<1>4. CASE FanoutBegin
  <2>1. PICK e \in emitting : Begins(e)
    BY <1>4, BeginMoves
  <2>2. /\ e \in Unpublished /\ emitting' \subseteq emitting
        /\ \A c \in Clients : addressed'[c] \subseteq addressed[c] \cup {e.events}
    BY <2>1 DEF Begins
  <2>3. Out' \subseteq Out
    BY <2>1, <2>2 DEF Out
  <2>4. Unpublished' \subseteq Unpublished \ {e}
    <3>1. CASE subscribers = {} /\ emitting' = emitting \ {e} /\ fanout' = fanout
      BY <3>1 DEF Unpublished, Emissions
    <3>2. CASE subscribers # {} /\ emitting' = emitting
               /\ fanout' = fanout \cup {[emission |-> e, to |-> subscribers]}
      <4> DEFINE f0 == [emission |-> e, to |-> subscribers]
      <4>1. Emissions \subseteq Emissions' /\ f0.emission \in Emissions'
        BY <3>2 DEF Emissions
      <4>2. f0.emission = e
        OBVIOUS
      <4> QED BY <3>2, <4>1, <4>2 DEF Unpublished
    <3> QED BY <2>1, <3>1, <3>2 DEF Begins
  <2>5. \A g \in Unpublished', c \in Clients : g.events \notin addressed'[c]
    BY <2>2, <2>4 DEF BatchesNew, Unpublished
  <2>6. \A f, g \in fanout' : f.emission = g.emission => f = g
    <3>1. \A f \in fanout : f.emission # e
      BY <2>2 DEF Unpublished, Emissions
    <3>2. CASE fanout' = fanout
      BY <3>2 DEF BatchesNew
    <3>3. CASE fanout' = fanout \cup {[emission |-> e, to |-> subscribers]}
      BY <3>1, <3>3 DEF BatchesNew
    <3> QED BY <2>1, <3>2, <3>3 DEF Begins
  <2>7. BatchesNew'
    BY <2>2, <2>5, <2>6 DEF BatchesNew
  <2> QED BY <1>3, <2>3, <2>7
<1>5. CASE FanoutStep
  <2>1. PICK f \in fanout : \E c \in f.to : Asks(f, c)
    BY <1>5, AskMoves
  <2>2. PICK c \in f.to : Asks(f, c)
    BY <2>1
  <2>3. addressed' = addressed /\ emitting' \subseteq emitting
    BY <1>5, <2>2, AskMoves DEF Asks
  <2>4. Out' \subseteq Out
    BY <2>3 DEF Out
  <2>5. Unpublished' \subseteq Unpublished
    <3>1. CASE emitting' = emitting \ {f.emission} /\ fanout' = fanout \ {f}
      BY <3>1 DEF Unpublished, Emissions
    <3>2. CASE emitting' = emitting
               /\ fanout' = (fanout \ {f}) \cup {[emission |-> f.emission, to |-> f.to \ {c}]}
      <4> DEFINE f0 == [emission |-> f.emission, to |-> f.to \ {c}]
      <4>1. f0.emission = f.emission /\ f0 \in fanout' /\ \A g \in fanout : g # f => g \in fanout'
        BY <3>2
      <4> HIDE DEF f0
      <4>2. Emissions \subseteq Emissions'
        BY <4>1 DEF Emissions
      <4> QED BY <3>2, <4>2 DEF Unpublished
    <3> QED BY <2>2, <3>1, <3>2 DEF Asks
  <2>6. \A g, h \in fanout' : g.emission = h.emission => g = h
    <3>1. \A g \in fanout \ {f} : g.emission # f.emission
      BY DEF BatchesNew
    <3>2. CASE fanout' = fanout \ {f}
      BY <3>2 DEF BatchesNew
    <3>3. CASE fanout' = (fanout \ {f}) \cup {[emission |-> f.emission, to |-> f.to \ {c}]}
      BY <3>1, <3>3 DEF BatchesNew
    <3> QED BY <2>2, <3>2, <3>3 DEF Asks
  <2>7. BatchesNew'
    BY <2>3, <2>5, <2>6 DEF BatchesNew
  <2> QED BY <1>3, <2>4, <2>7
<1>6. ASSUME UNCHANGED <<emitting, fanout, addressed>> PROVE EventsApart' /\ BatchesNew'
  <2>1. Out' = Out /\ Unpublished' = Unpublished
    BY <1>6 DEF Out, Unpublished, Emissions
  <2> QED BY <1>3, <1>6, <2>1 DEF BatchesNew
<1>7. CASE SafePut
  BY <1>6, <1>7 DEF SafePut
<1>8. ASSUME NEW c \in Clients, Connect(c) \/ Handler(c) PROVE EventsApart' /\ BatchesNew'
  BY <1>6, <1>8 DEF Connect, Handler, HandlerGet, HandlerSend, vars
<1> QED BY <1>4, <1>5, <1>7, <1>8 DEF BusStep

LEMMA ApartStep ==
    ASSUME Shape, EventsApart, BatchesNew, [BusNext]_allVars
    PROVE  EventsApart' /\ BatchesNew'
<1>1. CASE UNCHANGED allVars
  <2>1. Out' = Out /\ Unpublished' = Unpublished /\ UNCHANGED <<script, buffer, sent, pc, emitting, fanout, addressed>>
    BY <1>1 DEF allVars, vars, busVars, buffers, publishing, Out, Unpublished, Emissions
  <2> QED BY <2>1 DEF EventsApart, BatchesNew, Left
<1> QED BY <1>1, ApartOfBus, ApartOfAggregator DEF BusNext, Shape

-----------------------------------------------------------------------------
(* Every batch of a client is in one place. *)

\* Taking a batch up asks for it for each subscriber, and it is new to all of them.
LEMMA PlacesAfterBegin ==
    ASSUME Shape, BatchesNew, OnePlace, NEW e, Begins(e), NEW c \in Clients
    PROVE  IF c \in subscribers
           THEN /\ FansTo(c)' = FansTo(c) \cup {[emission |-> e, to |-> subscribers]}
                /\ [emission |-> e, to |-> subscribers] \notin FansTo(c)
                /\ Asked(c)' = Asked(c) \cup {e.events}
                /\ addressed'[c] = addressed[c] \cup {e.events} /\ e.events \notin addressed[c]
           ELSE FansTo(c)' = FansTo(c) /\ Asked(c)' = Asked(c) /\ addressed'[c] = addressed[c]
<1> DEFINE f0 == [emission |-> e, to |-> subscribers]
<1>1. f0.emission = e /\ f0.to = subscribers
  OBVIOUS
<1>2. e.events \notin addressed[c] /\ \A f \in fanout : f.emission # e
  BY DEF Begins, BatchesNew, Unpublished, Emissions
<1>3. /\ addressed'[c] = addressed[c] \cup IF c \in subscribers THEN {e.events} ELSE {}
      /\ fanout' = IF subscribers = {} THEN fanout ELSE fanout \cup {f0}
  BY DEF Begins
<1> HIDE DEF f0
<1>4. CASE c \in subscribers
  <2>1. FansTo(c)' = FansTo(c) \cup {f0} /\ f0 \notin FansTo(c)
    BY <1>1, <1>2, <1>3, <1>4 DEF FansTo
  <2>2. Asked(c)' = Asked(c) \cup {e.events}
    BY <1>1, <2>1 DEF Asked
  <2> QED BY <1>2, <1>3, <1>4, <2>1, <2>2 DEF f0
<1>5. CASE c \notin subscribers
  <2>1. FansTo(c)' = FansTo(c)
    BY <1>1, <1>3, <1>5 DEF FansTo
  <2>2. Asked(c)' = Asked(c)
    BY <2>1 DEF Asked
  <2> QED BY <1>3, <1>5, <2>1, <2>2
<1> QED BY <1>4, <1>5

\* Asking the loop moves the batch of one client from one place to the next.
LEMMA PlacesAfterAsk ==
    ASSUME Shape, BatchesNew, NEW f, NEW c, Asks(f, c)
    PROVE  /\ c \in Clients /\ f.emission.events \in Batches
           /\ f.emission.events \in Asked(c)
           /\ Asked(c)' = Asked(c) \ {f.emission.events}
           /\ FansTo(c)' = FansTo(c) \ {f} /\ f \in FansTo(c)
           /\ \A d \in Clients \ {c} :
                 /\ Asked(d)' = Asked(d)
                 /\ Cardinality(FansTo(d)') = Cardinality(FansTo(d))
<1> DEFINE f0 == [emission |-> f.emission, to |-> f.to \ {c}]
<1>1. f0.emission = f.emission /\ f0.to = f.to \ {c}
  OBVIOUS
<1>2. /\ f \in fanout /\ c \in f.to /\ f.emission \in emitting /\ f.to \subseteq Clients
      /\ \A g \in fanout : g.emission \in emitting
      /\ f.emission.events \in Batches
  BY EventsAre DEF Asks, Shape, BusTypeOK
<1>3. fanout' = IF f.to = {c} THEN fanout \ {f} ELSE (fanout \ {f}) \cup {f0}
  BY DEF Asks
<1>4. \A g \in fanout : g # f => g.emission # f.emission /\ g.emission.events # f.emission.events
  BY <1>2 DEF BatchesNew
<1> HIDE DEF f0
<1>5. FansTo(c)' = FansTo(c) \ {f} /\ f \in FansTo(c)
  BY <1>1, <1>2, <1>3 DEF FansTo
<1>6. Asked(c)' = Asked(c) \ {f.emission.events} /\ f.emission.events \in Asked(c)
  BY <1>4, <1>5 DEF Asked, FansTo
<1>7. ASSUME NEW d \in Clients \ {c}
      PROVE  Asked(d)' = Asked(d) /\ Cardinality(FansTo(d)') = Cardinality(FansTo(d))
  <2>1. CASE d \in f.to
    <3>1. f.to # {c}
      BY <1>7, <2>1
    <3>2. FansTo(d)' = (FansTo(d) \ {f}) \cup {f0} /\ f \in FansTo(d)
      BY <1>1, <1>2, <1>3, <1>7, <2>1, <3>1 DEF FansTo
    <3>3. f0 \notin FansTo(d) \ {f}
      BY <1>1, <1>4 DEF FansTo
    <3>4. IsFiniteSet(FansTo(d))
      BY FS_Subset DEF FansTo, Shape, Finitely
    <3>5. /\ IsFiniteSet(FansTo(d) \ {f}) /\ Cardinality(FansTo(d) \ {f}) = Cardinality(FansTo(d)) - 1
          /\ Cardinality(FansTo(d)) \in Nat
      BY <3>2, <3>4, FS_RemoveElement, FS_CardinalityType
    <3>6. Cardinality(FansTo(d)') = Cardinality(FansTo(d) \ {f}) + 1
      BY <3>2, <3>3, <3>5, FS_AddElement
    <3>7. Asked(d)' = Asked(d)
      BY <1>1, <3>2 DEF Asked
    <3> QED BY <3>5, <3>6, <3>7
  <2>2. CASE d \notin f.to
    <3>1. FansTo(d)' = FansTo(d)
      BY <1>1, <1>2, <1>3, <1>7, <2>2 DEF FansTo
    <3> QED BY <3>1 DEF Asked
  <2> QED BY <2>1, <2>2
<1> QED BY <1>2, <1>5, <1>6, <1>7

LEMMA CallsAre ==
    ASSUME BusTypeOK
    PROVE  \A r \in Range(ready) : r = [to |-> r.to, batch |-> r.batch] /\ r.to \in Clients
                                   /\ r.batch \in Batches
<1>1. ready \in Seq([to : Clients, batch : Batches])
  BY DEF BusTypeOK
<1>2. \A i \in DOMAIN ready : ready[i] \in [to : Clients, batch : Batches]
  BY <1>1, LenProperties, ElementOfSeq
<1> QED BY <1>2 DEF Range

\* A callback more, of a batch that had none for this client.
LEMMA CalledAfterAppend ==
    ASSUME BusTypeOK, CalledOnce, NEW c \in Clients, NEW b \in Batches, b \notin Called(c),
           ready' = Append(ready, [to |-> c, batch |-> b])
    PROVE  /\ Called(c)' = Called(c) \cup {b} /\ CalledOnce'
           /\ \A d \in Clients \ {c} : Called(d)' = Called(d)
<1> DEFINE r0 == [to |-> c, batch |-> b]
<1>1. r0 \in [to : Clients, batch : Batches] /\ ready \in Seq([to : Clients, batch : Batches])
  BY DEF BusTypeOK
<1>2. r0.to = c /\ r0.batch = b /\ ready' = Append(ready, r0)
  OBVIOUS
<1> HIDE DEF r0
<1>3. Range(ready') = Range(ready) \cup {r0}
  <2>1. Range(Append(ready, r0)) = Range(ready) \cup {r0}
    <3> DEFINE R == [to : Clients, batch : Batches]
    <3>1. r0 \in R /\ ready \in Seq(R)
      BY <1>1
    <3> HIDE DEF R
    <3> QED BY <3>1, RangeAppend
  <2>2. Range(ready') = Range(Append(ready, r0))
    BY <1>2
  <2> QED BY <2>1, <2>2
<1>4. r0 \notin Range(ready)
  BY <1>2 DEF Called
<1>5. CalledOnce'
  BY <1>1, <1>2, <1>4, InjectiveAppend DEF CalledOnce
<1> QED BY <1>2, <1>3, <1>5 DEF Called

\* A callback less.
LEMMA CalledAfterTail ==
    ASSUME BusTypeOK, CalledOnce, NEW c \in Clients, NEW b \in Batches, ready # << >>,
           Head(ready) = [to |-> c, batch |-> b], ready' = Tail(ready)
    PROVE  /\ Called(c)' = Called(c) \ {b} /\ b \in Called(c) /\ CalledOnce'
           /\ \A d \in Clients \ {c} : Called(d)' = Called(d)
<1>1. ready \in Seq([to : Clients, batch : Batches])
  BY DEF BusTypeOK
<1>2. Range(ready') = Range(ready) \ {Head(ready)} /\ CalledOnce' /\ Head(ready) \in Range(ready)
  BY <1>1, InjectiveTail, RangeTail DEF CalledOnce
<1>3. \A r \in Range(ready) : r = [to |-> r.to, batch |-> r.batch]
  BY CallsAre
<1>4. Head(ready).to = c /\ Head(ready).batch = b
  OBVIOUS
<1>5. \A r \in Range(ready) : r.to = c /\ r.batch = b => r = Head(ready)
  BY <1>3
<1>6. Called(c)' = Called(c) \ {b} /\ b \in Called(c)
  BY <1>2, <1>4, <1>5 DEF Called
<1>7. \A d \in Clients \ {c} : Called(d)' = Called(d)
  BY <1>2, <1>4 DEF Called
<1> QED BY <1>2, <1>6, <1>7

\* What the loop does with a batch leaves it in one place, and the queue with what it had.
LEMMA PlacesAfterPut ==
    ASSUME Shape, OnePlace, NEW c \in Clients, NEW b \in Batches, b \in Called(c),
           Puts(c, b) \/ Refuses(c, b) \/ Evicts(c, b)
    PROVE  /\ Queued(c)' \cup lost'[c] = Queued(c) \cup lost[c] \cup {b}
           /\ Queued(c)' \cap lost'[c] = {} /\ IsInjective(clientQueue'[c])
           /\ \A d \in Clients \ {c} : clientQueue'[d] = clientQueue[d] /\ lost'[d] = lost[d]
           /\ \/ Puts(c, b) /\ Len(clientQueue'[c]) = Len(clientQueue[c]) + 1 /\ lost' = lost
                            /\ droppedMessages' = droppedMessages
              \/ /\ Len(clientQueue'[c]) = Len(clientQueue[c])
                 /\ \E x : x \notin lost[c] /\ lost'[c] = lost[c] \cup {x}
                 /\ droppedMessages' = droppedMessages + 1
<1>1. /\ clientQueue \in [Clients -> Seq(Batches)] /\ lost \in [Clients -> SUBSET Batches]
      /\ clientQueue[c] \in Seq(Batches)
  BY DEF Shape, BusTypeOK
<1>2. b \notin Queued(c) /\ b \notin lost[c] /\ Queued(c) \cap lost[c] = {} /\ IsInjective(clientQueue[c])
  BY DEF OnePlace
<1>3. CASE Puts(c, b)
  <2>1. clientQueue'[c] = Append(clientQueue[c], b) /\ UNCHANGED <<lost, droppedMessages>>
        /\ \A d \in Clients \ {c} : clientQueue'[d] = clientQueue[d]
    BY <1>1, <1>3 DEF Puts
  <2>2. /\ Queued(c)' = Queued(c) \cup {b} /\ IsInjective(clientQueue'[c])
        /\ Len(clientQueue'[c]) = Len(clientQueue[c]) + 1
    BY <1>1, <1>2, <2>1, RangeAppend, InjectiveAppend, AppendProperties DEF Queued
  <2> QED BY <1>2, <1>3, <2>1, <2>2
<1>4. CASE Refuses(c, b)
  <2>1. /\ clientQueue' = clientQueue /\ lost'[c] = lost[c] \cup {b}
        /\ droppedMessages' = droppedMessages + 1
        /\ \A d \in Clients \ {c} : lost'[d] = lost[d]
    BY <1>1, <1>4 DEF Refuses
  <2> QED BY <1>2, <2>1 DEF Queued
<1>5. CASE Evicts(c, b)
  <2> DEFINE h == Head(clientQueue[c])
             q == Tail(clientQueue[c])
  <2>1. /\ clientQueue[c] # << >> /\ clientQueue'[c] = Append(q, b) /\ lost'[c] = lost[c] \cup {h}
        /\ droppedMessages' = droppedMessages + 1
        /\ \A d \in Clients \ {c} : lost'[d] = lost[d] /\ clientQueue'[d] = clientQueue[d]
    BY <1>1, <1>5 DEF Evicts
  <2>2. /\ q \in Seq(Batches) /\ IsInjective(q) /\ Range(q) = Queued(c) \ {h} /\ h \in Queued(c)
        /\ Len(q) = Len(clientQueue[c]) - 1 /\ Len(clientQueue[c]) \in Nat
    BY <1>1, <1>2, <2>1, InjectiveTail, RangeTail, HeadTailProperties, LenProperties DEF Queued
  <2> HIDE DEF q, h
  <2>3. /\ IsInjective(Append(q, b)) /\ Range(Append(q, b)) = Range(q) \cup {b}
        /\ Len(Append(q, b)) = Len(q) + 1
    BY <1>2, <2>2, RangeAppend, InjectiveAppend, AppendProperties
  <2>4. Queued(c)' = (Queued(c) \ {h}) \cup {b}
    BY <2>1, <2>2, <2>3 DEF Queued
  <2>5. h \notin lost[c] /\ h # b
    BY <1>2, <2>2
  <2>6. Len(clientQueue'[c]) = Len(clientQueue[c])
    BY <2>1, <2>2, <2>3
  <2> QED BY <1>2, <2>1, <2>2, <2>3, <2>4, <2>5, <2>6
<1> QED BY <1>3, <1>4, <1>5

\* Every step keeps a batch of a client in one place.
LEMMA OnePlaceStep ==
    ASSUME Shape, BatchesNew, OnePlace, CalledOnce, [BusNext]_allVars
    PROVE  OnePlace' /\ CalledOnce'
<1>1. ASSUME UNCHANGED <<fanout, ready, clientQueue, lost, addressed>>
      PROVE  OnePlace' /\ CalledOnce'
  <2>1. \A c \in Clients : /\ Asked(c)' = Asked(c) /\ Called(c)' = Called(c)
                           /\ Queued(c)' = Queued(c)
    BY <1>1 DEF Asked, FansTo, Called, Queued
  <2> QED BY <1>1, <2>1 DEF OnePlace, CalledOnce
<1>2. CASE AggregatorStep /\ UNCHANGED busVars
  BY <1>1, <1>2 DEF busVars, handlers
<1>3. CASE FanoutBegin
  <2>1. PICK e \in emitting : Begins(e)
    BY <1>3, BeginMoves
  <2>2. UNCHANGED <<ready, clientQueue, lost>>
    BY <1>3, BeginMoves
  <2>3. \A c \in Clients : Called(c)' = Called(c) /\ Queued(c)' = Queued(c)
    BY <2>2 DEF Called, Queued
  <2>4. ASSUME NEW c \in Clients
        PROVE  \/ Asked(c)' = Asked(c) /\ addressed'[c] = addressed[c]
               \/ /\ Asked(c)' = Asked(c) \cup {e.events} /\ e.events \notin addressed[c]
                  /\ addressed'[c] = addressed[c] \cup {e.events}
    BY <2>1, PlacesAfterBegin
  <2>5. CalledOnce'
    BY <2>2 DEF CalledOnce
  <2>6. OnePlace'
    BY <2>2, <2>3, <2>4 DEF OnePlace
  <2> QED BY <2>5, <2>6
<1>4. CASE FanoutStep
  <2>0. UNCHANGED <<clientQueue, lost, addressed>> /\ BusTypeOK
    BY <1>4, AskMoves DEF Shape
  <2>1. PICK f \in fanout : \E c \in f.to : Asks(f, c)
    BY <1>4, <2>0, AskMoves
  <2>2. PICK c \in f.to : Asks(f, c)
    BY <2>1
  <2> DEFINE b == f.emission.events
  <2>3. /\ c \in Clients /\ b \in Batches /\ b \in Asked(c) /\ Asked(c)' = Asked(c) \ {b}
        /\ \A d \in Clients \ {c} : Asked(d)' = Asked(d)
    BY <2>2, PlacesAfterAsk
  <2>4. b \notin Called(c) /\ ready' = Append(ready, [to |-> c, batch |-> b])
    BY <2>2, <2>3 DEF OnePlace, Asks
  <2> HIDE DEF b
  <2>5. /\ Called(c)' = Called(c) \cup {b} /\ CalledOnce'
        /\ \A d \in Clients \ {c} : Called(d)' = Called(d)
    BY <2>0, <2>3, <2>4, CalledAfterAppend
  <2>6. \A d \in Clients : Queued(d)' = Queued(d)
    BY <2>0 DEF Queued
  <2>7. OnePlace'
    BY <2>0, <2>3, <2>5, <2>6 DEF OnePlace
  <2> QED BY <2>5, <2>7
<1>5. CASE SafePut
  <2>0. UNCHANGED <<fanout, addressed>> /\ ready' = Tail(ready) /\ BusTypeOK
    BY <1>5, PutMoves DEF Shape
  <2>1. PICK c \in Clients, b \in Batches :
            /\ ready # << >> /\ Head(ready) = [to |-> c, batch |-> b]
            /\ Puts(c, b) \/ Refuses(c, b) \/ Evicts(c, b)
    BY <1>5, PutMoves DEF Shape
  <2>2. /\ Called(c)' = Called(c) \ {b} /\ b \in Called(c) /\ CalledOnce'
        /\ \A d \in Clients \ {c} : Called(d)' = Called(d)
    BY <2>0, <2>1, CalledAfterTail
  <2>3. /\ Queued(c)' \cup lost'[c] = Queued(c) \cup lost[c] \cup {b}
        /\ Queued(c)' \cap lost'[c] = {} /\ IsInjective(clientQueue'[c])
        /\ \A d \in Clients \ {c} : clientQueue'[d] = clientQueue[d] /\ lost'[d] = lost[d]
    BY <2>1, <2>2, PlacesAfterPut
  <2>4. /\ \A d \in Clients : Asked(d)' = Asked(d)
        /\ \A d \in Clients \ {c} : Queued(d)' = Queued(d)
    BY <2>0, <2>3 DEF Asked, FansTo, Queued
  <2>5. ASSUME NEW d \in Clients
        PROVE  /\ (Asked(d) \cup Called(d) \cup Queued(d) \cup lost[d] \subseteq addressed[d])'
               /\ (Asked(d) \cap Called(d) = {})'
               /\ ((Asked(d) \cup Called(d)) \cap (Queued(d) \cup lost[d]) = {})'
               /\ (Queued(d) \cap lost[d] = {})'
               /\ IsInjective(clientQueue[d])'
    <3>1. CASE d = c
      BY <2>0, <2>2, <2>3, <2>4, <3>1 DEF OnePlace
    <3>2. CASE d # c
      BY <2>0, <2>2, <2>3, <2>4, <3>2 DEF OnePlace
    <3> QED BY <3>1, <3>2
  <2>6. OnePlace'
    BY <2>5 DEF OnePlace
  <2> QED BY <2>2, <2>6
<1>6. ASSUME NEW c \in Clients, HandlerGet(c) PROVE OnePlace' /\ CalledOnce'
  <2>1. /\ UNCHANGED <<fanout, ready, lost, addressed>> /\ clientQueue[c] # << >>
        /\ clientQueue' = [clientQueue EXCEPT ![c] = Tail(clientQueue[c])]
    BY <1>6 DEF HandlerGet
  <2>2. clientQueue \in [Clients -> Seq(Batches)] /\ clientQueue[c] \in Seq(Batches)
    BY DEF Shape, BusTypeOK
  <2>3. /\ clientQueue'[c] = Tail(clientQueue[c])
        /\ \A d \in Clients \ {c} : clientQueue'[d] = clientQueue[d]
    BY <2>1, <2>2
  <2>4. IsInjective(clientQueue'[c]) /\ Queued(c)' \subseteq Queued(c)
    BY <2>1, <2>2, <2>3, InjectiveTail DEF OnePlace, Queued
  <2>5. /\ \A d \in Clients : Asked(d)' = Asked(d) /\ Called(d)' = Called(d)
        /\ \A d \in Clients \ {c} : Queued(d)' = Queued(d)
    BY <2>1, <2>3 DEF Asked, FansTo, Called, Queued
  <2>6. OnePlace'
    BY <2>1, <2>3, <2>4, <2>5 DEF OnePlace
  <2> QED BY <2>1, <2>6 DEF CalledOnce
<1>7. ASSUME NEW c \in Clients, Connect(c) \/ HandlerSend(c) PROVE OnePlace' /\ CalledOnce'
  BY <1>1, <1>7 DEF Connect, HandlerSend
<1>8. CASE UNCHANGED allVars
  BY <1>1, <1>8 DEF allVars, busVars, handlers
<1> QED BY <1>2, <1>3, <1>4, <1>5, <1>6, <1>7, <1>8 DEF BusNext, BusStep, Handler

-----------------------------------------------------------------------------
(* The deliveries of a client. *)

CallOf(c) == [to : {c}, batch : Batches]

LEMMA CallsCounted ==
    ASSUME NEW s \in Seq([to : Clients, batch : Batches]), NEW c \in Clients
    PROVE  {i \in DOMAIN s : s[i].to = c} = Where(s, CallOf(c))
<1>1. \A i \in DOMAIN s : s[i] \in [to : Clients, batch : Batches]
  BY LenProperties, ElementOfSeq
<1> QED BY <1>1 DEF Where, CallOf

LEMMA NumbersNat ==
    ASSUME Shape, OnePlace, NEW c \in Clients
    PROVE  /\ IsFiniteSet(FansTo(c)) /\ IsFiniteSet(lost[c]) /\ IsFiniteSet(addressed[c])
           /\ Cardinality(FansTo(c)) \in Nat /\ Cardinality(lost[c]) \in Nat
           /\ Cardinality(addressed[c]) \in Nat /\ Cardinality(CallsTo(c)) \in Nat
           /\ CallsTo(c) = Where(ready, CallOf(c))
           /\ Len(delivered[c]) \in Nat /\ Len(clientQueue[c]) \in Nat
           /\ OnTheWay(c) = Cardinality(FansTo(c)) + Cardinality(CallsTo(c))
<1>1. FansTo(c) \in SUBSET fanout /\ lost[c] \in SUBSET addressed[c]
  BY DEF FansTo, OnePlace
<1>2. IsFiniteSet(fanout) /\ IsFiniteSet(addressed[c])
  BY DEF Shape, Finitely
<1>3. ready \in Seq([to : Clients, batch : Batches])
  BY DEF Shape, BusTypeOK
<1>4. CallsTo(c) = Where(ready, CallOf(c))
  BY <1>3, CallsCounted DEF CallsTo
<1>5. Cardinality(CallsTo(c)) \in Nat
  BY <1>3, <1>4, WhereFinite
<1>6. Len(delivered[c]) \in Nat /\ Len(clientQueue[c]) \in Nat
  BY LenProperties DEF Shape, BusTypeOK
<1> QED BY <1>1, <1>2, <1>4, <1>5, <1>6, FS_Subset, FS_CardinalityType DEF OnTheWay, FansTo, CallsTo

Sending(c) == IF connection[c] = "sending" THEN 1 ELSE 0
DeliveredTo(c) ==
    Cardinality(addressed[c]) = Len(delivered[c]) + Len(clientQueue[c]) + OnTheWay(c)
                                  + Cardinality(lost[c]) + Sending(c)

\* A step that concerns other clients.
LEMMA Untouched ==
    ASSUME NEW c \in Clients, DeliveredTo(c), CallsTo(c)' = CallsTo(c),
           Cardinality(FansTo(c)') = Cardinality(FansTo(c)), addressed'[c] = addressed[c],
           lost'[c] = lost[c], delivered'[c] = delivered[c], clientQueue'[c] = clientQueue[c],
           Sending(c)' = Sending(c)
    PROVE  DeliveredTo(c)'
BY DEF DeliveredTo, OnTheWay, CallsTo, FansTo

\* What leaves one place of a client reaches another.
LEMMA Rebalance ==
    ASSUME Shape, OnePlace, NEW c \in Clients, DeliveredTo(c),
           \/ /\ Cardinality(addressed'[c]) = Cardinality(addressed[c]) + 1
              /\ OnTheWay(c)' = OnTheWay(c) + 1
              /\ clientQueue'[c] = clientQueue[c] /\ lost'[c] = lost[c]
           \/ /\ addressed'[c] = addressed[c]
              /\ OnTheWay(c)' = OnTheWay(c) - 1
              /\ \/ Len(clientQueue'[c]) = Len(clientQueue[c]) + 1 /\ lost'[c] = lost[c]
                 \/ /\ Len(clientQueue'[c]) = Len(clientQueue[c])
                    /\ Cardinality(lost'[c]) = Cardinality(lost[c]) + 1
           \/ /\ addressed'[c] = addressed[c] /\ OnTheWay(c)' = OnTheWay(c)
              /\ clientQueue'[c] = clientQueue[c] /\ lost'[c] = lost[c],
           delivered'[c] = delivered[c], Sending(c)' = Sending(c)
    PROVE  DeliveredTo(c)'
<1> DEFINE a0 == Cardinality(addressed[c])
           a1 == Cardinality(addressed'[c])
           q0 == Len(clientQueue[c])
           q1 == Len(clientQueue'[c])
           w0 == OnTheWay(c)
           w1 == OnTheWay(c)'
           l0 == Cardinality(lost[c])
           l1 == Cardinality(lost'[c])
           d0 == Len(delivered[c])
           s0 == Sending(c)
<1>1. a0 \in Nat /\ q0 \in Nat /\ w0 \in Nat /\ l0 \in Nat /\ d0 \in Nat /\ s0 \in Nat
  BY NumbersNat DEF Sending
<1>2. \/ a1 = a0 + 1 /\ w1 = w0 + 1 /\ q1 = q0 /\ l1 = l0
      \/ a1 = a0 /\ w1 = w0 - 1 /\ ((q1 = q0 + 1 /\ l1 = l0) \/ (q1 = q0 /\ l1 = l0 + 1))
      \/ a1 = a0 /\ w1 = w0 /\ q1 = q0 /\ l1 = l0
  OBVIOUS
<1>3. a0 = d0 + q0 + w0 + l0 + s0
  BY DEF DeliveredTo
<1>4. DeliveredTo(c)' <=> a1 = d0 + q1 + w1 + l1 + s0
  BY DEF DeliveredTo
<1> HIDE DEF a0, a1, q0, q1, w0, w1, l0, l1, d0, s0
<1>5. a1 = d0 + q1 + w1 + l1 + s0
  BY <1>1, <1>2, <1>3
<1> QED BY <1>4, <1>5

\* No step loses a batch of a client that is still connected, or counts it twice.
LEMMA DeliveredStep ==
    ASSUME Shape, Shape', BatchesNew, OnePlace, CalledOnce, DeliveredOnce, [BusNext]_allVars
    PROVE  DeliveredOnce'
<1>1. \A c \in Clients : connection[c] # "gone" => DeliveredTo(c)
  BY DEF DeliveredOnce, DeliveredTo, Sending
<1>2. (\A c \in Clients : connection'[c] # "gone" => DeliveredTo(c)') => DeliveredOnce'
  BY DEF DeliveredOnce, DeliveredTo, Sending
<1>3. ready \in Seq([to : Clients, batch : Batches]) /\ ready' \in Seq([to : Clients, batch : Batches])
  BY DEF Shape, BusTypeOK
<1>4. ASSUME UNCHANGED <<fanout, ready, clientQueue, delivered, lost, addressed>>,
             \A c \in Clients : connection'[c] # "gone" => connection[c] # "gone" /\ Sending(c)' = Sending(c)
      PROVE  DeliveredOnce'
  <2>1. ASSUME NEW c \in Clients, connection'[c] # "gone" PROVE DeliveredTo(c)'
    BY <1>1, <1>4, <2>1, Untouched DEF CallsTo, FansTo
  <2> QED BY <1>2, <2>1
<1>5. CASE (AggregatorStep /\ UNCHANGED busVars) \/ UNCHANGED allVars
  BY <1>4, <1>5 DEF busVars, handlers, allVars, Sending
<1>6. CASE FanoutBegin
  <2>1. PICK e \in emitting : Begins(e)
    BY <1>6, BeginMoves
  <2>2. UNCHANGED <<ready, clientQueue, lost, connection, delivered>>
    BY <1>6, BeginMoves
  <2>3. ASSUME NEW c \in Clients, connection'[c] # "gone" PROVE DeliveredTo(c)'
    <3>1. CallsTo(c)' = CallsTo(c) /\ Sending(c)' = Sending(c) /\ DeliveredTo(c)
      BY <1>1, <2>2, <2>3 DEF CallsTo, Sending
    <3>2. CASE c \in subscribers
      <4>1. /\ FansTo(c)' = FansTo(c) \cup {[emission |-> e, to |-> subscribers]}
            /\ [emission |-> e, to |-> subscribers] \notin FansTo(c)
            /\ addressed'[c] = addressed[c] \cup {e.events} /\ e.events \notin addressed[c]
        BY <2>1, <3>2, PlacesAfterBegin
      <4>2. /\ Cardinality(FansTo(c)') = Cardinality(FansTo(c)) + 1
            /\ Cardinality(addressed'[c]) = Cardinality(addressed[c]) + 1
        BY <4>1, NumbersNat, FS_AddElement
      <4>3. OnTheWay(c)' = OnTheWay(c) + 1
        <5>1. OnTheWay(c)' = Cardinality(FansTo(c)') + Cardinality(CallsTo(c)')
          BY DEF OnTheWay, CallsTo, FansTo
        <5> QED BY <3>1, <4>2, <5>1, NumbersNat
      <4> QED BY <2>2, <3>1, <4>2, <4>3, Rebalance
    <3>3. CASE c \notin subscribers
      BY <2>1, <2>2, <3>1, <3>3, PlacesAfterBegin, Untouched
    <3> QED BY <3>2, <3>3
  <2> QED BY <1>2, <2>3
<1>7. CASE FanoutStep
  <2>0. UNCHANGED <<clientQueue, lost, addressed, connection, delivered>>
    BY <1>7, AskMoves DEF Shape
  <2>1. PICK f \in fanout : \E c \in f.to : Asks(f, c)
    BY <1>7, AskMoves DEF Shape
  <2>2. PICK c \in f.to : Asks(f, c)
    BY <2>1
  <2> DEFINE b == f.emission.events
             r0 == [to |-> c, batch |-> b]
  <2>3. /\ c \in Clients /\ b \in Batches
        /\ FansTo(c)' = FansTo(c) \ {f} /\ f \in FansTo(c)
        /\ \A d \in Clients \ {c} : Cardinality(FansTo(d)') = Cardinality(FansTo(d))
    BY <2>2, PlacesAfterAsk
  <2>4. ready' = Append(ready, r0) /\ r0 \in [to : Clients, batch : Batches] /\ r0 \in CallOf(c)
        /\ \A d \in Clients \ {c} : r0 \notin CallOf(d)
    BY <2>2, <2>3 DEF Asks, CallOf
  <2> HIDE DEF b, r0
  <2>5. ASSUME NEW d \in Clients, connection'[d] # "gone" PROVE DeliveredTo(d)'
    <3>1. Sending(d)' = Sending(d) /\ DeliveredTo(d)
      BY <1>1, <2>0, <2>5 DEF Sending
    <3>2. Cardinality(CallsTo(d)') = Cardinality(CallsTo(d)) + IF d = c THEN 1 ELSE 0
      <4>1. CallsTo(d)' = Where(Append(ready, r0), CallOf(d)) /\ CallsTo(d) = Where(ready, CallOf(d))
        BY <1>3, <2>4, CallsCounted DEF CallsTo
      <4>2. Cardinality(Where(Append(ready, r0), CallOf(d))) =
                Cardinality(Where(ready, CallOf(d))) + IF r0 \in CallOf(d) THEN 1 ELSE 0
        <5> DEFINE R == [to : Clients, batch : Batches]
        <5>1. r0 \in R /\ ready \in Seq(R)
          BY <1>3, <2>4
        <5> HIDE DEF R
        <5> QED BY <5>1, WhereAppend
      <4> QED BY <2>4, <4>1, <4>2
    <3>3. Cardinality(FansTo(d)') = Cardinality(FansTo(d)) - IF d = c THEN 1 ELSE 0
      <4>1. CASE d = c
        BY <2>3, <4>1, NumbersNat, FS_RemoveElement
      <4>2. CASE d # c
        BY <2>3, <4>2, NumbersNat
      <4> QED BY <4>1, <4>2
    <3>4. OnTheWay(d)' = OnTheWay(d)
      <4>1. OnTheWay(d)' = Cardinality(FansTo(d)') + Cardinality(CallsTo(d)')
        BY DEF OnTheWay, CallsTo, FansTo
      <4> QED BY <3>2, <3>3, <4>1, NumbersNat
    <3> QED BY <2>0, <3>1, <3>4 DEF DeliveredTo
  <2> QED BY <1>2, <2>5
<1>8. CASE SafePut
  <2>0. UNCHANGED <<fanout, addressed, connection, delivered>> /\ ready' = Tail(ready)
    BY <1>8, PutMoves DEF Shape
  <2>1. PICK c \in Clients, b \in Batches :
            /\ ready # << >> /\ Head(ready) = [to |-> c, batch |-> b]
            /\ Puts(c, b) \/ Refuses(c, b) \/ Evicts(c, b)
    BY <1>8, PutMoves DEF Shape
  <2>2. b \in Called(c)
    BY <2>0, <2>1, CalledAfterTail DEF Shape
  <2>3. /\ \A d \in Clients \ {c} : clientQueue'[d] = clientQueue[d] /\ lost'[d] = lost[d]
        /\ \/ Len(clientQueue'[c]) = Len(clientQueue[c]) + 1 /\ lost' = lost
           \/ /\ Len(clientQueue'[c]) = Len(clientQueue[c])
              /\ \E x : x \notin lost[c] /\ lost'[c] = lost[c] \cup {x}
    BY <2>1, <2>2, PlacesAfterPut
  <2>4. ASSUME NEW d \in Clients
        PROVE  Cardinality(CallsTo(d)') = Cardinality(CallsTo(d)) - IF d = c THEN 1 ELSE 0
    <3>1. CallsTo(d)' = Where(Tail(ready), CallOf(d)) /\ CallsTo(d) = Where(ready, CallOf(d))
      BY <1>3, <2>0, CallsCounted DEF CallsTo
    <3>2. Cardinality(Where(Tail(ready), CallOf(d))) =
              Cardinality(Where(ready, CallOf(d))) - IF Head(ready) \in CallOf(d) THEN 1 ELSE 0
      <4> DEFINE R == [to : Clients, batch : Batches]
      <4>1. ready \in Seq(R) /\ ready # << >>
        BY <1>3, <2>1
      <4> HIDE DEF R
      <4> QED BY <4>1, WhereTail
    <3>3. Head(ready) \in CallOf(d) <=> d = c
      BY <2>1 DEF CallOf
    <3> QED BY <3>1, <3>2, <3>3
  <2>5. ASSUME NEW d \in Clients, connection'[d] # "gone" PROVE DeliveredTo(d)'
    <3>1. Sending(d)' = Sending(d) /\ DeliveredTo(d) /\ FansTo(d)' = FansTo(d)
      BY <1>1, <2>0, <2>5 DEF Sending, FansTo
    <3>2. OnTheWay(d)' = OnTheWay(d) - IF d = c THEN 1 ELSE 0
      <4>1. OnTheWay(d)' = Cardinality(FansTo(d)') + Cardinality(CallsTo(d)')
        BY DEF OnTheWay, CallsTo, FansTo
      <4> QED BY <2>4, <3>1, <4>1, NumbersNat
    <3>3. CASE d # c
      <4>1. OnTheWay(d)' = OnTheWay(d)
        BY <3>2, <3>3, NumbersNat
      <4> QED BY <2>0, <2>3, <3>1, <3>3, <4>1, Rebalance
    <3>4. CASE d = c
      <4>1. OnTheWay(c)' = OnTheWay(c) - 1
        BY <3>2, <3>4
      <4>2. CASE lost' = lost /\ Len(clientQueue'[c]) = Len(clientQueue[c]) + 1
        BY <2>0, <3>1, <3>4, <4>1, <4>2, Rebalance
      <4>3. CASE Len(clientQueue'[c]) = Len(clientQueue[c])
                 /\ \E x : x \notin lost[c] /\ lost'[c] = lost[c] \cup {x}
        <5>1. PICK x : x \notin lost[c] /\ lost'[c] = lost[c] \cup {x}
          BY <4>3
        <5>2. Cardinality(lost'[c]) = Cardinality(lost[c]) + 1
          BY <5>1, NumbersNat, FS_AddElement
        <5> QED BY <2>0, <3>1, <3>4, <4>1, <4>3, <5>2, Rebalance
      <4> QED BY <2>3, <4>2, <4>3
    <3> QED BY <3>3, <3>4
  <2> QED BY <1>2, <2>5
<1>9. ASSUME NEW c \in Clients, Connect(c) PROVE DeliveredOnce'
  <2>1. UNCHANGED <<fanout, ready, clientQueue, delivered, lost, addressed>>
    BY <1>9 DEF Connect
  <2>2. \A d \in Clients : connection'[d] # "gone" => connection[d] # "gone" /\ Sending(d)' = Sending(d)
    BY <1>9 DEF Connect, Sending, Shape, BusTypeOK
  <2> QED BY <1>4, <2>1, <2>2
<1>10. ASSUME NEW c \in Clients, Handler(c), NEW d \in Clients, connection'[d] # "gone"
       PROVE  DeliveredTo(d)'
  <2>1. /\ UNCHANGED <<fanout, ready, lost, addressed>>
        /\ clientQueue \in [Clients -> Seq(Batches)] /\ delivered \in [Clients -> Seq(Batches)]
        /\ connection \in [Clients -> {"away", "waiting", "sending", "gone"}]
        /\ sending \in [Clients -> Batches]
    BY <1>10 DEF Handler, HandlerGet, HandlerSend, Shape, BusTypeOK
  <2>2. CallsTo(d)' = CallsTo(d) /\ FansTo(d)' = FansTo(d) /\ OnTheWay(d)' = OnTheWay(d)
    BY <2>1 DEF CallsTo, FansTo, OnTheWay
  <2>3. CASE d # c
    <3>1. connection'[d] = connection[d] /\ clientQueue'[d] = clientQueue[d] /\ delivered'[d] = delivered[d]
      BY <1>10, <2>1, <2>3 DEF Handler, HandlerGet, HandlerSend
    <3> QED BY <1>1, <1>10, <2>1, <2>2, <3>1, Untouched DEF Sending
  <2>4. CASE d = c /\ HandlerGet(c)
    <3>1. /\ connection[c] = "waiting" /\ connection'[c] = "sending" /\ delivered' = delivered
          /\ clientQueue[c] # << >> /\ clientQueue'[c] = Tail(clientQueue[c])
      BY <2>1, <2>4 DEF HandlerGet
    <3>2. Len(clientQueue'[c]) = Len(clientQueue[c]) - 1
      BY <2>1, <3>1, HeadTailProperties
    <3>3. Sending(c)' = 1 /\ Sending(c) = 0 /\ DeliveredTo(c)
      BY <1>1, <3>1 DEF Sending
    <3> QED BY <2>1, <2>2, <2>4, <3>1, <3>2, <3>3, NumbersNat DEF DeliveredTo
  <2>5. CASE d = c /\ HandlerSend(c)
    <3>1. /\ connection[c] = "sending" /\ connection'[c] = "waiting" /\ clientQueue' = clientQueue
          /\ delivered'[c] = Append(delivered[c], sending[c])
      BY <1>10, <2>1, <2>5 DEF HandlerSend
    <3>2. Len(delivered'[c]) = Len(delivered[c]) + 1
      BY <2>1, <3>1, AppendProperties
    <3>3. Sending(c)' = 0 /\ Sending(c) = 1 /\ DeliveredTo(c)
      BY <1>1, <3>1 DEF Sending
    <3> QED BY <2>1, <2>2, <2>5, <3>1, <3>2, <3>3, NumbersNat DEF DeliveredTo
  <2> QED BY <1>10, <2>3, <2>4, <2>5 DEF Handler
<1> QED BY <1>2, <1>5, <1>6, <1>7, <1>8, <1>9, <1>10 DEF BusNext, BusStep

-----------------------------------------------------------------------------
(* The totals. *)

Losses == Tagged(Clients, lost)

LEMMA LossesAre ==
    ASSUME Shape, OnePlace
    PROVE  /\ \A c \in Clients : IsFiniteSet(lost[c]) /\ Cardinality(lost[c]) \in Nat
           /\ Cardinality(Losses) \in Nat
           /\ Losses = UNION {{c} \X lost[c] : c \in Clients}
<1>1. \A c \in Clients : IsFiniteSet(lost[c]) /\ Cardinality(lost[c]) \in Nat
  BY NumbersNat
<1>2. Cardinality(Losses) \in Nat
  BY <1>1, ClientsAssumption, TaggedFinite DEF Losses
<1>3. Losses = UNION {{c} \X lost[c] : c \in Clients}
  BY DEF Losses, Tagged
<1> QED BY <1>1, <1>2, <1>3

\* A batch that a client's queue evicts or refuses is counted once, under one name.
LEMMA LossesStep ==
    ASSUME Shape, Shape', OnePlace, CalledOnce, LossesCounted, [BusNext]_allVars
    PROVE  LossesCounted'
<1>1. Cardinality(Losses) = droppedMessages /\ droppedForSlow + coalescedForSlow = droppedMessages
  BY LossesAre DEF LossesCounted
<1>2. (Cardinality(Losses)' = droppedMessages' /\ droppedForSlow' + coalescedForSlow' = droppedMessages')
          => LossesCounted'
  BY DEF LossesCounted, Losses, Tagged
<1>3. ASSUME UNCHANGED <<lost, droppedMessages, droppedForSlow, coalescedForSlow>> PROVE LossesCounted'
  BY <1>1, <1>2, <1>3 DEF Losses
<1>4. CASE (AggregatorStep /\ UNCHANGED busVars) \/ UNCHANGED allVars
  BY <1>3, <1>4 DEF busVars, busCounters, allVars
<1>5. CASE FanoutBegin
  BY <1>3, <1>5, BeginMoves
<1>6. CASE FanoutStep
  BY <1>3, <1>6, AskMoves DEF Shape
<1>7. ASSUME NEW c \in Clients, Connect(c) \/ Handler(c) PROVE LossesCounted'
  BY <1>3, <1>7 DEF Connect, Handler, HandlerGet, HandlerSend, busCounters
<1>8. CASE SafePut
  <2>1. PICK c \in Clients, b \in Batches :
            /\ ready # << >> /\ Head(ready) = [to |-> c, batch |-> b]
            /\ Puts(c, b) \/ Refuses(c, b) \/ Evicts(c, b)
    BY <1>8, PutMoves DEF Shape
  <2>0. ready' = Tail(ready)
    BY <1>8, PutMoves DEF Shape
  <2>2. b \in Called(c)
    BY <2>0, <2>1, CalledAfterTail DEF Shape
  <2>3. droppedForSlow' + coalescedForSlow' = droppedMessages'
    <3>1. CountersAgree
      BY <1>8, PutMoves DEF Shape
    <3>2. {droppedForSlow, coalescedForSlow, droppedMessages} \subseteq Nat
          /\ {droppedForSlow', coalescedForSlow', droppedMessages'} \subseteq Nat
      BY DEF Shape, BusTypeOK
    <3> QED BY <1>1, <3>1, <3>2 DEF CountersAgree
  <2>4. CASE lost' = lost /\ droppedMessages' = droppedMessages
    BY <1>1, <1>2, <2>3, <2>4 DEF Losses
  <2>5. CASE /\ \E x : x \notin lost[c] /\ lost'[c] = lost[c] \cup {x}
             /\ droppedMessages' = droppedMessages + 1
    <3>1. PICK x : x \notin lost[c] /\ lost'[c] = lost[c] \cup {x}
      BY <2>5
    <3>2. Cardinality(lost'[c]) = Cardinality(lost[c]) + 1
      BY <3>1, LossesAre, FS_AddElement
    <3>3. \A d \in Clients \ {c} : lost'[d] = lost[d]
      BY <2>1, <2>2, PlacesAfterPut
    <3>4. \A d \in Clients : IsFiniteSet(lost[d]) /\ IsFiniteSet(lost'[d])
      <4>1. IsFiniteSet(lost'[c])
        BY <3>1, LossesAre, FS_AddElement
      <4> QED BY <3>3, <4>1, LossesAre
    <3>5. Cardinality(Losses)' - Cardinality(Losses) = Cardinality(lost'[c]) - Cardinality(lost[c])
      BY <3>3, <3>4, ClientsAssumption, TaggedMoves DEF Losses
    <3>6. Cardinality(Losses) \in Nat /\ Cardinality(Losses)' \in Nat /\ Cardinality(lost[c]) \in Nat
      <4>1. Cardinality(Losses)' \in Nat
        BY <3>4, ClientsAssumption, TaggedFinite DEF Losses
      <4> QED BY <4>1, LossesAre
    <3>7. Cardinality(Losses)' = droppedMessages'
      BY <1>1, <2>5, <3>2, <3>5, <3>6
    <3> QED BY <1>2, <2>3, <3>7
  <2> QED BY <2>1, <2>2, <2>4, <2>5, PlacesAfterPut
<1> QED BY <1>4, <1>5, <1>6, <1>7, <1>8 DEF BusNext, BusStep

\* How many events wait in buffers, and how many were published directly.
InBuffers(f) == Cardinality(Tagged(Categories, [c \in Categories |-> DOMAIN f[c]]))
DirectsOf(t, s) == {x \in Publishers \X (1 .. Events) : x[2] <= s[x[1]] /\ t[x[1]][x[2]] = "direct"}
SentDirectly(t, s) == Cardinality(DirectsOf(t, s))

LEMMA TaggedPerCategory ==
    ASSUME NEW S, NEW R, NEW c \in Categories,
           \A d \in Categories : IsFiniteSet(S[d]) /\ IsFiniteSet(R[d]),
           \A d \in Categories \ {c} : R[d] = S[d]
    PROVE  Cardinality(Tagged(Categories, R)) - Cardinality(Tagged(Categories, S)) =
               Cardinality(R[c]) - Cardinality(S[c])
<1>1. IsFiniteSet(Categories)
  BY CategoriesAssumption
<1> QED BY <1>1, TaggedMoves

\* Changing one buffer changes their number by as much as the buffer's length.
LEMMA InBuffersMoves ==
    ASSUME NEW f \in [Categories -> Seq(Event)], NEW g \in [Categories -> Seq(Event)],
           NEW c \in Categories, \A d \in Categories \ {c} : g[d] = f[d]
    PROVE  InBuffers(g) - InBuffers(f) = Len(g[c]) - Len(f[c])
<1> DEFINE F == [d \in Categories |-> DOMAIN f[d]]
           G == [d \in Categories |-> DOMAIN g[d]]
<1>1. ASSUME NEW s \in Seq(Event)
      PROVE  IsFiniteSet(DOMAIN s) /\ Cardinality(DOMAIN s) = Len(s)
  <2>1. DOMAIN s = 1 .. Len(s) /\ Len(s) \in Nat
    BY LenProperties
  <2> QED BY <2>1, UpTo
<1>2. \A d \in Categories : IsFiniteSet(F[d]) /\ IsFiniteSet(G[d])
  BY <1>1
<1>6. Cardinality(F[c]) = Len(f[c]) /\ Cardinality(G[c]) = Len(g[c])
  BY <1>1
<1>3. \A d \in Categories \ {c} : G[d] = F[d]
  OBVIOUS
<1>4. InBuffers(f) = Cardinality(Tagged(Categories, F)) /\ InBuffers(g) = Cardinality(Tagged(Categories, G))
  BY DEF InBuffers
<1> HIDE DEF F, G
<1>5. Cardinality(Tagged(Categories, G)) - Cardinality(Tagged(Categories, F)) =
          Cardinality(G[c]) - Cardinality(F[c])
  BY <1>2, <1>3, TaggedPerCategory
<1> QED BY <1>4, <1>5, <1>6

LEMMA InBuffersNat ==
    ASSUME NEW f \in [Categories -> Seq(Event)]
    PROVE  InBuffers(f) \in Nat
<1> DEFINE F == [d \in Categories |-> DOMAIN f[d]]
<1>1. \A d \in Categories : DOMAIN f[d] = 1 .. Len(f[d]) /\ Len(f[d]) \in Nat
  BY LenProperties
<1>2. \A d \in Categories : IsFiniteSet(F[d])
  BY <1>1, FS_Interval
<1> HIDE DEF F
<1>3. Cardinality(Tagged(Categories, F)) \in Nat
  BY <1>2, CategoriesAssumption, TaggedFinite
<1> QED BY <1>3 DEF InBuffers, F

LEMMA DirectsFinite ==
    ASSUME NEW t, NEW s
    PROVE  IsFiniteSet(DirectsOf(t, s)) /\ SentDirectly(t, s) \in Nat
<1>1. IsFiniteSet(1 .. Events) /\ IsFiniteSet(Publishers)
  BY FS_Interval, ScriptsAssumption, PublishersAssumption
<1>2. IsFiniteSet(Publishers \X (1 .. Events))
  BY <1>1, FS_Product
<1>3. DirectsOf(t, s) \in SUBSET (Publishers \X (1 .. Events))
  BY DEF DirectsOf
<1> QED BY <1>2, <1>3, FS_Subset, FS_CardinalityType DEF SentDirectly

\* Publishing one more event counts as one more if it is of no category.
LEMMA DirectsMoves ==
    ASSUME NEW t, NEW s \in [Publishers -> 0 .. Events], NEW p \in Publishers, s[p] + 1 <= Events
    PROVE  SentDirectly(t, [s EXCEPT ![p] = s[p] + 1]) =
               SentDirectly(t, s) + IF t[p][s[p] + 1] = "direct" THEN 1 ELSE 0
<1> DEFINE new == [s EXCEPT ![p] = s[p] + 1]
           x == <<p, s[p] + 1>>
<1>1. /\ Events \in Nat /\ s[p] \in Nat /\ new[p] = s[p] + 1
      /\ \A q \in Publishers : q # p => new[q] = s[q]
  BY ScriptsAssumption
<1>2. x \in Publishers \X (1 .. Events) /\ x \notin DirectsOf(t, s)
  BY <1>1 DEF DirectsOf
<1>3. \A y \in Publishers \X (1 .. Events) :
          y[2] <= new[y[1]] <=> y[2] <= s[y[1]] \/ y = x
  BY <1>1
<1>4. DirectsOf(t, new) = IF t[p][s[p] + 1] = "direct" THEN DirectsOf(t, s) \cup {x} ELSE DirectsOf(t, s)
  BY <1>2, <1>3 DEF DirectsOf
<1> HIDE DEF new, x
<1>5. SentDirectly(t, new) = SentDirectly(t, s) + IF t[p][s[p] + 1] = "direct" THEN 1 ELSE 0
  <2>1. IsFiniteSet(DirectsOf(t, s)) /\ SentDirectly(t, s) \in Nat
    BY DirectsFinite
  <2>2. Cardinality(DirectsOf(t, s) \cup {x}) = Cardinality(DirectsOf(t, s)) + 1
    BY <1>2, <2>1, FS_AddElement
  <2>3. CASE t[p][s[p] + 1] = "direct"
    BY <1>4, <2>2, <2>3 DEF SentDirectly
  <2>4. CASE t[p][s[p] + 1] # "direct"
    BY <1>4, <2>1, <2>4 DEF SentDirectly
  <2> QED BY <2>3, <2>4
<1> QED BY <1>5 DEF new

\* Received events, and batches evicted by coalescing, against where they are.
Balance(received, evicted, flushed, coalesced, waiting, appending, direct) ==
    received + evicted = flushed + coalesced + waiting + appending + direct
Appending(at) == HowMany(Publishers, at, {"append"})

LEMMA AppendingUp ==
    ASSUME NEW at, NEW after, NEW p \in Publishers,
           \A q \in Publishers : q # p => after[q] = at[q],
           at[p] \notin {"append"}, after[p] \in {"append"}
    PROVE  Appending(after) = Appending(at) + 1
<1> DEFINE S == {"append"}
<1>1. IsFiniteSet(Publishers) /\ at[p] \notin S /\ after[p] \in S
  BY PublishersAssumption
<1> HIDE DEF S
<1>2. HowMany(Publishers, after, S) = HowMany(Publishers, at, S) + 1
  BY <1>1, CountUp
<1> QED BY <1>2 DEF Appending, S

LEMMA AppendingDown ==
    ASSUME NEW at, NEW after, NEW p \in Publishers,
           \A q \in Publishers : q # p => after[q] = at[q],
           at[p] \in {"append"}, after[p] \notin {"append"}
    PROVE  Appending(after) = Appending(at) - 1
<1> DEFINE S == {"append"}
<1>1. IsFiniteSet(Publishers) /\ at[p] \in S /\ after[p] \notin S
  BY PublishersAssumption
<1> HIDE DEF S
<1>2. HowMany(Publishers, after, S) = HowMany(Publishers, at, S) - 1
  BY <1>1, CountDown
<1> QED BY <1>2 DEF Appending, S

LEMMA AppendingStays ==
    ASSUME NEW at, NEW after, NEW p \in Publishers,
           \A q \in Publishers : q # p => after[q] = at[q],
           at[p] \notin {"append"}, after[p] \notin {"append"}
    PROVE  Appending(after) = Appending(at)
<1> DEFINE S == {"append"}
<1>1. IsFiniteSet(Publishers) /\ at[p] \notin S /\ after[p] \notin S
  BY PublishersAssumption
<1> HIDE DEF S
<1>2. HowMany(Publishers, after, S) = HowMany(Publishers, at, S)
  BY <1>1, CountSame
<1> QED BY <1>2 DEF Appending, S

LEMMA ConservedIs ==
    /\ EventsConserved <=>
          Balance(eventsReceived, coalescedForSlow, eventsSent, eventsCoalesced,
                  InBuffers(buffer), Appending(pc), SentDirectly(script, sent))
    /\ EventsConserved' <=>
          Balance(eventsReceived', coalescedForSlow', eventsSent', eventsCoalesced',
                  InBuffers(buffer'), Appending(pc'), SentDirectly(script', sent'))
<1>1. ASSUME NEW f
      PROVE  Tagged(Categories, [c \in Categories |-> DOMAIN f[c]]) =
                 UNION {{c} \X DOMAIN f[c] : c \in Categories}
  <2>1. \A c \in Categories : {c} \X ([d \in Categories |-> DOMAIN f[d]])[c] = {c} \X DOMAIN f[c]
    OBVIOUS
  <2> QED BY <2>1 DEF Tagged
<1>2. Cardinality(Places) = InBuffers(buffer) /\ Cardinality(Places)' = InBuffers(buffer')
  BY <1>1 DEF Places, InBuffers
<1>3. ASSUME NEW at PROVE {p \in Publishers : at[p] = "append"} = Standing(Publishers, at, {"append"})
  BY DEF Standing
<1>4. /\ Cardinality(AtStep("append")) = Appending(pc)
      /\ Cardinality(AtStep("append"))' = Appending(pc')
  BY <1>3 DEF AtStep, Appending, HowMany
<1>5. /\ Cardinality(Directs) = SentDirectly(script, sent)
      /\ Cardinality(Directs)' = SentDirectly(script', sent')
  BY DEF Directs, SentDirectly, DirectsOf
<1> QED BY <1>2, <1>4, <1>5 DEF EventsConserved, Balance

\* What the terms of the balance are.
LEMMA TotalsNat ==
    ASSUME Shape
    PROVE  /\ {eventsReceived, coalescedForSlow, eventsSent, eventsCoalesced} \subseteq Nat
           /\ InBuffers(buffer) \in Nat /\ Appending(pc) \in Nat /\ SentDirectly(script, sent) \in Nat
<1>1. /\ {eventsReceived, coalescedForSlow, eventsSent, eventsCoalesced} \subseteq Nat
      /\ buffer \in [Categories -> Seq(Event)]
  BY DEF Shape, BusTypeOK, TypeOK
<1> QED BY <1>1, InBuffersNat, CountNat, DirectsFinite, PublishersAssumption DEF Appending

\* A flush moves a buffer's events to those sent.
LEMMA FlushBalances ==
    ASSUME Shape, NEW c \in Categories, NEW t \in Publishers \cup {Timers}, Flush(c, t)
    PROVE  /\ eventsSent' - eventsSent = InBuffers(buffer) - InBuffers(buffer')
           /\ InBuffers(buffer') \in Nat /\ eventsSent' \in Nat
<1>1. TypeOK
  BY DEF Shape, IInv
<1>2. /\ buffer \in [Categories -> Seq(Event)] /\ buffer' \in [Categories -> Seq(Event)]
      /\ buffer'[c] = << >> /\ \A d \in Categories \ {c} : buffer'[d] = buffer[d]
      /\ eventsSent' \in Nat /\ eventsSent \in Nat
      /\ eventsSent' = eventsSent + Len(buffer[c])
  BY <1>1, FlushFacts DEF TypeOK, Flush
<1>3. Len(buffer[c]) \in Nat /\ Len(buffer'[c]) = 0
  BY <1>2, LenProperties, EmptySeq
<1>4. InBuffers(buffer') - InBuffers(buffer) = Len(buffer'[c]) - Len(buffer[c])
  BY <1>2, InBuffersMoves
<1>5. InBuffers(buffer') \in Nat /\ InBuffers(buffer) \in Nat
  BY <1>2, InBuffersNat
<1> QED BY <1>2, <1>3, <1>4, <1>5

\* Putting an event into a buffer takes it from its publisher, and a summary that it
\* replaces to the coalesced ones.
LEMMA AppendBalances ==
    ASSUME Shape, NEW p \in Publishers, AppendEvent(p)
    PROVE  /\ InBuffers(buffer') - InBuffers(buffer) + (eventsCoalesced' - eventsCoalesced) = 1
           /\ Appending(pc') = Appending(pc) - 1
           /\ InBuffers(buffer') \in Nat /\ eventsCoalesced' \in Nat
<1> DEFINE c == MyCategory(p)
<1>1. /\ buffer \in [Categories -> Seq(Event)] /\ pc \in [Publishers -> {"idle", "append", "flush", "schedule", "direct"}]
      /\ eventsCoalesced \in Nat /\ pc[p] = "append" /\ sent[p] \in 1 .. Len(script[p])
      /\ TypeOK /\ c \in Categories
  BY DEF Shape, IInv, TypeOK, MidPublish, AppendEvent
<1>2. Mine(p) \in Event
  BY <1>1, MineIsEvent
<1>3. /\ \A q \in Publishers : q # p => pc'[q] = pc[q]
      /\ pc'[p] \notin {"append"} /\ pc[p] \in {"append"}
  BY <1>1 DEF AppendEvent, Goto
<1>4. Appending(pc') = Appending(pc) - 1
  BY <1>3, AppendingDown
<1>5. /\ buffer[c] \in Seq(Event) /\ Len(buffer[c]) \in Nat
      /\ Append(buffer[c], Mine(p)) \in Seq(Event) /\ <<Mine(p)>> \in Seq(Event)
      /\ Len(Append(buffer[c], Mine(p))) = Len(buffer[c]) + 1 /\ Len(<<Mine(p)>>) = 1
  BY <1>1, <1>2, LenProperties, AppendProperties
<1>6. \/ /\ buffer' = [buffer EXCEPT ![c] = Append(buffer[c], Mine(p))]
         /\ eventsCoalesced' = eventsCoalesced
      \/ /\ buffer' = [buffer EXCEPT ![c] = <<Mine(p)>>]
         /\ eventsCoalesced' = eventsCoalesced + Len(buffer[c])
  BY DEF AppendEvent
<1> HIDE DEF c
<1>7. /\ buffer' \in [Categories -> Seq(Event)]
      /\ \A d \in Categories \ {c} : buffer'[d] = buffer[d]
      /\ Len(buffer'[c]) - Len(buffer[c]) + (eventsCoalesced' - eventsCoalesced) = 1
      /\ eventsCoalesced' \in Nat /\ Len(buffer'[c]) \in Nat
  <2>1. CASE /\ buffer' = [buffer EXCEPT ![c] = Append(buffer[c], Mine(p))]
             /\ eventsCoalesced' = eventsCoalesced
    <3>1. /\ buffer' \in [Categories -> Seq(Event)] /\ buffer'[c] = Append(buffer[c], Mine(p))
          /\ \A d \in Categories \ {c} : buffer'[d] = buffer[d]
      BY <1>1, <1>5, <2>1
    <3> QED BY <1>1, <1>5, <2>1, <3>1
  <2>2. CASE /\ buffer' = [buffer EXCEPT ![c] = <<Mine(p)>>]
             /\ eventsCoalesced' = eventsCoalesced + Len(buffer[c])
    <3>1. /\ buffer' \in [Categories -> Seq(Event)] /\ buffer'[c] = <<Mine(p)>>
          /\ \A d \in Categories \ {c} : buffer'[d] = buffer[d]
      BY <1>1, <1>5, <2>2
    <3> QED BY <1>1, <1>5, <2>2, <3>1
  <2> QED BY <1>6, <2>1, <2>2
<1>8. InBuffers(buffer') - InBuffers(buffer) = Len(buffer'[c]) - Len(buffer[c])
  BY <1>1, <1>7, InBuffersMoves
<1>9. InBuffers(buffer') \in Nat /\ InBuffers(buffer) \in Nat
  BY <1>1, <1>7, InBuffersNat
<1> QED BY <1>1, <1>4, <1>5, <1>7, <1>8, <1>9

\* Publishing adds an event, in the hands of its publisher or emitted directly.
LEMMA PublishBalances ==
    ASSUME Shape, NEW p \in Publishers, Publish(p)
    PROVE  Appending(pc') + SentDirectly(script', sent') = Appending(pc) + SentDirectly(script, sent) + 1
<1>1. /\ pc \in [Publishers -> {"idle", "append", "flush", "schedule", "direct"}]
      /\ sent \in [Publishers -> 0 .. Events] /\ script \in Scripts /\ pc[p] = "idle"
      /\ sent[p] < Len(script[p]) /\ script' = script
      /\ sent' = [sent EXCEPT ![p] = sent[p] + 1]
      /\ pc' = [pc EXCEPT ![p] = IF script[p][sent[p] + 1] = "direct" THEN "direct" ELSE "append"]
  BY DEF Shape, IInv, TypeOK, Publish, Goto
<1>2. sent[p] + 1 <= Events
  <2>1. Len(script[p]) <= Events /\ script[p] \in Seq(Categories \cup {"direct"}) /\ Events \in Nat
    BY <1>1, ScriptsAssumption
  <2>2. Len(script[p]) \in Nat
    BY <2>1, LenProperties
  <2> QED BY <1>1, <2>1, <2>2
<1>3. SentDirectly(script', sent') =
          SentDirectly(script, sent) + IF script[p][sent[p] + 1] = "direct" THEN 1 ELSE 0
  BY <1>1, <1>2, DirectsMoves
<1>4. Appending(pc') = Appending(pc) + IF script[p][sent[p] + 1] = "direct" THEN 0 ELSE 1
  <2>0. \A q \in Publishers : q # p => pc'[q] = pc[q]
    BY <1>1
  <2>1. CASE script[p][sent[p] + 1] = "direct"
    <3>1. pc[p] \notin {"append"} /\ pc'[p] \notin {"append"}
      BY <1>1, <2>1
    <3>2. Appending(pc') = Appending(pc)
      BY <2>0, <3>1, AppendingStays
    <3> QED BY <2>1, <3>2, TotalsNat
  <2>2. CASE script[p][sent[p] + 1] # "direct"
    <3>1. pc[p] \notin {"append"} /\ pc'[p] \in {"append"}
      BY <1>1, <2>2
    <3>2. Appending(pc') = Appending(pc) + 1
      BY <2>0, <3>1, AppendingUp
    <3> QED BY <2>2, <3>2
  <2> QED BY <2>1, <2>2
<1>5. Appending(pc) \in Nat /\ SentDirectly(script, sent) \in Nat
  BY TotalsNat
<1> QED BY <1>3, <1>4, <1>5

\* No step loses an event, or has it in two places.
LEMMA ConservedStep ==
    ASSUME Shape, Shape', EventsConserved, [BusNext]_allVars
    PROVE  EventsConserved'
<1>0. /\ {eventsReceived, coalescedForSlow, eventsSent, eventsCoalesced} \subseteq Nat
      /\ InBuffers(buffer) \in Nat /\ Appending(pc) \in Nat /\ SentDirectly(script, sent) \in Nat
      /\ Balance(eventsReceived, coalescedForSlow, eventsSent, eventsCoalesced,
                 InBuffers(buffer), Appending(pc), SentDirectly(script, sent))
  BY TotalsNat, ConservedIs
<1> DEFINE Balanced == Balance(eventsReceived', coalescedForSlow', eventsSent', eventsCoalesced',
                               InBuffers(buffer'), Appending(pc'), SentDirectly(script', sent'))
<1>1. Balanced => EventsConserved'
  BY ConservedIs
<1>2. ASSUME UNCHANGED <<eventsReceived, eventsSent, buffer, script, sent>>, Appending(pc') = Appending(pc),
             eventsCoalesced' - eventsCoalesced = coalescedForSlow' - coalescedForSlow
      PROVE  Balanced
  <2>1. coalescedForSlow' \in Nat /\ eventsCoalesced' \in Nat
    BY DEF Shape, IInv, BusTypeOK, TypeOK
  <2> QED BY <1>0, <1>2, <2>1 DEF Balance
<1>3. ASSUME NEW c \in Categories, NEW t \in Publishers \cup {Timers}, Flush(c, t),
             UNCHANGED <<eventsReceived, eventsCoalesced, coalescedForSlow, script, sent>>,
             Appending(pc') = Appending(pc)
      PROVE  Balanced
  BY <1>0, <1>3, FlushBalances DEF Balance
<1>4. ASSUME NEW p \in Publishers, Publish(p), UNCHANGED busVars PROVE Balanced
  <2>1. /\ UNCHANGED <<buffer, eventsSent, eventsCoalesced, coalescedForSlow>>
        /\ eventsReceived' = eventsReceived + 1
    BY <1>4 DEF Publish, buffers, busVars, busCounters
  <2>2. Appending(pc') \in Nat /\ SentDirectly(script', sent') \in Nat
    BY CountNat, DirectsFinite, PublishersAssumption DEF Appending
  <2> QED BY <1>0, <1>4, <2>1, <2>2, PublishBalances DEF Balance
<1>5. ASSUME NEW p \in Publishers, AppendEvent(p), UNCHANGED busVars PROVE Balanced
  <2>1. UNCHANGED <<script, sent, eventsReceived, eventsSent, coalescedForSlow>>
    BY <1>5 DEF AppendEvent, busVars, busCounters
  <2> QED BY <1>0, <1>5, <2>1, AppendBalances DEF Balance
<1>6. ASSUME NEW p \in Publishers, FlushFull(p) \/ Schedule(p) \/ PublishDirect(p)
      PROVE  Appending(pc') = Appending(pc)
  <2>1. /\ pc[p] \notin {"append"} /\ pc'[p] \notin {"append"}
        /\ \A q \in Publishers : q # p => pc'[q] = pc[q]
    BY <1>6 DEF FlushFull, Schedule, PublishDirect, Goto, Shape, IInv, TypeOK
  <2> QED BY <2>1, AppendingStays
<1>7. ASSUME NEW p \in Publishers, FlushFull(p), UNCHANGED busVars PROVE Balanced
  <2>1. /\ UNCHANGED <<eventsReceived, eventsCoalesced, coalescedForSlow, script, sent>>
        /\ Flush(MyCategory(p), p) /\ MyCategory(p) \in Categories
    BY <1>7 DEF FlushFull, busVars, busCounters, Shape, IInv, MidPublish
  <2> QED BY <1>3, <1>6, <1>7, <2>1
<1>8. ASSUME NEW p \in Publishers, Schedule(p) \/ PublishDirect(p), UNCHANGED busVars PROVE Balanced
  <2>1. UNCHANGED <<eventsReceived, eventsSent, eventsCoalesced, coalescedForSlow, buffer, script, sent>>
    BY <1>8 DEF Schedule, PublishDirect, buffers, counters, busVars, busCounters
  <2>2. eventsCoalesced' - eventsCoalesced = coalescedForSlow' - coalescedForSlow
    BY <1>0, <2>1
  <2> QED BY <1>2, <1>6, <1>8, <2>1, <2>2
<1>9. ASSUME NEW c \in Categories, Ring(c) \/ TimerFlush(c), UNCHANGED busVars PROVE Balanced
  <2>1. CASE Ring(c)
    <3>1. UNCHANGED <<eventsReceived, eventsSent, eventsCoalesced, coalescedForSlow, buffer, script, sent, pc>>
      BY <1>9, <2>1 DEF Ring, publishing, counters, busVars, busCounters
    <3> QED BY <1>0, <1>2, <3>1
  <2>2. CASE TimerFlush(c)
    <3>1. /\ UNCHANGED <<eventsReceived, eventsCoalesced, coalescedForSlow, script, sent, pc>>
          /\ Flush(c, Timers)
      BY <1>9, <2>2 DEF TimerFlush, publishing, busVars, busCounters
    <3> QED BY <1>3, <3>1
  <2> QED BY <1>9, <2>1, <2>2
<1>10. ASSUME CloseBegin \/ CloseFlush, UNCHANGED busVars PROVE Balanced
  <2>0. UNCHANGED <<eventsReceived, eventsCoalesced, coalescedForSlow, script, sent, pc>>
    BY <1>10 DEF CloseBegin, CloseFlush, publishing, counters, busVars, busCounters
  <2>1. CASE UNCHANGED <<buffer, eventsSent>>
    BY <1>0, <1>2, <2>0, <2>1
  <2>2. ASSUME NEW c \in toFlush, Flush(c, Lifespan) PROVE Balanced
    <3>1. c \in Categories /\ Lifespan \in Publishers
      BY PublishersAssumption DEF Shape, IInv, TypeOK
    <3> QED BY <1>3, <2>0, <2>2, <3>1
  <2> QED BY <1>10, <2>1, <2>2 DEF CloseBegin, CloseFlush, counters
<1>11. CASE BusStep
  <2>1. UNCHANGED <<eventsReceived, eventsSent, buffer, script, sent, pc>>
    BY <1>11, BusMoves DEF Shape
  <2>2. eventsCoalesced' - eventsCoalesced = coalescedForSlow' - coalescedForSlow
    <3>1. CASE FanoutBegin \/ FanoutStep
      BY <1>0, <3>1 DEF FanoutBegin, FanoutStep, counters, busCounters
    <3>2. CASE SafePut
      BY <3>2, PutMoves DEF Shape, CountersAgree
    <3>3. ASSUME NEW c \in Clients, Connect(c) \/ Handler(c)
          PROVE  eventsCoalesced' - eventsCoalesced = coalescedForSlow' - coalescedForSlow
      BY <1>0, <3>3 DEF Connect, Handler, HandlerGet, HandlerSend, vars, counters, busCounters
    <3> QED BY <1>11, <3>1, <3>2, <3>3 DEF BusStep
  <2>3. Appending(pc') = Appending(pc)
    BY <2>1
  <2> QED BY <1>1, <1>2, <2>1, <2>2, <2>3
<1>12. CASE UNCHANGED allVars
  <2>1. UNCHANGED <<eventsReceived, eventsSent, eventsCoalesced, coalescedForSlow, buffer, script, sent, pc>>
    BY <1>12 DEF allVars, vars, buffers, publishing, counters, busVars, busCounters
  <2> QED BY <1>0, <1>1, <1>2, <2>1
<1> HIDE DEF Balanced
<1> QED BY <1>1, <1>4, <1>5, <1>7, <1>8, <1>9, <1>10, <1>11, <1>12
        DEF BusNext, AggregatorStep, PublishStep

-----------------------------------------------------------------------------
(* The theorem. *)

\* The inductive invariant of aggregator and bus: DeliveredOnce needs OnePlace, so
\* that a batch is moved and not copied; OnePlace needs BatchesNew, so that no batch
\* is published twice; and that needs EventsApart, so that no flush makes a batch
\* out of events that have left already.
BusInv ==
    /\ Shape /\ EventsApart /\ BatchesNew /\ OnePlace /\ CalledOnce
    /\ EventsConserved /\ DeliveredOnce /\ LossesCounted

LEMMA BusInvInit == ASSUME BusInit PROVE BusInv
<1> USE DEF BusInit
<1>1. IInv
  BY InitInv
<1>2. << >> \in Seq(Batches) /\ << >> \in Seq([to : Clients, batch : Batches]) /\ Len(<< >>) = 0
      /\ NoBatch \in Batches /\ DOMAIN << >> = {} /\ Range(<< >>) = {} /\ IsInjective(<< >>)
  BY EmptySeq DEF NoBatch, Batches, Range, IsInjective
<1>3. BusTypeOK
  BY <1>1, <1>2, ClientQueueAssumption DEF IInv, BusTypeOK
<1>4. IsFiniteSet({}) /\ Cardinality({}) = 0
  BY FS_EmptySet
<1>5. Shape
  BY <1>1, <1>3, <1>4 DEF Shape, Finitely
<1>6. emitting = {} /\ \A c \in Categories : Range(buffer[c]) = {}
  BY <1>2 DEF Init
<1>7. EventsApart /\ BatchesNew
  BY <1>6 DEF EventsApart, BatchesNew, Out, Unpublished
<1>8. OnePlace /\ CalledOnce
  BY <1>2 DEF OnePlace, CalledOnce, Asked, Called, Queued, FansTo
<1>9. DeliveredOnce
  <2>1. ASSUME NEW c \in Clients
        PROVE  {f \in fanout : c \in f.to} = {} /\ {i \in DOMAIN ready : ready[i].to = c} = {}
    BY <1>2
  <2>2. \A c \in Clients : OnTheWay(c) = 0
    BY <1>4, <2>1 DEF OnTheWay
  <2> QED BY <1>2, <1>4, <2>2 DEF DeliveredOnce
<1>10. LossesCounted
  <2>1. UNION {{c} \X lost[c] : c \in Clients} = {}
    OBVIOUS
  <2>2. Cardinality(UNION {{c} \X lost[c] : c \in Clients}) = 0
    BY <1>4, <2>1
  <2>3. droppedMessages = 0 /\ droppedForSlow = 0 /\ coalescedForSlow = 0
    OBVIOUS
  <2> QED BY <2>2, <2>3 DEF LossesCounted
<1>11. EventsConserved
  <2>1. Places = {}
    BY <1>2 DEF Init, Places
  <2>2. AtStep("append") = {}
    BY DEF Init, AtStep
  <2>3. Directs = {}
    BY DEF Init, Directs
  <2>4. /\ Cardinality(Places) = 0 /\ Cardinality(AtStep("append")) = 0
        /\ Cardinality(Directs) = 0
    BY <1>4, <2>1, <2>2, <2>3
  <2>5. eventsReceived = 0 /\ coalescedForSlow = 0 /\ eventsSent = 0 /\ eventsCoalesced = 0
    BY DEF Init
  <2> HIDE DEF BusInit
  <2> QED BY <2>4, <2>5 DEF EventsConserved
<1> QED BY <1>5, <1>7, <1>8, <1>9, <1>10, <1>11 DEF BusInv

LEMMA BusInvStep == ASSUME BusInv, [BusNext]_allVars PROVE BusInv'
<1> USE DEF BusInv
<1>1. Shape'
  BY BusTypes
<1>2. EventsApart' /\ BatchesNew'
  BY ApartStep
<1>3. OnePlace' /\ CalledOnce'
  BY OnePlaceStep
<1>4. EventsConserved'
  BY <1>1, ConservedStep
<1>5. DeliveredOnce'
  BY <1>1, DeliveredStep
<1>6. LossesCounted'
  BY <1>1, LossesStep
<1> QED BY <1>1, <1>2, <1>3, <1>4, <1>5, <1>6

\* From publish to the websocket nothing is lost unseen: an event that publish() has
\* received is in one place or counted, a batch reaches each client that was subscribed
\* when it was emitted once, unless its queue lost it or its connection broke, and the
\* counters show every batch that a slow client's queue lost.
THEOREM DeliveriesAccounted == BusSpec => []DeliveryAccounted
<1>1. BusInit => BusInv
  BY BusInvInit
<1>2. BusInv /\ [BusNext]_allVars => BusInv'
  BY BusInvStep
<1>3. BusInv => DeliveryAccounted
  BY DEF BusInv, Shape, DeliveryAccounted
<1> QED BY <1>1, <1>2, <1>3, PTL DEF BusSpec

\* Under the bus, too, no event waits in a buffer that nobody will flush.
THEOREM UnstrandedWithBus == BusSpec => []NothingStranded
<1>1. BusInit => BusInv
  BY BusInvInit
<1>2. BusInv /\ [BusNext]_allVars => BusInv'
  BY BusInvStep
<1>3. BusInv => NothingStranded
  BY DEF BusInv, Shape, IInv
<1> QED BY <1>1, <1>2, <1>3, PTL DEF BusSpec
=============================================================================
