------------------------ MODULE BatchPersistenceProofs ------------------------
(***************************************************************************)
(* The write-behind queue, for any number of producers, any units, any     *)
(* size of the queue and of the batches, any number of retries, and        *)
(* whatever the storage does: the counters account for every event, a      *)
(* flush that answers True has left nothing behind, nor has the end of the *)
(* writer thread, nothing is stored twice but by an attempt that failed    *)
(* half way, and the snapshots of a flow are stored in order.              *)
(*                                                                         *)
(* What carries all of this is the order in which the events of a producer *)
(* stand between it and the storage (Ordered): batch, buffers, queue, hand.*)
(* An event is therefore in one place only, and one that has left a place  *)
(* does not come back to it.                                               *)
(***************************************************************************)
EXTENDS BatchPersistence, FiniteSetTheorems, SequenceTheorems, WellFoundedInduction, TLAPS

\* Producers whose unit is counted as received and not yet on the queue or refused.
Putting == {"put", "full", "retry"}

InQueue == UNION {queue[i].events : i \in DOMAIN queue}

\* A unit on its way is one that its thread has begun.
ItemOf(p, n) == [events |-> EventsOf(p, n), urgent |-> script[p][n].urgent, flush |-> FALSE]
UnitItem(x) == \E p \in Producers : \E n \in 1 .. sent[p] : x = ItemOf(p, n)

Shape ==
    /\ TypeOK
    /\ \A i \in DOMAIN queue : queue[i] = FlushCommand \/ UnitItem(queue[i])
    /\ \A k \in Kinds : /\ \A i \in DOMAIN buffers[k] : buffers[k][i].kind = k
                        /\ \A i \in DOMAIN batch[k] : batch[k][i].kind = k
    /\ \A p \in Producers : pc[p] # "idle" => sent[p] > 0
    /\ policy # "drop_oldest" => \A p \in Producers : pc[p] \notin {"full", "retry"}
    /\ ~enabled => /\ worker = "off" /\ queue = << >> /\ buffers = NoBatch /\ closer = "open"
                   /\ \A p \in Producers : pc[p] = "idle"
    /\ enabled => worker # "off"
    /\ worker \in {"off", "get", "complete", "exited"} => batch = NoBatch
    /\ stop <=> closer = "stopping"

\* Of the same producer, everything in A is older than everything in B.
Before(A, B) == \A e \in A, f \in B : e.by = f.by => e.n < f.n
Rising(s) == \A i, j \in DOMAIN s : i < j /\ s[i].by = s[j].by => s[i].n < s[j].n

\* An event that was put: its producer has begun it and is past putting it.
Put_(e) == e.n <= sent[e.by] /\ (pc[e.by] \in Putting => e.n < sent[e.by])

Ordered ==
    /\ \A k \in Kinds : /\ Rising(batch[k]) /\ Rising(buffers[k])
                        /\ Before(Range(batch[k]), Range(buffers[k]))
    /\ Before(Rows(batch) \cup Rows(buffers), InQueue)
    /\ \A i, j \in DOMAIN queue : i < j => Before(queue[i].events, queue[j].events)
    /\ \A e \in Pending : Put_(e)

\* The stored snapshot of a flow is older than any that is on its way.
SnapshotsBehind ==
    /\ \A e \in Pending : e.kind = "flow_record" => snapshot[e.by] < e.n
    /\ \A p \in Producers : /\ snapshot[p] <= sent[p]
                            /\ pc[p] \in Putting => snapshot[p] < sent[p]

\* What is not in the batch has no rows yet; what is in the batch has them only
\* from an attempt that failed half way, and so has what is left uncommitted.
Bare(e) == rows[e] = 0 /\ uncommitted[e] = 0
RowsBehind ==
    /\ \A e \in InQueue \cup Rows(buffers) : Bare(e)
    /\ \A e \in Event : Bare(e) \/ Put_(e)
    /\ \A e \in Event : uncommitted[e] # 0 => e \in halfWritten
    /\ worker \in {"history", "failure"} =>
         \A e \in Rows(batch) : Bare(e) \/ e \in halfWritten
    /\ TwiceOnlyAfterHalfWrite

\* The flush command of close() follows everything put before it.
Closing ==
    /\ \A e \in early : Put_(e)
    /\ closer = "open" => /\ \A i \in DOMAIN queue : ~queue[i].flush
                          /\ ~serving /\ ~completed /\ flushed = "unknown"
    /\ \A i, j \in DOMAIN queue : queue[i].flush /\ i < j => queue[j].events \cap early = {}
    /\ serving => /\ worker \in {"history", "flows", "failure", "complete"}
                  /\ early \cap (InQueue \cup Rows(buffers)) = {}
    /\ completed /\ policy # "drop_oldest" => early \cap Pending = {}
    /\ flushed = "yes" => completed
    /\ worker = "exited" => stop /\ early \cap Pending = {}

IInv == Shape /\ Ordered /\ SnapshotsBehind /\ RowsBehind /\ Closing /\ EventsConserved

-----------------------------------------------------------------------------
(* Units, items and events. *)

LEMMA KindsAre == /\ "packet_record" \in Kinds /\ "alert_record" \in Kinds /\ "flow_record" \in Kinds
                  /\ \A k \in Kinds : k \in {"packet_record", "alert_record", "flow_record"}
BY DEF Kinds, History

\* What a thread has begun is one of its units.
LEMMA UnitsAre ==
    ASSUME TypeOK, NEW p \in Producers, NEW n \in 1 .. sent[p]
    PROVE  /\ n \in 1 .. Len(script[p]) /\ n \in 1 .. Units
           /\ script[p][n] \in Unit /\ script[p][n].kinds \subseteq Kinds
<1>1. script \in [Producers -> Seq(Unit)] /\ Len(script[p]) <= Units /\ Units \in Nat
  BY ScriptsAssumption DEF TypeOK
<1>2. sent[p] \in Nat /\ sent[p] <= Len(script[p]) /\ Len(script[p]) \in Nat
  BY <1>1 DEF TypeOK
<1>3. n \in 1 .. Len(script[p]) /\ n \in 1 .. Units
  BY <1>1, <1>2
<1>4. script[p][n] \in Unit
  BY <1>1, <1>3
<1>5. script[p][n].kinds \in (SUBSET History) \cup {{"flow_record"}}
  BY <1>4 DEF Unit
<1>6. script[p][n].kinds \subseteq Kinds
  BY <1>5 DEF Kinds
<1> QED BY <1>3, <1>4, <1>6

LEMMA EventsAre ==
    ASSUME TypeOK, NEW p \in Producers, NEW n \in 1 .. sent[p]
    PROVE  /\ EventsOf(p, n) \subseteq Event
           /\ \A e \in EventsOf(p, n) : e.by = p /\ e.n = n
           /\ ItemOf(p, n) \in Item /\ ItemOf(p, n).events = EventsOf(p, n)
           /\ ItemOf(p, n).flush = FALSE /\ ItemOf(p, n) # FlushCommand
<1>1. script[p][n] \in Unit /\ script[p][n].kinds \subseteq Kinds /\ n \in 1 .. Units
  BY UnitsAre
<1>2. EventsOf(p, n) \subseteq Event /\ \A e \in EventsOf(p, n) : e.by = p /\ e.n = n
  BY <1>1 DEF EventsOf, Event
<1>3. script[p][n].urgent \in BOOLEAN
  BY <1>1 DEF Unit
<1>4. /\ ItemOf(p, n) \in Item /\ ItemOf(p, n).events = EventsOf(p, n)
      /\ ItemOf(p, n).flush = FALSE
  BY <1>2, <1>3 DEF ItemOf, Item
<1>5. FlushCommand.flush = TRUE
  BY DEF FlushCommand
<1> QED BY <1>2, <1>4, <1>5

LEMMA MineIs ==
    ASSUME Shape, NEW p \in Producers, pc[p] # "idle"
    PROVE  /\ sent[p] \in 1 .. sent[p] /\ sent[p] \in Nat
           /\ MyItem(p) = ItemOf(p, sent[p]) /\ MyEvents(p) = EventsOf(p, sent[p])
           /\ MyItem(p) \in Item /\ MyItem(p).events = MyEvents(p) /\ MyItem(p).flush = FALSE
           /\ MyEvents(p) \subseteq Event /\ \A e \in MyEvents(p) : e.by = p /\ e.n = sent[p]
<1>1. sent[p] \in 1 .. sent[p] /\ sent[p] \in Nat
  <2>1. sent[p] \in Nat /\ sent[p] > 0
    BY DEF Shape, TypeOK
  <2> QED BY <2>1
<1>2. MyItem(p) = ItemOf(p, sent[p]) /\ MyEvents(p) = EventsOf(p, sent[p])
  BY DEF MyItem, ItemOf, MyEvents, MyUnit
<1>3. /\ EventsOf(p, sent[p]) \subseteq Event
      /\ \A e \in EventsOf(p, sent[p]) : e.by = p /\ e.n = sent[p]
      /\ ItemOf(p, sent[p]) \in Item /\ ItemOf(p, sent[p]).events = EventsOf(p, sent[p])
      /\ ItemOf(p, sent[p]).flush = FALSE
  BY <1>1, EventsAre DEF Shape
<1> QED BY <1>1, <1>2, <1>3

\* An item on the queue has the events of one unit, or none.
LEMMA ItemsAre ==
    ASSUME Shape, NEW x, x = FlushCommand \/ UnitItem(x)
    PROVE  /\ x \in Item /\ x.events \subseteq Event /\ x.flush \in BOOLEAN
           /\ \A e, f \in x.events : e.by = f.by /\ e.n = f.n /\ (e.kind = f.kind => e = f)
           /\ x.flush => x.events = {}
<1>1. CASE x = FlushCommand
  <2>1. x = [events |-> {}, urgent |-> FALSE, flush |-> TRUE]
    BY <1>1 DEF FlushCommand
  <2> QED BY <2>1 DEF Item
<1>2. CASE UnitItem(x)
  <2>1. PICK p \in Producers : \E n \in 1 .. sent[p] : x = ItemOf(p, n)
    BY <1>2 DEF UnitItem
  <2>2. PICK n \in 1 .. sent[p] : x = ItemOf(p, n)
    BY <2>1
  <2>3. /\ ItemOf(p, n) \in Item /\ ItemOf(p, n).events = EventsOf(p, n)
        /\ EventsOf(p, n) \subseteq Event /\ ItemOf(p, n).flush = FALSE
        /\ \A e \in EventsOf(p, n) : e.by = p /\ e.n = n
    BY EventsAre DEF Shape
  <2>4. \A e, f \in Event : e.by = f.by /\ e.n = f.n /\ e.kind = f.kind => e = f
    BY DEF Event
  <2>5. \A e, f \in x.events : e.by = f.by /\ e.n = f.n /\ (e.kind = f.kind => e = f)
    BY <2>2, <2>3, <2>4
  <2> QED BY <2>2, <2>3, <2>5
<1> QED BY <1>1, <1>2

LEMMA HeadIs ==
    ASSUME Shape, queue # << >>
    PROVE  /\ Head(queue) = queue[1] /\ 1 \in DOMAIN queue
           /\ Head(queue) = FlushCommand \/ UnitItem(Head(queue))
           /\ Tail(queue) \in Seq(Item) /\ Len(Tail(queue)) = Len(queue) - 1 /\ Len(queue) \in Nat
           /\ \A i \in DOMAIN Tail(queue) : i + 1 \in DOMAIN queue /\ Tail(queue)[i] = queue[i + 1]
           /\ \A i \in DOMAIN queue : i # 1 => /\ i - 1 \in DOMAIN Tail(queue)
                                               /\ queue[i] = Tail(queue)[i - 1]
<1>1. queue \in Seq(Item)
  BY DEF Shape, TypeOK
<1>2. /\ Tail(queue) \in Seq(Item) /\ Len(Tail(queue)) = Len(queue) - 1
      /\ \A i \in 1 .. Len(Tail(queue)) : Tail(queue)[i] = queue[i + 1]
      /\ Head(queue) = queue[1]
  BY <1>1, HeadTailProperties
<1>3. Len(queue) \in Nat /\ DOMAIN queue = 1 .. Len(queue) /\ Len(queue) # 0
  BY <1>1, LenProperties, EmptySeq
<1>4. DOMAIN Tail(queue) = 1 .. Len(queue) - 1
  BY <1>2, LenProperties
<1>5. 1 \in DOMAIN queue
  BY <1>3
<1>6. \A i \in DOMAIN Tail(queue) : i + 1 \in DOMAIN queue /\ Tail(queue)[i] = queue[i + 1]
  BY <1>2, <1>3, <1>4
<1>7. \A i \in DOMAIN queue : i # 1 => i - 1 \in DOMAIN Tail(queue) /\ queue[i] = Tail(queue)[i - 1]
  BY <1>2, <1>3, <1>4
<1> QED BY <1>2, <1>3, <1>5, <1>6, <1>7 DEF Shape

LEMMA PutIs ==
    ASSUME Shape, NEW x \in Item
    PROVE  /\ Append(queue, x) \in Seq(Item) /\ Len(Append(queue, x)) = Len(queue) + 1
           /\ Len(queue) \in Nat
           /\ DOMAIN queue = 1 .. Len(queue) /\ DOMAIN Append(queue, x) = 1 .. Len(queue) + 1
           /\ \A i \in DOMAIN queue : Append(queue, x)[i] = queue[i]
           /\ Append(queue, x)[Len(queue) + 1] = x
<1>1. queue \in Seq(Item)
  BY DEF Shape, TypeOK
<1> QED BY <1>1, AppendProperties, LenProperties

LEMMA EmptyBatch == /\ NoBatch \in [Kinds -> Seq(Event)] /\ Rows(NoBatch) = {}
                    /\ \A k \in Kinds : NoBatch[k] = << >> /\ DOMAIN NoBatch[k] = {}
<1>1. << >> \in Seq(Event) /\ DOMAIN << >> = {}
  OBVIOUS
<1> QED BY <1>1 DEF NoBatch, Rows, Range

\* The places an event can be.
LEMMA PendingIs ==
    /\ Pending = InQueue \cup Rows(buffers) \cup Rows(batch)
    /\ \A e : e \in InQueue <=> \E i \in DOMAIN queue : e \in queue[i].events
    /\ \A b, e : e \in Rows(b) <=> \E k \in Kinds : \E i \in DOMAIN b[k] : e = b[k][i]
<1>1. Pending = InQueue \cup Rows(buffers) \cup Rows(batch)
  BY DEF Pending, InQueue
<1>2. \A e : e \in InQueue <=> \E i \in DOMAIN queue : e \in queue[i].events
  BY DEF InQueue
<1>3. ASSUME NEW b, NEW e
      PROVE  e \in Rows(b) <=> \E k \in Kinds : \E i \in DOMAIN b[k] : e = b[k][i]
  <2>1. \A k \in Kinds : e \in Range(b[k]) <=> \E i \in DOMAIN b[k] : e = b[k][i]
    BY DEF Range
  <2>2. e \in Rows(b) <=> \E k \in Kinds : e \in Range(b[k])
    BY DEF Rows
  <2> QED BY <2>1, <2>2
<1> QED BY <1>1, <1>2, <1>3

LEMMA PendingTyped == ASSUME Shape PROVE Pending \subseteq Event
<1>1. InQueue \subseteq Event
  BY ItemsAre DEF Shape, InQueue
<1>2. ASSUME NEW b \in [Kinds -> Seq(Event)] PROVE Rows(b) \subseteq Event
  <2>1. \A k \in Kinds : \A i \in DOMAIN b[k] : b[k][i] \in Event
    OBVIOUS
  <2> QED BY <2>1, PendingIs
<1> QED BY <1>1, <1>2, PendingIs DEF Shape, TypeOK

-----------------------------------------------------------------------------
(* Types and shape. *)

LEMMA ShapeInit == Init => Shape
<1> SUFFICES ASSUME Init PROVE Shape
  OBVIOUS
<1>1. script \in [Producers -> Seq(Unit)] /\ Units \in Nat /\ QueueMax \in Nat /\ RetryMax \in Nat
  BY ScriptsAssumption, LimitsAssumption DEF Init
<1>2. << >> \in Seq(Item) /\ Len(<< >>) = 0 /\ DOMAIN << >> = {}
  OBVIOUS
<1>3. \A p \in Producers : Len(script[p]) \in Nat
  BY <1>1
<1>4. enabled \in BOOLEAN
  BY ModesAssumption DEF Init
<1>5. TypeOK
  <2>1. /\ queue \in Seq(Item) /\ Len(queue) <= QueueMax
        /\ buffers \in [Kinds -> Seq(Event)] /\ batch \in [Kinds -> Seq(Event)]
    BY <1>1, <1>2, EmptyBatch DEF Init
  <2>2. /\ {received, written, failed, dropped} \subseteq Nat /\ left \in 0 .. RetryMax
        /\ worker \in {"off", "get", "history", "flows", "failure", "complete", "exited"}
    BY <1>1 DEF Init
  <2>3. /\ pc \in [Producers -> {"idle", "put", "full", "retry", "count"}]
        /\ sent \in [Producers -> Nat] /\ \A p \in Producers : sent[p] <= Len(script[p])
    BY <1>3 DEF Init
  <2>4. /\ rows \in [Event -> 0 .. 2] /\ uncommitted \in [Event -> 0 .. 2]
        /\ snapshot \in [Producers -> 0 .. Units]
    BY <1>1 DEF Init, NoRows
  <2> QED BY <2>1, <2>2, <2>3, <2>4 DEF Init, TypeOK
<1>6. \A k \in Kinds : DOMAIN buffers[k] = {} /\ DOMAIN batch[k] = {}
  BY EmptyBatch DEF Init
<1> QED BY <1>2, <1>4, <1>5, <1>6 DEF Init, Shape

\* What a producer does not touch, and what its step does to its place and units.
LEMMA ProducerMoves ==
    ASSUME Shape, NEW p \in Producers, Receive(p) \/ EnqueueStep(p) \/ WriteSynchronously(p)
    PROVE  /\ UNCHANGED <<fixed, buffers, batch, left, worker, serving, closing>>
           /\ enabled => UNCHANGED <<rows, uncommitted, snapshot, halfWritten, written, failed>>
           /\ pc' \in [Producers -> {"idle", "put", "full", "retry", "count"}]
           /\ sent' \in [Producers -> Nat]
           /\ \A q \in Producers : q # p => pc'[q] = pc[q] /\ sent'[q] = sent[q]
           /\ \A q \in Producers : /\ sent'[q] <= Len(script[q]) /\ sent'[q] >= sent[q]
                                   /\ sent[q] \in Nat /\ sent'[q] \in Nat
           /\ pc'[p] # "idle" => sent'[p] > 0
           /\ policy # "drop_oldest" => pc'[p] \notin {"full", "retry"}
           /\ ~enabled => pc'[p] = "idle" /\ queue' = queue
<1>1. /\ pc \in [Producers -> {"idle", "put", "full", "retry", "count"}]
      /\ sent \in [Producers -> Nat]
      /\ \A q \in Producers : sent[q] <= Len(script[q]) /\ Len(script[q]) \in Nat
  <2>1. script \in [Producers -> Seq(Unit)]
    BY ScriptsAssumption DEF Shape, TypeOK
  <2> QED BY <2>1 DEF Shape, TypeOK
<1>2. /\ UNCHANGED <<fixed, buffers, batch, left, worker, serving, closing>>
      /\ enabled => UNCHANGED <<rows, uncommitted, snapshot, halfWritten, written, failed>>
  BY DEF Receive, EnqueueStep, Put, EvictOldest, PutAgain, CountDrop, WriteSynchronously, writer,
     store, counters, closing, producing
<1>3. CASE Receive(p)
  <2>1. sent' = [sent EXCEPT ![p] = @ + 1] /\ sent[p] < Len(script[p])
        /\ pc' = [pc EXCEPT ![p] = "put"] /\ enabled
    BY <1>3 DEF Receive, Goto
  <2> QED BY <1>1, <1>2, <2>1
<1>4. CASE WriteSynchronously(p)
  <2>1. sent' = [sent EXCEPT ![p] = @ + 1] /\ sent[p] < Len(script[p]) /\ pc[p] = "idle"
        /\ pc' = pc /\ queue' = queue /\ ~enabled
    BY <1>4 DEF WriteSynchronously
  <2> QED BY <1>1, <1>2, <2>1
<1>5. CASE EnqueueStep(p)
  <2>1. sent' = sent /\ pc[p] # "idle"
    BY <1>5 DEF EnqueueStep, Put, EvictOldest, PutAgain, CountDrop, producing
  <2>2. enabled /\ sent[p] > 0
    BY <2>1 DEF Shape
  <2>3. /\ \E step \in {"idle", "full", "retry", "count"} : pc' = [pc EXCEPT ![p] = step]
        /\ policy # "drop_oldest" => pc'[p] \notin {"full", "retry"}
    <3>1. CASE Put(p)
      BY <1>1, <3>1 DEF Put, Goto
    <3>2. CASE EvictOldest(p) \/ PutAgain(p)
      BY <1>1, <3>2 DEF EvictOldest, PutAgain, Goto, Shape
    <3>3. CASE CountDrop(p)
      BY <1>1, <3>3 DEF CountDrop, Goto
    <3> QED BY <1>5, <3>1, <3>2, <3>3 DEF EnqueueStep
  <2> QED BY <1>1, <1>2, <2>1, <2>2, <2>3
<1> QED BY <1>3, <1>4, <1>5

\* What happens to the queue in an operation of a producer or of close().
Puts(x) == ~Full /\ queue' = Append(queue, x)
Evicts == queue # << >> /\ queue' = Tail(queue)

LEMMA ProducerQueue ==
    ASSUME Shape, NEW p \in Producers, Receive(p) \/ EnqueueStep(p) \/ WriteSynchronously(p)
    PROVE  \/ /\ Puts(MyItem(p)) /\ pc[p] \in {"put", "retry"} /\ pc'[p] \notin Putting
              /\ sent' = sent /\ enabled
              /\ early' = IF closer = "open" THEN early \cup MyEvents(p) ELSE early
              /\ UNCHANGED <<lost, completed>>
           \/ /\ Evicts /\ pc[p] = "full" /\ pc'[p] = "retry" /\ policy = "drop_oldest"
              /\ sent' = sent /\ early' = early
              /\ completed' = (completed \/ Head(queue).flush)
           \/ /\ queue' = queue /\ UNCHANGED <<early, completed>>
              /\ pc'[p] \in Putting => pc[p] \in Putting \/ sent'[p] = sent[p] + 1
              /\ pc[p] \in Putting => sent' = sent
<1>1. \A step : pc' = [pc EXCEPT ![p] = step] => pc'[p] = step
  BY DEF Shape, TypeOK
<1>2. CASE Receive(p)
  <2>1. sent'[p] = sent[p] + 1 /\ pc[p] = "idle" /\ queue' = queue /\ UNCHANGED <<early, completed>>
    BY <1>2 DEF Receive, Shape, TypeOK
  <2> QED BY <2>1 DEF Putting
<1>3. CASE WriteSynchronously(p)
  <2>1. sent'[p] = sent[p] + 1 /\ pc[p] = "idle" /\ queue' = queue /\ UNCHANGED <<early, completed>>
    BY <1>3 DEF WriteSynchronously, Shape, TypeOK
  <2> QED BY <2>1 DEF Putting
<1>4. CASE Put(p)
  <2>1. pc[p] = "put" /\ sent' = sent /\ enabled /\ completed' = completed
    BY <1>4 DEF Put, Shape
  <2>2. CASE PutItem(p) /\ Goto(p, "idle") /\ UNCHANGED lost
    <3>1. pc'[p] = "idle"
      BY <1>1, <2>2 DEF Goto
    <3> QED BY <2>1, <2>2, <3>1 DEF PutItem, PutAtTail, Puts, Putting
  <2>3. CASE UNCHANGED <<queue, early>>
    BY <2>1, <2>3 DEF Putting
  <2> QED BY <1>4, <2>2, <2>3 DEF Put
<1>5. CASE EvictOldest(p)
  <2>1. pc[p] = "full" /\ pc'[p] = "retry" /\ sent' = sent /\ early' = early
    BY <1>1, <1>5 DEF EvictOldest, Goto
  <2>2. policy = "drop_oldest"
    BY <2>1 DEF Shape
  <2>3. \/ Evicts /\ completed' = (completed \/ Head(queue).flush)
        \/ UNCHANGED <<queue, completed>>
    BY <1>5 DEF EvictOldest, Evicts
  <2> QED BY <2>1, <2>2, <2>3 DEF Putting
<1>6. CASE PutAgain(p)
  <2>1. pc[p] = "retry" /\ sent' = sent /\ enabled /\ pc'[p] = "count" /\ completed' = completed
    BY <1>1, <1>6 DEF PutAgain, Shape, Goto
  <2>2. (PutItem(p) /\ UNCHANGED lost) \/ UNCHANGED <<queue, early>>
    BY <1>6 DEF PutAgain
  <2> QED BY <2>1, <2>2 DEF PutItem, PutAtTail, Puts, Putting
<1>7. CASE CountDrop(p)
  BY <1>1, <1>7 DEF CountDrop, Goto, Putting
<1> QED BY <1>2, <1>3, <1>4, <1>5, <1>6, <1>7 DEF EnqueueStep

\* A flush moves the due buffers of b, whole, to the batch.
Splits(b) == \E due \in SUBSET Kinds :
    /\ batch' = [k \in Kinds |-> IF k \in due THEN b[k] ELSE << >>]
    /\ buffers' = [k \in Kinds |-> IF k \in due THEN << >> ELSE b[k]]

LEMMA SplitIs ==
    ASSUME NEW b \in [Kinds -> Seq(Event)], Splits(b)
    PROVE  /\ batch' \in [Kinds -> Seq(Event)] /\ buffers' \in [Kinds -> Seq(Event)]
           /\ \A k \in Kinds : \/ batch'[k] = b[k] /\ buffers'[k] = << >>
                               \/ batch'[k] = << >> /\ buffers'[k] = b[k]
           /\ Rows(batch') \cup Rows(buffers') = Rows(b)
<1>1. PICK due \in SUBSET Kinds :
        /\ batch' = [k \in Kinds |-> IF k \in due THEN b[k] ELSE << >>]
        /\ buffers' = [k \in Kinds |-> IF k \in due THEN << >> ELSE b[k]]
  BY DEF Splits
<1>2. << >> \in Seq(Event) /\ DOMAIN << >> = {}
  OBVIOUS
<1>3. /\ batch' \in [Kinds -> Seq(Event)] /\ buffers' \in [Kinds -> Seq(Event)]
  BY <1>1, <1>2
<1>4. \A k \in Kinds : \/ batch'[k] = b[k] /\ buffers'[k] = << >>
                       \/ batch'[k] = << >> /\ buffers'[k] = b[k]
  BY <1>1
<1>5. \A k \in Kinds : Range(batch'[k]) \cup Range(buffers'[k]) = Range(b[k])
  BY <1>2, <1>4 DEF Range
<1>6. Rows(batch') \cup Rows(buffers') = Rows(b)
  BY <1>5 DEF Rows
<1> QED BY <1>3, <1>4, <1>6

\* What a unit adds to the buffers: at most one event of each kind, at their ends.
LEMMA CollectedIs ==
    ASSUME Shape, NEW x, x = FlushCommand \/ UnitItem(x)
    PROVE  /\ Collected(x) \in [Kinds -> Seq(Event)]
           /\ \A k \in Kinds : \/ Collected(x)[k] = buffers[k]
                               \/ \E e \in x.events : e.kind = k /\ Collected(x)[k] = Append(buffers[k], e)
           /\ Rows(Collected(x)) = Rows(buffers) \cup x.events
           /\ x.flush => Collected(x) = buffers
<1>1. /\ x.events \subseteq Event /\ (x.flush => x.events = {})
      /\ \A e, f \in x.events : e.kind = f.kind => e = f
  BY ItemsAre
<1>2. buffers \in [Kinds -> Seq(Event)]
  BY DEF Shape, TypeOK
<1>3. ASSUME NEW k \in Kinds
      PROVE  /\ Collected(x)[k] \in Seq(Event)
             /\ \/ Collected(x)[k] = buffers[k]
                \/ \E e \in x.events : e.kind = k /\ Collected(x)[k] = Append(buffers[k], e)
             /\ Range(Collected(x)[k]) = Range(buffers[k]) \cup {e \in x.events : e.kind = k}
  <2>1. buffers[k] \in Seq(Event)
    BY <1>2
  <2>2. CASE \E e \in x.events : e.kind = k
    <3>1. PICK e \in x.events : e.kind = k
      BY <2>2
    <3>2. (CHOOSE f \in x.events : f.kind = k) = e /\ {f \in x.events : f.kind = k} = {e}
      BY <1>1, <3>1
    <3>3. Collected(x)[k] = Append(buffers[k], e)
      BY <2>2, <3>2 DEF Collected
    <3>4. e \in Event
      BY <1>1
    <3>5. /\ Append(buffers[k], e) \in Seq(Event)
          /\ Len(buffers[k]) \in Nat
          /\ DOMAIN Append(buffers[k], e) = 1 .. Len(buffers[k]) + 1
          /\ DOMAIN buffers[k] = 1 .. Len(buffers[k])
          /\ \A i \in 1 .. Len(buffers[k]) : Append(buffers[k], e)[i] = buffers[k][i]
          /\ Append(buffers[k], e)[Len(buffers[k]) + 1] = e
      BY <2>1, <3>4, AppendProperties, LenProperties
    <3>6. Range(Append(buffers[k], e)) = Range(buffers[k]) \cup {e}
      <4>1. \A i \in 1 .. Len(buffers[k]) + 1 : i \in 1 .. Len(buffers[k]) \/ i = Len(buffers[k]) + 1
        BY <3>5
      <4>2. Len(buffers[k]) + 1 \in 1 .. Len(buffers[k]) + 1
            /\ \A i \in 1 .. Len(buffers[k]) : i \in 1 .. Len(buffers[k]) + 1
        BY <3>5
      <4> QED BY <3>5, <4>1, <4>2 DEF Range
    <3> QED BY <3>1, <3>2, <3>3, <3>5, <3>6
  <2>3. CASE ~\E e \in x.events : e.kind = k
    <3>1. Collected(x)[k] = buffers[k] /\ {e \in x.events : e.kind = k} = {}
      BY <2>3 DEF Collected
    <3> QED BY <2>1, <3>1
  <2> QED BY <2>2, <2>3
<1>4. Collected(x) \in [Kinds -> Seq(Event)]
  <2>1. Collected(x) = [k \in Kinds |-> Collected(x)[k]]
    BY DEF Collected
  <2> QED BY <1>3, <2>1
<1>5. Rows(Collected(x)) = Rows(buffers) \cup x.events
  <2>1. \A e \in x.events : e.kind \in Kinds
    BY <1>1 DEF Event
  <2> QED BY <1>3, <2>1 DEF Rows
<1>6. ASSUME x.flush PROVE Collected(x) = buffers
  <2>1. \A k \in Kinds : Collected(x)[k] = buffers[k]
    BY <1>1, <1>6 DEF Collected
  <2> QED BY <1>2, <1>4, <2>1
<1> QED BY <1>3, <1>4, <1>5, <1>6

\* The buffers the thread flushes, and where it goes.
LEMMA FlushIs ==
    ASSUME NEW b \in [Kinds -> Seq(Event)], NEW due \in SUBSET Kinds, NEW otherwise,
           Flush(b, due, otherwise)
    PROVE  /\ Splits(b) /\ left' = RetryMax
           /\ worker' = "history" \/ (worker' = otherwise /\ batch' = NoBatch /\ buffers' = b)
           /\ due = {k \in Kinds : b[k] # << >>} => buffers' = NoBatch
<1>1. /\ batch' = [k \in Kinds |-> IF k \in due THEN b[k] ELSE << >>]
      /\ buffers' = [k \in Kinds |-> IF k \in due THEN << >> ELSE b[k]]
      /\ left' = RetryMax /\ worker' = IF due = {} THEN otherwise ELSE "history"
  BY DEF Flush
<1>2. Splits(b)
  BY <1>1 DEF Splits
<1>3. CASE due = {}
  <2>1. batch' = [k \in Kinds |-> << >>] /\ buffers' = [k \in Kinds |-> b[k]]
    BY <1>1, <1>3
  <2> QED BY <1>1, <1>2, <1>3, <2>1 DEF NoBatch
<1>4. CASE due # {}
  BY <1>1, <1>2, <1>4 DEF NoBatch
<1>5. ASSUME due = {k \in Kinds : b[k] # << >>} PROVE buffers' = NoBatch
  BY <1>1, <1>5 DEF NoBatch
<1> QED BY <1>2, <1>1, <1>3, <1>4, <1>5

\* What the writer thread does to the units on their way.
Flushes == /\ worker = "get" /\ batch = NoBatch /\ Splits(buffers) /\ queue' = queue
           /\ worker' \in {"history", "get", "exited"}
           /\ worker' = "exited" => stop /\ queue = << >> /\ buffers' = NoBatch /\ batch' = NoBatch
           /\ worker' = "get" => batch' = NoBatch
           /\ left' = RetryMax
           /\ UNCHANGED <<serving, completed, written, failed, rows, uncommitted, snapshot, halfWritten>>
Takes == /\ worker = "get" /\ batch = NoBatch /\ Evicts /\ Splits(Collected(Head(queue)))
         /\ worker' \in {"history", "complete"} /\ (worker' = "complete" => batch' = NoBatch)
         /\ serving' = Head(queue).flush /\ left' = RetryMax
         /\ serving' => buffers' = NoBatch
         /\ UNCHANGED <<completed, written, failed, rows, uncommitted, snapshot, halfWritten>>

LEMMA WorkerMoves ==
    ASSUME Shape, WorkerStep
    PROVE  /\ UNCHANGED <<fixed, producing, closing, lost, early, received, dropped>>
           /\ \/ Flushes
              \/ Takes
              \/ /\ WriteHistory \/ WriteFlows \/ WriteFailure \/ WorkerComplete
                 /\ UNCHANGED <<queue, buffers>>
                 /\ batch' = batch \/ batch' = NoBatch
<1>1. buffers \in [Kinds -> Seq(Event)] /\ (worker = "get" => batch = NoBatch)
  BY DEF Shape, TypeOK
<1>2. Buffered = {k \in Kinds : buffers[k] # << >>} /\ Buffered \subseteq Kinds
  BY DEF Buffered
<1>3. CASE WorkerEnd
  <2>2. worker = "get" /\ stop /\ queue = << >> /\ Buffered = {}
    BY <1>3 DEF WorkerEnd, GoOn
  <2>3. Flush(buffers, Buffered, "exited")
    BY <1>3 DEF WorkerEnd
  <2>4. /\ Splits(buffers) /\ left' = RetryMax
        /\ worker' = "history" \/ (worker' = "exited" /\ batch' = NoBatch /\ buffers' = buffers)
        /\ buffers' = NoBatch
    BY <1>1, <1>2, <2>3, FlushIs
  <2>5. UNCHANGED <<fixed, counters, queue, serving, producing, closing, completed,
                    store, lost, early>>
    BY <1>3 DEF WorkerEnd
  <2> QED BY <1>1, <2>2, <2>4, <2>5 DEF Flushes, counters, store
<1>4. CASE WorkerIdle
  <2>1. PICK due \in SUBSET Buffered : Flush(buffers, due, "get")
    BY <1>4 DEF WorkerIdle
  <2>2. due \in SUBSET Kinds
    BY <1>2
  <2>3. /\ Splits(buffers) /\ left' = RetryMax
        /\ worker' = "history" \/ (worker' = "get" /\ batch' = NoBatch)
    BY <1>1, <2>1, <2>2, FlushIs
  <2>4. /\ worker = "get"
        /\ UNCHANGED <<fixed, counters, queue, serving, producing, closing, completed,
                       store, lost, early>>
    BY <1>4 DEF WorkerIdle
  <2> QED BY <1>1, <2>3, <2>4 DEF Flushes, counters, store
<1>5. CASE WorkerTake
  <2>1. /\ worker = "get" /\ queue # << >> /\ queue' = Tail(queue) /\ serving' = Head(queue).flush
        /\ UNCHANGED <<fixed, counters, producing, closing, completed, store, lost, early>>
    BY <1>5 DEF WorkerTake
  <2>2. PICK due \in SUBSET {k \in Kinds : Collected(Head(queue))[k] # << >>} :
          /\ Forced(Head(queue), Collected(Head(queue)))
               => due = {k \in Kinds : Collected(Head(queue))[k] # << >>}
          /\ Flush(Collected(Head(queue)), due, "complete")
    BY <1>5 DEF WorkerTake
  <2>3. Collected(Head(queue)) \in [Kinds -> Seq(Event)]
    BY <2>1, HeadIs, CollectedIs
  <2>4. due \in SUBSET Kinds
    OBVIOUS
  <2>5. /\ Splits(Collected(Head(queue))) /\ left' = RetryMax
        /\ worker' = "history" \/ (worker' = "complete" /\ batch' = NoBatch)
        /\ due = {k \in Kinds : Collected(Head(queue))[k] # << >>} => buffers' = NoBatch
    BY <2>2, <2>3, <2>4, FlushIs
  <2>6. Head(queue).flush => buffers' = NoBatch
    BY <2>2, <2>5 DEF Forced
  <2> QED BY <1>1, <2>1, <2>5, <2>6 DEF Takes, Evicts, counters, store
<1>6. CASE WriteHistory \/ WriteFlows \/ WriteFailure \/ WorkerComplete
  <2>1. /\ UNCHANGED <<fixed, producing, closing, lost, early, received, dropped, queue, buffers>>
        /\ batch' = batch \/ batch' = NoBatch
    BY <1>6 DEF WriteHistory, WriteFlows, WriteFailure, WorkerComplete, counters, store
  <2> QED BY <1>6, <2>1
<1> QED BY <1>3, <1>4, <1>5, <1>6 DEF WorkerStep

\* close() only puts its flush command.
LEMMA CloserMoves ==
    ASSUME Shape, CloseStep
    PROVE  /\ UNCHANGED <<fixed, counters, writer, producing, completed, store, lost, early>>
           /\ \/ /\ Puts(FlushCommand) /\ closer = "open" /\ closer' = "waiting" /\ enabled
                 /\ UNCHANGED <<stop, flushed>>
              \/ queue' = queue
           /\ closer' # "open" /\ (stop => stop')
           /\ flushed' = "yes" => flushed = "yes" \/ completed
<1>1. CASE CloseFlush
  BY <1>1 DEF CloseFlush, Puts, PutAtTail
<1>2. CASE CloseWait
  BY <1>2 DEF CloseWait
<1>3. CASE CloseStop
  BY <1>3 DEF CloseStop
<1> QED BY <1>1, <1>2, <1>3 DEF CloseStep

LEMMA EventsFinite == IsFiniteSet(Event)
<1>1. IsFiniteSet(Kinds)
  <2>1. Kinds = {"packet_record", "alert_record"} \cup {"flow_record"}
    BY DEF Kinds, History
  <2>2. IsFiniteSet({"packet_record"} \cup {"alert_record"}) /\ IsFiniteSet({"flow_record"})
    BY FS_Singleton, FS_AddElement
  <2>3. {"packet_record"} \cup {"alert_record"} = {"packet_record", "alert_record"}
    OBVIOUS
  <2> QED BY <2>1, <2>2, <2>3, FS_Union
<1> DEFINE T == (Producers \X (1 .. Units)) \X Kinds
           f == [t \in T |-> [by |-> t[1][1], n |-> t[1][2], kind |-> t[2]]]
<1>2. IsFiniteSet(T)
  <2>1. IsFiniteSet(1 .. Units)
    BY ScriptsAssumption, FS_Interval
  <2>2. IsFiniteSet(Producers \X (1 .. Units))
    BY <2>1, ProducersAssumption, FS_Product
  <2> QED BY <1>1, <2>2, FS_Product
<1>3. f \in [T -> Event]
  BY DEF Event
<1>4. ASSUME NEW e \in Event PROVE \E t \in T : f[t] = e
  <2>1. e.by \in Producers /\ e.n \in 1 .. Units /\ e.kind \in Kinds
        /\ e = [by |-> e.by, n |-> e.n, kind |-> e.kind]
    BY DEF Event
  <2>2. <<<<e.by, e.n>>, e.kind>> \in T
    BY <2>1
  <2>3. f[<<<<e.by, e.n>>, e.kind>>] = e
    BY <2>1, <2>2
  <2> QED BY <2>2, <2>3
<1>5. f \in Surjection(T, Event)
  BY <1>3, <1>4 DEF Surjection
<1> HIDE DEF T, f
<1> QED BY <1>2, <1>5, FS_Surjection

\* The unit a thread is about to begin.
LEMMA NextIs ==
    ASSUME Shape, NEW p \in Producers, sent[p] < Len(script[p])
    PROVE  /\ sent[p] \in Nat /\ sent[p] + 1 \in 1 .. Units
           /\ EventsOf(p, sent[p] + 1) \subseteq Event
           /\ \A e \in EventsOf(p, sent[p] + 1) : e.by = p /\ e.n = sent[p] + 1
<1>1. script \in [Producers -> Seq(Unit)] /\ Len(script[p]) <= Units /\ Units \in Nat
  BY ScriptsAssumption DEF Shape, TypeOK
<1>2. sent[p] \in Nat /\ Len(script[p]) \in Nat
  BY <1>1 DEF Shape, TypeOK
<1>3. sent[p] + 1 \in 1 .. Len(script[p]) /\ sent[p] + 1 \in 1 .. Units
  BY <1>1, <1>2
<1>4. script[p][sent[p] + 1] \in Unit
  BY <1>1, <1>3
<1>5. script[p][sent[p] + 1].kinds \in (SUBSET History) \cup {{"flow_record"}}
  BY <1>4 DEF Unit
<1>6. script[p][sent[p] + 1].kinds \subseteq Kinds
  BY <1>5 DEF Kinds
<1> QED BY <1>2, <1>3, <1>6 DEF EventsOf, Event

LEMMA SetsCounted == ASSUME NEW S, S \subseteq Event
                     PROVE  IsFiniteSet(S) /\ Cardinality(S) \in Nat
BY EventsFinite, FS_Subset, FS_CardinalityType

LEMMA SizeNat == ASSUME Shape PROVE Size(batch) \in Nat
<1>1. /\ batch["packet_record"] \in Seq(Event) /\ batch["alert_record"] \in Seq(Event)
      /\ batch["flow_record"] \in Seq(Event)
  BY KindsAre DEF Shape, TypeOK
<1>2. /\ Len(batch["packet_record"]) \in Nat /\ Len(batch["alert_record"]) \in Nat
      /\ Len(batch["flow_record"]) \in Nat
  BY <1>1, LenProperties
<1>3. \A a, b, c \in Nat : a + b + c \in Nat
  OBVIOUS
<1> QED BY <1>2, <1>3, Zenon DEF Size

\* The counters stay natural numbers.
LEMMA CountersNat == ASSUME Shape, Next PROVE {received', written', failed', dropped'} \subseteq Nat
<1>1. received \in Nat /\ written \in Nat /\ failed \in Nat /\ dropped \in Nat
  BY DEF Shape, TypeOK
<1>2. ASSUME NEW p \in Producers, Receive(p) \/ WriteSynchronously(p)
      PROVE  {received', written', failed', dropped'} \subseteq Nat
  <2>1. sent[p] < Len(script[p])
    BY <1>2 DEF Receive, WriteSynchronously
  <2>2. Cardinality(EventsOf(p, sent[p] + 1)) \in Nat
    BY <2>1, NextIs, SetsCounted
  <2>3. /\ dropped' = dropped /\ received' = received + Cardinality(EventsOf(p, sent[p] + 1))
        /\ written' \in {written, written + Cardinality(EventsOf(p, sent[p] + 1))}
        /\ failed' \in {failed, failed + Cardinality(EventsOf(p, sent[p] + 1))}
    BY <1>2 DEF Receive, WriteSynchronously
  <2> QED BY <1>1, <2>2, <2>3
<1>3. ASSUME NEW p \in Producers, EnqueueStep(p)
      PROVE  {received', written', failed', dropped'} \subseteq Nat
  <2>1. CASE CountDrop(p)
    <3>1. Cardinality(MyEvents(p)) \in Nat
      BY <2>1, MineIs, SetsCounted DEF CountDrop
    <3> QED BY <1>1, <2>1, <3>1 DEF CountDrop
  <2>2. CASE Put(p) \/ EvictOldest(p) \/ PutAgain(p)
    BY <1>1, <2>2 DEF Put, EvictOldest, PutAgain, counters
  <2> QED BY <1>3, <2>1, <2>2 DEF EnqueueStep
<1>4. CASE WorkerStep
  <2>1. CASE Flushes \/ Takes
    <3>1. UNCHANGED <<received, dropped, written, failed>>
      BY <1>4, <2>1, WorkerMoves DEF Flushes, Takes
    <3> QED BY <1>1, <3>1
  <2>2. CASE WriteHistory \/ WorkerComplete
    BY <1>1, <2>2 DEF WriteHistory, WorkerComplete, counters
  <2>3. CASE WriteFlows
    BY <1>1, <2>3, SizeNat DEF WriteFlows
  <2>4. CASE WriteFailure
    BY <1>1, <2>4, SizeNat DEF WriteFailure, CountRows
  <2> QED BY <1>4, <2>1, <2>2, <2>3, <2>4, WorkerMoves
<1>5. CASE CloseStep
  BY <1>1, <1>5, CloserMoves DEF counters
<1> QED BY <1>2, <1>3, <1>4, <1>5 DEF Next

\* The items on the queue after something was put on it or taken from it.
LEMMA QueueShape ==
    ASSUME Shape, script' = script,
           \A p \in Producers : sent[p] \in Nat /\ sent'[p] \in Nat /\ sent'[p] >= sent[p],
           NEW x, x = FlushCommand \/ UnitItem(x), Puts(x) \/ Evicts \/ queue' = queue
    PROVE  /\ queue' \in Seq(Item) /\ Len(queue') <= QueueMax
           /\ \A i \in DOMAIN queue' :
                \/ queue'[i] = FlushCommand
                \/ \E p \in Producers : \E n \in 1 .. sent'[p] : queue'[i] = ItemOf(p, n)
<1> DEFINE Later(y) == y = FlushCommand \/ \E p \in Producers : \E n \in 1 .. sent'[p] : y = ItemOf(p, n)
<1>1. ASSUME NEW y, UnitItem(y) PROVE Later(y)
  <2>1. PICK p \in Producers : \E n \in 1 .. sent[p] : y = ItemOf(p, n)
    BY <1>1 DEF UnitItem
  <2>2. PICK n \in 1 .. sent[p] : y = ItemOf(p, n)
    BY <2>1
  <2>3. n \in 1 .. sent'[p]
    BY <2>2
  <2> QED BY <2>2, <2>3
<1> HIDE DEF Later
<1>2. /\ \A i \in DOMAIN queue : Later(queue[i])
      /\ queue \in Seq(Item) /\ Len(queue) <= QueueMax /\ QueueMax \in Nat
  <2>1. \A i \in DOMAIN queue : Later(queue[i])
    BY <1>1 DEF Shape, Later
  <2> QED BY <2>1, LimitsAssumption DEF Shape, TypeOK
<1>3. CASE Puts(x)
  <2>1. x \in Item
    BY ItemsAre
  <2>2. queue' = Append(queue, x) /\ Len(queue) < QueueMax
    BY <1>2, <1>3, LenProperties DEF Puts, Full
  <2>3. \A i \in 1 .. Len(queue) + 1 : i \in 1 .. Len(queue) \/ i = Len(queue) + 1
    BY <2>1, PutIs
  <2>4. \A i \in DOMAIN queue' : queue'[i] = x \/ (i \in DOMAIN queue /\ queue'[i] = queue[i])
    BY <2>1, <2>2, <2>3, PutIs
  <2>5. Len(queue') <= QueueMax /\ queue' \in Seq(Item)
    BY <1>2, <2>1, <2>2, PutIs
  <2>6. Later(x)
    BY <1>1 DEF Later
  <2> QED BY <1>2, <2>4, <2>5, <2>6 DEF Later
<1>4. CASE Evicts
  <2>1. queue # << >> /\ queue' = Tail(queue)
    BY <1>4 DEF Evicts
  <2>2. Len(queue') = Len(queue) - 1 /\ Len(queue) \in Nat /\ queue' \in Seq(Item)
    BY <2>1, HeadIs, ZenonT(60)
  <2>3. \A i \in DOMAIN queue' : i + 1 \in DOMAIN queue /\ queue'[i] = queue[i + 1]
    BY <2>1, HeadIs, ZenonT(60)
  <2>4. \A i \in DOMAIN queue' : Later(queue'[i])
    BY <1>2, <2>3
  <2> QED BY <1>2, <2>2, <2>4 DEF Later
<1>5. CASE queue' = queue
  BY <1>2, <1>5 DEF Later
<1> QED BY <1>3, <1>4, <1>5

LEMMA BuffersShape ==
    ASSUME Shape, NEW x, x = FlushCommand \/ UnitItem(x),
           \/ Splits(buffers)
           \/ Splits(Collected(x))
           \/ buffers' = buffers /\ (batch' = batch \/ batch' = NoBatch)
    PROVE  /\ buffers' \in [Kinds -> Seq(Event)] /\ batch' \in [Kinds -> Seq(Event)]
           /\ \A k \in Kinds : /\ \A i \in DOMAIN buffers'[k] : buffers'[k][i].kind = k
                               /\ \A i \in DOMAIN batch'[k] : batch'[k][i].kind = k
<1> DEFINE Sorted(b) == \A k \in Kinds : \A i \in DOMAIN b[k] : b[k][i].kind = k
<1>1. /\ buffers \in [Kinds -> Seq(Event)] /\ batch \in [Kinds -> Seq(Event)]
      /\ Sorted(buffers) /\ Sorted(batch)
  BY DEF Shape, TypeOK
<1>2. Sorted(NoBatch)
  BY EmptyBatch
<1>3. ASSUME NEW b \in [Kinds -> Seq(Event)], Sorted(b), Splits(b)
      PROVE  Sorted(batch') /\ Sorted(buffers')
  <2>1. \A k \in Kinds : DOMAIN << >> = {}
    BY EmptyBatch
  <2>2. \A k \in Kinds : \/ batch'[k] = b[k] /\ buffers'[k] = << >>
                         \/ batch'[k] = << >> /\ buffers'[k] = b[k]
    BY <1>3, SplitIs
  <2> QED BY <1>3, <2>1, <2>2
<1>4. ASSUME NEW k \in Kinds, NEW i \in DOMAIN Collected(x)[k]
      PROVE  Collected(x)[k][i].kind = k
  <2>1. CASE Collected(x)[k] = buffers[k]
    BY <1>1, <2>1
  <2>2. CASE \E e \in x.events : e.kind = k /\ Collected(x)[k] = Append(buffers[k], e)
    <3>1. PICK e \in x.events : e.kind = k /\ Collected(x)[k] = Append(buffers[k], e)
      BY <2>2
    <3>2. e \in Event /\ buffers[k] \in Seq(Event)
      BY <1>1, ItemsAre
    <3>3. i = Len(buffers[k]) + 1 \/ i \in DOMAIN buffers[k]
      BY <3>1, <3>2, AppendProperties, LenProperties
    <3> QED BY <1>1, <3>1, <3>2, <3>3, AppendProperties, LenProperties
  <2> QED BY <2>1, <2>2, CollectedIs
<1> HIDE DEF Sorted
<1>5. CASE Splits(buffers)
  BY <1>1, <1>3, <1>5, SplitIs DEF Sorted
<1>6. CASE Splits(Collected(x))
  <2>1. Collected(x) \in [Kinds -> Seq(Event)]
    BY CollectedIs
  <2>2. Sorted(Collected(x))
    BY <1>4 DEF Sorted
  <2> QED BY <1>3, <1>6, <2>1, <2>2, SplitIs DEF Sorted
<1>7. CASE buffers' = buffers /\ (batch' = batch \/ batch' = NoBatch)
  BY <1>1, <1>2, <1>7, EmptyBatch DEF Sorted
<1> QED BY <1>5, <1>6, <1>7

\* A set of positions in a sequence has a last one.
LEMMA LastPosition ==
    ASSUME NEW n \in Nat, NEW T, T \subseteq 1 .. n, T # {}
    PROVE  \E i \in T : \A j \in T : j <= i
<1> DEFINE U == {n - i : i \in T}
<1>1. U \subseteq Nat /\ U # {}
  <2>1. \A i \in T : n - i \in Nat
    OBVIOUS
  <2>2. PICK i \in T : TRUE
    OBVIOUS
  <2>3. n - i \in U
    BY <2>2
  <2> QED BY <2>1, <2>3
<1>2. PICK x \in U : \A y \in U : ~ (<<y, x>> \in OpToRel(<, Nat))
  BY <1>1, WFMin, NatLessThanWellFounded
<1>3. PICK i \in T : x = n - i
  OBVIOUS
<1>4. ASSUME NEW j \in T PROVE j <= i
  <2>1. n - j \in U /\ n - j \in Nat /\ n - i \in Nat
    BY <1>1
  <2>2. ~ (n - j < n - i)
    BY <1>2, <1>3, <2>1 DEF OpToRel
  <2> QED BY <2>2
<1> QED BY <1>4

\* The flow writer keeps, per flow, the snapshot that comes last in the batch.
LEMMA LastIs ==
    ASSUME Shape, NEW p \in Producers
    PROVE  \/ LastOf(p, batch["flow_record"]) = snapshot[p]
           \/ \E e \in Range(batch["flow_record"]) :
                /\ e \in Event /\ e.by = p /\ e.kind = "flow_record"
                /\ LastOf(p, batch["flow_record"]) = e.n
<1> DEFINE flows == batch["flow_record"]
           mine == {i \in DOMAIN flows : flows[i].by = p}
<1>1. flows \in Seq(Event) /\ \A i \in DOMAIN flows : flows[i].kind = "flow_record"
  BY KindsAre DEF Shape, TypeOK
<1>2. Len(flows) \in Nat /\ DOMAIN flows = 1 .. Len(flows) /\ \A i \in DOMAIN flows : flows[i] \in Event
  BY <1>1, LenProperties
<1>3. CASE mine = {}
  BY <1>3 DEF LastOf
<1>4. CASE mine # {}
  <2>1. \E i \in mine : \A j \in mine : j <= i
    BY <1>2, <1>4, LastPosition
  <2>2. PICK i \in mine : i = CHOOSE k \in mine : \A j \in mine : j <= k
    BY <2>1
  <2>3. LastOf(p, flows) = flows[i].n
    BY <1>4, <2>2 DEF LastOf
  <2> QED BY <1>1, <1>2, <2>2, <2>3 DEF Range
<1> QED BY <1>3, <1>4

LEMMA CappedIs ==
    ASSUME NEW x \in Nat
    PROVE  Capped(x) \in 0 .. 2 /\ (Capped(x) = 0 <=> x = 0) /\ (Capped(x) = 2 <=> x >= 2)
BY DEF Capped

\* What a commit does to the two tables, with what was open.
LEMMA CommitIs ==
    ASSUME NEW open \in [Event -> 0 .. 4], NEW new, rows \in [Event -> 0 .. 2], Commit(open, new)
    PROVE  /\ rows' \in [Event -> 0 .. 2] /\ uncommitted' \in [Event -> 0 .. 2]
           /\ \A e \in Event : /\ uncommitted'[e] = 0
                               /\ rows'[e] = 0 <=> rows[e] = 0 /\ open[e] = 0 /\ e \notin new
                               /\ rows'[e] = 2 => rows[e] = 2 \/ open[e] # 0 \/ (e \in new /\ rows[e] # 0)
<1> DEFINE All(e) == rows[e] + open[e] + (IF e \in new THEN 1 ELSE 0)
<1>1. /\ rows' = [e \in Event |-> Capped(All(e))]
      /\ uncommitted' = [e \in Event |-> 0]
  BY DEF Commit, NoRows
<1>2. ASSUME NEW e \in Event
      PROVE  /\ All(e) \in Nat
             /\ All(e) = 0 <=> rows[e] = 0 /\ open[e] = 0 /\ e \notin new
             /\ All(e) >= 2 => rows[e] = 2 \/ open[e] # 0 \/ (e \in new /\ rows[e] # 0)
  <2>1. rows[e] \in 0 .. 2 /\ open[e] \in 0 .. 4
    OBVIOUS
  <2>2. CASE e \in new
    BY <2>1, <2>2
  <2>3. CASE e \notin new
    BY <2>1, <2>3
  <2> QED BY <2>2, <2>3
<1> HIDE DEF All
<1>3. ASSUME NEW e \in Event
      PROVE  /\ Capped(All(e)) \in 0 .. 2 /\ (Capped(All(e)) = 0 <=> All(e) = 0)
             /\ (Capped(All(e)) = 2 <=> All(e) >= 2)
  BY <1>2, CappedIs
<1>4. rows' \in [Event -> 0 .. 2] /\ uncommitted' \in [Event -> 0 .. 2]
  BY <1>1, <1>3
<1> QED BY <1>1, <1>2, <1>3, <1>4

\* The outcomes of a call that writes in its own thread: it stores no event twice that
\* had no rows, but for those that an attempt left open.
LEMMA SynchronousIs ==
    ASSUME NEW p \in Producers, WriteSynchronously(p),
           rows \in [Event -> 0 .. 2], uncommitted \in [Event -> 0 .. 2]
    PROVE  /\ rows' \in [Event -> 0 .. 2] /\ uncommitted' \in [Event -> 0 .. 2]
           /\ halfWritten \subseteq halfWritten'
           /\ halfWritten' \subseteq halfWritten \cup EventsOf(p, sent[p] + 1)
           /\ \A e \in Event :
                /\ rows'[e] = 2 => rows[e] = 2 \/ uncommitted[e] # 0 \/ e \in halfWritten'
                                     \/ (e \in EventsOf(p, sent[p] + 1) /\ rows[e] # 0)
                /\ uncommitted'[e] # 0 => uncommitted[e] # 0 \/ e \in halfWritten'
                /\ Bare(e)' \/ ~Bare(e) \/ e \in EventsOf(p, sent[p] + 1)
<1> DEFINE new == EventsOf(p, sent[p] + 1)
           stored == {e \in new : e.kind \in History}
<1>1. PICK kept \in [stored -> 0 .. 2], rollbacks \in 0 .. 1 :
        LET open == [e \in Event |-> (IF rollbacks = 0 THEN uncommitted[e] ELSE 0)
                                      + (IF e \in stored THEN kept[e] ELSE 0)]
        IN  /\ halfWritten' = halfWritten \cup {e \in stored : kept[e] > 0}
            /\ \/ Commit(open, stored)
               \/ UNCHANGED <<rows, uncommitted>>
               \/ uncommitted' = [e \in Event |-> Capped(open[e])] /\ rows' = rows
  BY Zenon DEF WriteSynchronously
<1> DEFINE open == [e \in Event |-> (IF rollbacks = 0 THEN uncommitted[e] ELSE 0)
                                     + (IF e \in stored THEN kept[e] ELSE 0)]
<1>2. ASSUME NEW e \in Event
      PROVE  open[e] \in 0 .. 4 /\ (open[e] # 0 => uncommitted[e] # 0 \/ e \in halfWritten')
  <2>1. uncommitted[e] \in 0 .. 2
    OBVIOUS
  <2>2. CASE e \in stored
    <3>1. kept[e] \in 0 .. 2 /\ (kept[e] > 0 => e \in halfWritten')
      BY <1>1, <2>2
    <3> QED BY <2>1, <2>2, <3>1
  <2>3. CASE e \notin stored
    BY <2>1, <2>3
  <2> QED BY <2>2, <2>3
<1>3. open \in [Event -> 0 .. 4]
  BY <1>2
<1>4. halfWritten \subseteq halfWritten' /\ halfWritten' \subseteq halfWritten \cup new
  BY <1>1
<1>5. ASSUME NEW e \in Event PROVE open[e] # 0 => uncommitted[e] # 0 \/ e \in new
  BY <1>1
<1>6. stored \subseteq new
  OBVIOUS
<1>7. Commit(open, stored) \/ UNCHANGED <<rows, uncommitted>>
        \/ (uncommitted' = [e \in Event |-> Capped(open[e])] /\ rows' = rows)
  BY <1>1, Zenon
<1> HIDE DEF open, stored, new
<1>8. CASE Commit(open, stored)
  <2>1. /\ rows' \in [Event -> 0 .. 2] /\ uncommitted' \in [Event -> 0 .. 2]
        /\ \A e \in Event : /\ uncommitted'[e] = 0
                            /\ rows'[e] = 0 <=> rows[e] = 0 /\ open[e] = 0 /\ e \notin stored
                            /\ rows'[e] = 2 => rows[e] = 2 \/ open[e] # 0 \/ (e \in stored /\ rows[e] # 0)
    BY <1>3, <1>8, CommitIs
  <2> QED BY <1>2, <1>4, <1>5, <1>6, <2>1 DEF Bare, new
<1>9. CASE UNCHANGED <<rows, uncommitted>>
  BY <1>4, <1>9 DEF Bare, new
<1>10. CASE uncommitted' = [e \in Event |-> Capped(open[e])] /\ rows' = rows
  <2>1. \A e \in Event : uncommitted'[e] \in 0 .. 2 /\ (uncommitted'[e] = 0 <=> open[e] = 0)
    BY <1>2, <1>10, CappedIs
  <2>2. uncommitted' \in [Event -> 0 .. 2]
    BY <1>10, <2>1
  <2> QED BY <1>2, <1>4, <1>5, <1>10, <2>1, <2>2 DEF Bare, new
<1> QED BY <1>7, <1>8, <1>9, <1>10

\* The outcomes of the first transaction of a batch.
LEMMA HistoryIs ==
    ASSUME Shape, WriteHistory
    PROVE  /\ rows' \in [Event -> 0 .. 2] /\ uncommitted' \in [Event -> 0 .. 2]
           /\ halfWritten \subseteq halfWritten' /\ halfWritten' \subseteq halfWritten \cup Rows(batch)
           /\ \A e \in Event :
                /\ e \notin Rows(batch) /\ Bare(e) => Bare(e)'
                /\ rows'[e] = 2 => rows[e] = 2 \/ uncommitted[e] # 0 \/ (e \in Rows(batch) /\ rows[e] # 0)
                /\ uncommitted'[e] # 0 => uncommitted[e] # 0 \/ e \in halfWritten'
                /\ worker' = "failure" => Bare(e)' \/ ~Bare(e) \/ e \in halfWritten'
<1>1. rows \in [Event -> 0 .. 2] /\ uncommitted \in [Event -> 0 .. 2] /\ batch \in [Kinds -> Seq(Event)]
  BY DEF Shape, TypeOK
<1>2. Range(HistoryRows) \subseteq Rows(batch)
  <2> DEFINE a == batch["packet_record"]
             b == batch["alert_record"]
  <2>1. a \in Seq(Event) /\ b \in Seq(Event)
    BY <1>1, KindsAre
  <2> HIDE DEF a, b
  <2>2. Range(a \o b) \subseteq Range(a) \cup Range(b)
    <3>1. ASSUME NEW i \in DOMAIN (a \o b)
          PROVE  (\E j \in DOMAIN a : (a \o b)[i] = a[j]) \/ (\E j \in DOMAIN b : (a \o b)[i] = b[j])
      <4>1. /\ Len(a \o b) = Len(a) + Len(b) /\ Len(a) \in Nat /\ Len(b) \in Nat
            /\ \A k \in 1 .. Len(a) + Len(b) :
                 (a \o b)[k] = IF k <= Len(a) THEN a[k] ELSE b[k - Len(a)]
            /\ DOMAIN (a \o b) = 1 .. Len(a) + Len(b)
            /\ DOMAIN a = 1 .. Len(a) /\ DOMAIN b = 1 .. Len(b)
        BY <2>1, ConcatProperties, LenProperties
      <4>2. i \in 1 .. Len(a) + Len(b)
        BY <4>1
      <4>3. CASE i <= Len(a)
        BY <4>1, <4>2, <4>3
      <4>4. CASE ~(i <= Len(a))
        <5>1. i - Len(a) \in 1 .. Len(b) /\ (a \o b)[i] = b[i - Len(a)]
          BY <4>1, <4>2, <4>4
        <5> QED BY <4>1, <5>1
      <4> QED BY <4>3, <4>4
    <3> QED BY <3>1 DEF Range
  <2> QED BY <2>2, KindsAre DEF HistoryRows, Rows, a, b
<1>3. ASSUME NEW n \in 1 .. Len(HistoryRows) PROVE Inserted(n) \subseteq Rows(batch)
  <2>1. HistoryRows \in Seq(Event)
    BY <1>1, KindsAre DEF HistoryRows
  <2>2. \A i \in 1 .. n : i \in DOMAIN HistoryRows
    BY <2>1, LenProperties
  <2> QED BY <1>2, <2>2 DEF Inserted, Range
<1>4. uncommitted \in [Event -> 0 .. 4]
  BY <1>1
<1>5. CASE Commit(uncommitted, Range(HistoryRows)) /\ worker' = "flows" /\ halfWritten' = halfWritten
  <2>1. /\ rows' \in [Event -> 0 .. 2] /\ uncommitted' \in [Event -> 0 .. 2]
        /\ \A e \in Event :
             /\ uncommitted'[e] = 0
             /\ rows'[e] = 0 <=> rows[e] = 0 /\ uncommitted[e] = 0 /\ e \notin Range(HistoryRows)
             /\ rows'[e] = 2 => rows[e] = 2 \/ uncommitted[e] # 0 \/ (e \in Range(HistoryRows) /\ rows[e] # 0)
    BY <1>1, <1>4, <1>5, CommitIs
  <2> QED BY <1>2, <1>5, <2>1 DEF Bare
<1>6. CASE UNCHANGED <<rows, uncommitted, halfWritten>> /\ worker' = "flows"
  BY <1>1, <1>6 DEF Bare
<1>7. CASE rows' = rows /\ uncommitted' = NoRows /\ halfWritten' = halfWritten
  BY <1>1, <1>7 DEF Bare, NoRows
<1>8. ASSUME NEW n \in 1 .. Len(HistoryRows), rows' = rows,
             uncommitted' = [e \in Event |-> Capped(uncommitted[e] + (IF e \in Inserted(n) THEN 1 ELSE 0))],
             halfWritten' = halfWritten \cup Inserted(n)
      PROVE  /\ uncommitted' \in [Event -> 0 .. 2] /\ halfWritten' \subseteq halfWritten \cup Rows(batch)
             /\ \A e \in Event : \/ uncommitted'[e] = 0 /\ uncommitted[e] = 0
                                 \/ uncommitted[e] # 0 \/ e \in Inserted(n)
             /\ \A e \in Event : Bare(e) => Bare(e)' \/ e \in Inserted(n)
  <2>1. ASSUME NEW e \in Event
        PROVE  /\ uncommitted'[e] \in 0 .. 2
               /\ uncommitted'[e] = 0 <=> uncommitted[e] = 0 /\ e \notin Inserted(n)
    <3>1. uncommitted[e] \in 0 .. 2
      BY <1>1
    <3>2. CASE e \in Inserted(n)
      <4>1. uncommitted'[e] = Capped(uncommitted[e] + 1) /\ uncommitted[e] + 1 \in Nat
        BY <1>8, <3>1, <3>2
      <4> QED BY <3>1, <3>2, <4>1, CappedIs
    <3>3. CASE e \notin Inserted(n)
      <4>1. uncommitted'[e] = Capped(uncommitted[e] + 0) /\ uncommitted[e] + 0 = uncommitted[e]
            /\ uncommitted[e] \in Nat
        BY <1>8, <3>1, <3>3
      <4> QED BY <3>1, <3>3, <4>1, CappedIs
    <3> QED BY <3>2, <3>3
  <2>2. uncommitted' \in [Event -> 0 .. 2]
    BY <1>8, <2>1
  <2> QED BY <1>3, <1>8, <2>1, <2>2 DEF Bare
<1>9. CASE \E n \in 1 .. Len(HistoryRows) :
            /\ uncommitted' = [e \in Event |-> Capped(uncommitted[e] + (IF e \in Inserted(n) THEN 1 ELSE 0))]
            /\ halfWritten' = halfWritten \cup Inserted(n) /\ rows' = rows
  <2>1. PICK n \in 1 .. Len(HistoryRows) :
            /\ uncommitted' = [e \in Event |-> Capped(uncommitted[e] + (IF e \in Inserted(n) THEN 1 ELSE 0))]
            /\ halfWritten' = halfWritten \cup Inserted(n) /\ rows' = rows
    BY <1>9
  <2>2. /\ uncommitted' \in [Event -> 0 .. 2] /\ halfWritten' \subseteq halfWritten \cup Rows(batch)
        /\ \A e \in Event : \/ uncommitted'[e] = 0 /\ uncommitted[e] = 0
                            \/ uncommitted[e] # 0 \/ e \in Inserted(n)
        /\ \A e \in Event : Bare(e) => Bare(e)' \/ e \in Inserted(n)
    BY <1>8, <2>1
  <2> QED BY <1>1, <1>3, <2>1, <2>2 DEF Bare
<1> QED BY <1>5, <1>6, <1>7, <1>9, Zenon DEF WriteHistory

\* The second transaction leaves what is open, or the clean-up after it commits that.
LEMMA FlowsAre ==
    ASSUME WriteFlows, rows \in [Event -> 0 .. 2], uncommitted \in [Event -> 0 .. 2]
    PROVE  /\ rows' \in [Event -> 0 .. 2] /\ uncommitted' \in [Event -> 0 .. 2]
           /\ \A e \in Event : /\ Bare(e) => Bare(e)'
                               /\ rows'[e] = 2 => rows[e] = 2 \/ uncommitted[e] # 0
                               /\ uncommitted'[e] # 0 => uncommitted[e] # 0
<1>1. Commit(uncommitted, {}) \/ UNCHANGED <<rows, uncommitted>>
  BY DEF WriteFlows
<1>2. CASE Commit(uncommitted, {})
  <2>1. uncommitted \in [Event -> 0 .. 4]
    OBVIOUS
  <2>2. /\ rows' \in [Event -> 0 .. 2] /\ uncommitted' \in [Event -> 0 .. 2]
        /\ \A e \in Event : /\ uncommitted'[e] = 0
                            /\ rows'[e] = 0 <=> rows[e] = 0 /\ uncommitted[e] = 0 /\ e \notin {}
                            /\ rows'[e] = 2 => rows[e] = 2 \/ uncommitted[e] # 0 \/ (e \in {} /\ rows[e] # 0)
    BY <1>2, <2>1, CommitIs
  <2> QED BY <2>2 DEF Bare
<1>3. CASE UNCHANGED <<rows, uncommitted>>
  BY <1>3 DEF Bare
<1> QED BY <1>1, <1>2, <1>3

\* The storage tables stay typed.
LEMMA StoreShape ==
    ASSUME Shape, Next
    PROVE  /\ rows' \in [Event -> 0 .. 2] /\ uncommitted' \in [Event -> 0 .. 2]
           /\ snapshot' \in [Producers -> 0 .. Units]
<1> DEFINE Tables == rows' \in [Event -> 0 .. 2] /\ uncommitted' \in [Event -> 0 .. 2]
           Typed == Tables /\ snapshot' \in [Producers -> 0 .. Units]
<1>1. /\ rows \in [Event -> 0 .. 2] /\ uncommitted \in [Event -> 0 .. 2]
      /\ snapshot \in [Producers -> 0 .. Units]
  BY DEF Shape, TypeOK
<1>2. CASE UNCHANGED <<rows, uncommitted, snapshot>>
  BY <1>1, <1>2
<1>3. ASSUME NEW p \in Producers, WriteSynchronously(p) PROVE Typed
  <2>1. sent[p] + 1 \in 0 .. Units
    BY <1>3, NextIs DEF WriteSynchronously
  <2>2. Tables
    BY <1>1, <1>3, SynchronousIs
  <2>3. snapshot' = snapshot \/ snapshot' = [snapshot EXCEPT ![p] = sent[p] + 1]
    BY <1>3 DEF WriteSynchronously
  <2> QED BY <1>1, <2>1, <2>2, <2>3
<1>4. CASE WriteHistory
  <2>1. snapshot' = snapshot
    BY <1>4 DEF WriteHistory
  <2> QED BY <1>1, <1>4, <2>1, HistoryIs
<1>5. CASE WriteFlows
  <2>1. snapshot' = [p \in Producers |-> LastOf(p, batch["flow_record"])] \/ snapshot' = snapshot
    BY <1>5 DEF WriteFlows
  <2>2. \A p \in Producers : LastOf(p, batch["flow_record"]) \in 0 .. Units
    <3>1. \A e \in Event : e.n \in 0 .. Units
      BY ScriptsAssumption DEF Event
    <3> QED BY <1>1, <3>1, LastIs
  <2>3. Tables
    BY <1>1, <1>5, FlowsAre
  <2> QED BY <1>1, <2>1, <2>2, <2>3
<1>6. ASSUME NEW p \in Producers, Receive(p) \/ EnqueueStep(p)
      PROVE  UNCHANGED <<rows, uncommitted, snapshot>>
  BY <1>6 DEF Receive, EnqueueStep, Put, EvictOldest, PutAgain, CountDrop, store
<1>7. CASE WriteFailure \/ WorkerComplete
  BY <1>2, <1>7 DEF WriteFailure, WorkerComplete, store
<1>8. CASE WorkerStep
  BY <1>2, <1>4, <1>5, <1>7, <1>8, WorkerMoves DEF Flushes, Takes
<1>9. CASE CloseStep
  BY <1>2, <1>9, CloserMoves DEF store
<1> QED BY <1>2, <1>3, <1>6, <1>8, <1>9 DEF Next

LEMMA ShapeOfProducer ==
    ASSUME Shape, NEW p \in Producers, Receive(p) \/ EnqueueStep(p) \/ WriteSynchronously(p), Next
    PROVE  Shape'
<1>1. /\ UNCHANGED <<fixed, buffers, batch, left, worker, serving, closing>>
      /\ pc' \in [Producers -> {"idle", "put", "full", "retry", "count"}]
      /\ sent' \in [Producers -> Nat]
      /\ \A q \in Producers : q # p => pc'[q] = pc[q] /\ sent'[q] = sent[q]
      /\ \A q \in Producers : /\ sent'[q] <= Len(script[q]) /\ sent'[q] >= sent[q]
                              /\ sent[q] \in Nat /\ sent'[q] \in Nat
      /\ pc'[p] # "idle" => sent'[p] > 0
      /\ policy # "drop_oldest" => pc'[p] \notin {"full", "retry"}
      /\ ~enabled => pc'[p] = "idle" /\ queue' = queue
  BY ProducerMoves
<1>2. UNCHANGED <<script, policy, enabled, stop, closer, flushed>>
  BY <1>1 DEF fixed, closing
<1>3. \E x : (x = FlushCommand \/ UnitItem(x)) /\ (Puts(x) \/ Evicts \/ queue' = queue)
  <2>1. (Puts(MyItem(p)) /\ pc[p] \in {"put", "retry"}) \/ Evicts \/ queue' = queue
    BY ProducerQueue
  <2>2. ASSUME pc[p] \in {"put", "retry"} PROVE UnitItem(MyItem(p))
    BY <2>2, MineIs DEF UnitItem
  <2> QED BY <2>1, <2>2
<1>4. /\ queue' \in Seq(Item) /\ Len(queue') <= QueueMax
      /\ \A i \in DOMAIN queue' :
                \/ queue'[i] = FlushCommand
                \/ \E q \in Producers : \E n \in 1 .. sent'[q] : queue'[i] = ItemOf(q, n)
  BY <1>1, <1>2, <1>3, QueueShape
<1>5. completed' \in BOOLEAN /\ lost' \subseteq Event /\ early' \subseteq Event /\ halfWritten' \subseteq Event
  <2>1. completed \in BOOLEAN /\ lost \subseteq Event /\ early \subseteq Event /\ halfWritten \subseteq Event
    BY DEF Shape, TypeOK
  <2>2. CASE EvictOldest(p)
    <3>1. queue # << >> => Head(queue).flush \in BOOLEAN /\ Head(queue).events \subseteq Event
      BY HeadIs, ItemsAre
    <3>2. early' = early /\ halfWritten' = halfWritten
      BY <2>2 DEF EvictOldest, store
    <3> QED BY <2>1, <2>2, <3>1, <3>2 DEF EvictOldest
  <2>3. CASE Receive(p) \/ CountDrop(p)
    BY <2>1, <2>3 DEF Receive, CountDrop, store
  <2>4. CASE Put(p) \/ PutAgain(p)
    <3>1. MyEvents(p) \subseteq Event
      BY <2>4, MineIs DEF Put, PutAgain
    <3>2. completed' = completed /\ halfWritten' = halfWritten
      BY <2>4 DEF Put, PutAgain, store
    <3> QED BY <2>1, <2>4, <3>1, <3>2 DEF Put, PutAgain, PutItem
  <2>5. CASE WriteSynchronously(p)
    <3>1. UNCHANGED <<completed, lost, early>> /\ sent[p] < Len(script[p])
      BY <2>5 DEF WriteSynchronously
    <3>2. halfWritten' \subseteq halfWritten \cup EventsOf(p, sent[p] + 1)
      BY <2>5, SynchronousIs DEF Shape, TypeOK
    <3>3. EventsOf(p, sent[p] + 1) \subseteq Event
      BY <3>1, NextIs
    <3> QED BY <2>1, <3>1, <3>2, <3>3
  <2> QED BY <2>2, <2>3, <2>4, <2>5 DEF EnqueueStep
<1>6. TypeOK'
  <2>1. /\ {received', written', failed', dropped'} \subseteq Nat
        /\ rows' \in [Event -> 0 .. 2] /\ uncommitted' \in [Event -> 0 .. 2]
        /\ snapshot' \in [Producers -> 0 .. Units]
    BY CountersNat, StoreShape
  <2> QED BY <1>1, <1>2, <1>4, <1>5, <2>1 DEF Shape, TypeOK
<1>7. \A i \in DOMAIN queue' : queue'[i] = FlushCommand \/
                               \E q \in Producers : \E n \in 1 .. sent'[q] : queue'[i] = ItemOf(q, n)'
  BY <1>2, <1>4 DEF ItemOf, EventsOf
<1>8. /\ \A q \in Producers : pc'[q] # "idle" => sent'[q] > 0
      /\ policy' # "drop_oldest" => \A q \in Producers : pc'[q] \notin {"full", "retry"}
      /\ ~enabled' => /\ worker' = "off" /\ queue' = << >> /\ buffers' = NoBatch /\ closer' = "open"
                      /\ \A q \in Producers : pc'[q] = "idle"
      /\ enabled' => worker' # "off"
      /\ worker' \in {"off", "get", "complete", "exited"} => batch' = NoBatch
      /\ stop' <=> closer' = "stopping"
  BY <1>1, <1>2 DEF Shape
<1>9. \A k \in Kinds : /\ \A i \in DOMAIN buffers'[k] : buffers'[k][i].kind = k
                       /\ \A i \in DOMAIN batch'[k] : batch'[k][i].kind = k
  BY <1>1 DEF Shape
<1> QED BY <1>6, <1>7, <1>8, <1>9 DEF Shape, UnitItem

LEMMA ShapeOfCloser == ASSUME Shape, CloseStep PROVE Shape'
<1>1. /\ UNCHANGED <<fixed, counters, writer, producing, completed, store, lost, early>>
      /\ Puts(FlushCommand) \/ queue' = queue
  BY CloserMoves
<1>2. UNCHANGED <<script, policy, enabled, received, written, failed, dropped, buffers, batch, left,
                  worker, serving, pc, sent, completed, rows,
                  uncommitted, snapshot, halfWritten, lost, early>>
  BY <1>1 DEF fixed, counters, writer, producing, store
<1>3. \A p \in Producers : sent[p] \in Nat
  BY DEF Shape, TypeOK
<1>4. /\ queue' \in Seq(Item) /\ Len(queue') <= QueueMax
      /\ \A i \in DOMAIN queue' :
                \/ queue'[i] = FlushCommand
                \/ \E q \in Producers : \E n \in 1 .. sent'[q] : queue'[i] = ItemOf(q, n)
  BY <1>1, <1>2, <1>3, QueueShape
<1>5. \A i \in DOMAIN queue' : queue'[i] = FlushCommand \/
                               \E q \in Producers : \E n \in 1 .. sent'[q] : queue'[i] = ItemOf(q, n)'
  BY <1>2, <1>4 DEF ItemOf, EventsOf
<1>6. /\ enabled /\ closer' \in {"waiting", "flushed", "stopping"}
      /\ flushed' \in {"unknown", "yes", "no"} /\ stop' \in BOOLEAN
      /\ stop' <=> closer' = "stopping"
  <2>1. /\ enabled \in BOOLEAN /\ flushed \in {"unknown", "yes", "no"} /\ stop \in BOOLEAN
        /\ (stop <=> closer = "stopping") /\ (~enabled => closer = "open")
    BY ModesAssumption DEF Shape, TypeOK
  <2>2. CASE CloseFlush
    BY <2>1, <2>2 DEF CloseFlush
  <2>3. CASE CloseWait
    BY <2>1, <2>3 DEF CloseWait
  <2>4. CASE CloseStop
    BY <2>1, <2>4 DEF CloseStop
  <2> QED BY <2>2, <2>3, <2>4 DEF CloseStep
<1>7. TypeOK'
  BY <1>2, <1>4, <1>6 DEF Shape, TypeOK
<1> QED BY <1>2, <1>5, <1>6, <1>7 DEF Shape, UnitItem

LEMMA ShapeOfWorker == ASSUME Shape, WorkerStep, Next PROVE Shape'
<1>1. /\ UNCHANGED <<fixed, producing, closing, lost, early, received, dropped>>
      /\ \/ Flushes
         \/ Takes
         \/ /\ WriteHistory \/ WriteFlows \/ WriteFailure \/ WorkerComplete
            /\ UNCHANGED <<queue, buffers>>
            /\ batch' = batch \/ batch' = NoBatch
  BY WorkerMoves
<1>2. UNCHANGED <<script, policy, enabled, received, dropped, pc, sent, stop, closer, flushed, lost, early>>
  BY <1>1 DEF fixed, producing, closing
<1>3. \A p \in Producers : sent[p] \in Nat
  BY DEF Shape, TypeOK
<1>4. /\ queue' \in Seq(Item) /\ Len(queue') <= QueueMax
      /\ \A i \in DOMAIN queue' :
                \/ queue'[i] = FlushCommand
                \/ \E q \in Producers : \E n \in 1 .. sent'[q] : queue'[i] = ItemOf(q, n)
  <2>1. Evicts \/ queue' = queue
    BY <1>1 DEF Flushes, Takes
  <2> QED BY <1>2, <1>3, <2>1, QueueShape
<1>5. \A i \in DOMAIN queue' : queue'[i] = FlushCommand \/
                               \E q \in Producers : \E n \in 1 .. sent'[q] : queue'[i] = ItemOf(q, n)'
  BY <1>2, <1>4 DEF ItemOf, EventsOf
<1>6. /\ buffers' \in [Kinds -> Seq(Event)] /\ batch' \in [Kinds -> Seq(Event)]
      /\ \A k \in Kinds : /\ \A i \in DOMAIN buffers'[k] : buffers'[k][i].kind = k
                          /\ \A i \in DOMAIN batch'[k] : batch'[k][i].kind = k
  <2>1. \E x : /\ x = FlushCommand \/ UnitItem(x)
               /\ \/ Splits(buffers)
                  \/ Splits(Collected(x))
                  \/ buffers' = buffers /\ (batch' = batch \/ batch' = NoBatch)
    <3>1. CASE Takes
      <4>1. Head(queue) = FlushCommand \/ UnitItem(Head(queue))
        BY <3>1, HeadIs DEF Takes, Evicts
      <4> QED BY <3>1, <4>1 DEF Takes
    <3>2. CASE ~Takes
      BY <1>1, <3>2 DEF Flushes
    <3> QED BY <3>1, <3>2
  <2> QED BY <2>1, BuffersShape
<1>7. /\ left' \in 0 .. RetryMax /\ serving' \in BOOLEAN /\ completed' \in BOOLEAN
      /\ halfWritten' \subseteq Event /\ worker # "off"
      /\ worker' \in {"get", "history", "flows", "failure", "complete", "exited"}
      /\ worker' \in {"get", "complete", "exited"} => batch' = NoBatch
  <2>1. /\ left \in 0 .. RetryMax /\ serving \in BOOLEAN /\ completed \in BOOLEAN
        /\ halfWritten \subseteq Event /\ RetryMax \in Nat
        /\ worker \in {"off", "get", "history", "flows", "failure", "complete", "exited"}
        /\ worker \in {"off", "get", "complete", "exited"} => batch = NoBatch
    BY LimitsAssumption DEF Shape, TypeOK
  <2>2. Rows(batch) \subseteq Event
    BY PendingTyped, PendingIs
  <2>3. CASE Flushes
    BY <2>1, <2>3 DEF Flushes
  <2>4. CASE Takes
    <3>1. Head(queue).flush \in BOOLEAN
      BY <2>4, HeadIs, ItemsAre DEF Takes, Evicts
    <3> QED BY <2>1, <2>4, <3>1 DEF Takes
  <2>5. CASE WriteHistory
    <3>1. halfWritten' \subseteq halfWritten \cup Rows(batch)
      BY <2>5, HistoryIs
    <3> QED BY <2>1, <2>2, <2>5, <3>1 DEF WriteHistory
  <2>6. CASE WriteFlows
    BY <2>1, <2>2, <2>6 DEF WriteFlows
  <2>7. CASE WriteFailure
    BY <2>1, <2>7 DEF WriteFailure, CanRetry, SpendOne, store
  <2>8. CASE WorkerComplete
    BY <2>1, <2>8 DEF WorkerComplete, store
  <2> QED BY <1>1, <2>3, <2>4, <2>5, <2>6, <2>7, <2>8
<1>8. TypeOK'
  <2>1. /\ {received', written', failed', dropped'} \subseteq Nat
        /\ rows' \in [Event -> 0 .. 2] /\ uncommitted' \in [Event -> 0 .. 2]
        /\ snapshot' \in [Producers -> 0 .. Units]
    BY CountersNat, StoreShape
  <2> QED BY <1>2, <1>4, <1>6, <1>7, <2>1 DEF Shape, TypeOK
<1>9. enabled
  BY <1>7 DEF Shape
<1>10. worker' # "off"
  BY <1>7
<1>11. /\ \A q \in Producers : pc'[q] # "idle" => sent'[q] > 0
       /\ policy' # "drop_oldest" => \A q \in Producers : pc'[q] \notin {"full", "retry"}
       /\ stop' <=> closer' = "stopping"
  BY <1>2 DEF Shape
<1> QED BY <1>2, <1>5, <1>6, <1>7, <1>8, <1>9, <1>10, <1>11 DEF Shape, UnitItem

LEMMA ShapeStep == ASSUME Shape, [Next]_vars PROVE Shape'
<1>1. CASE UNCHANGED vars
  <2>1. UNCHANGED <<script, policy, enabled, received, written, failed, dropped, queue, buffers, batch,
                    left, worker, serving, pc, sent, stop, closer, flushed, completed, rows,
                    uncommitted, snapshot, halfWritten, lost, early>>
    BY <1>1 DEF vars, fixed, counters, writer, producing, closing, store
  <2> QED BY <2>1 DEF Shape, TypeOK, UnitItem, ItemOf, EventsOf
<1>2. ASSUME NEW p \in Producers, Receive(p) \/ EnqueueStep(p) \/ WriteSynchronously(p)
      PROVE  Shape'
  <2>1. Next
    BY <1>2 DEF Next
  <2> QED BY <1>2, <2>1, ShapeOfProducer
<1>3. CASE WorkerStep
  <2>1. Next
    BY <1>3 DEF Next
  <2> QED BY <1>3, <2>1, ShapeOfWorker
<1>4. CASE CloseStep
  BY <1>4, ShapeOfCloser
<1> QED BY <1>1, <1>2, <1>3, <1>4 DEF Next

-----------------------------------------------------------------------------
(* Order. *)

\* What was put stays put: a thread only begins newer units.
LEMMA PutStays == ASSUME Shape, [Next]_vars, NEW e \in Event, Put_(e) PROVE Put_(e)'
<1>1. e.by \in Producers /\ e.n \in Nat
  BY ScriptsAssumption DEF Event
<1>2. CASE UNCHANGED <<pc, sent>>
  BY <1>2 DEF Put_
<1>3. ASSUME NEW p \in Producers, Receive(p) \/ EnqueueStep(p) \/ WriteSynchronously(p)
      PROVE  Put_(e)'
  <2>1. /\ \A q \in Producers : q # p => pc'[q] = pc[q] /\ sent'[q] = sent[q]
        /\ \A q \in Producers : /\ sent'[q] >= sent[q] /\ sent[q] \in Nat /\ sent'[q] \in Nat
    BY <1>3, ProducerMoves
  <2>2. CASE e.by # p
    BY <1>1, <2>1, <2>2 DEF Put_
  <2>3. CASE e.by = p
    <3>1. \/ sent' = sent /\ (pc'[p] \in Putting => pc[p] \in Putting)
          \/ sent'[p] = sent[p] + 1
          \/ pc'[p] \notin Putting
      <4>1. "full" \in Putting
        BY DEF Putting
      <4> QED BY <1>3, <4>1, ProducerQueue
    <3> QED BY <1>1, <2>1, <2>3, <3>1 DEF Put_
  <2> QED BY <2>2, <2>3
<1>4. CASE WorkerStep
  BY <1>2, <1>4, WorkerMoves DEF producing
<1>5. CASE CloseStep
  BY <1>2, <1>5, CloserMoves DEF producing
<1>6. CASE UNCHANGED vars
  BY <1>2, <1>6 DEF vars, producing
<1> QED BY <1>3, <1>4, <1>5, <1>6 DEF Next

\* What putting an item on the queue, and taking the oldest off, does to the events on it.
LEMMA AfterPut ==
    ASSUME Shape, NEW x \in Item, Puts(x)
    PROVE  /\ InQueue' = InQueue \cup x.events
           /\ DOMAIN queue' = 1 .. Len(queue) + 1 /\ DOMAIN queue = 1 .. Len(queue) /\ Len(queue) \in Nat
           /\ \A i \in DOMAIN queue : queue'[i] = queue[i]
           /\ queue'[Len(queue) + 1] = x
<1>1. queue' = Append(queue, x)
  BY DEF Puts
<1>2. /\ DOMAIN queue' = 1 .. Len(queue) + 1 /\ DOMAIN queue = 1 .. Len(queue) /\ Len(queue) \in Nat
      /\ \A i \in DOMAIN queue : queue'[i] = queue[i]
      /\ queue'[Len(queue) + 1] = x
  BY <1>1, PutIs
<1>3. \A i \in 1 .. Len(queue) + 1 : i \in 1 .. Len(queue) \/ i = Len(queue) + 1
  BY <1>2
<1>4. Len(queue) + 1 \in DOMAIN queue' /\ \A i \in DOMAIN queue : i \in DOMAIN queue'
  BY <1>2
<1>5. ASSUME NEW e PROVE e \in InQueue' <=> e \in InQueue \cup x.events
  <2>1. e \in InQueue' <=> \E i \in DOMAIN queue' : e \in queue'[i].events
    BY DEF InQueue
  <2> QED BY <1>2, <1>3, <1>4, <2>1 DEF InQueue
<1> QED BY <1>2, <1>5

LEMMA AfterEvict ==
    ASSUME Shape, Evicts
    PROVE  /\ InQueue = Head(queue).events \cup InQueue' /\ Head(queue) = queue[1] /\ 1 \in DOMAIN queue
           /\ \A i \in DOMAIN queue' : /\ i + 1 \in DOMAIN queue /\ queue'[i] = queue[i + 1]
                                       /\ i \in Nat /\ 1 < i + 1
<1>1. queue # << >> /\ queue' = Tail(queue) /\ queue' \in Seq(Item)
  BY HeadIs DEF Evicts
<1>2. /\ \A i \in DOMAIN queue' : i + 1 \in DOMAIN queue /\ queue'[i] = queue[i + 1]
      /\ \A i \in DOMAIN queue : i # 1 => i - 1 \in DOMAIN queue' /\ queue[i] = queue'[i - 1]
      /\ Head(queue) = queue[1] /\ 1 \in DOMAIN queue
  BY <1>1, HeadIs
<1>3. ASSUME NEW e PROVE e \in InQueue <=> e \in Head(queue).events \cup InQueue'
  <2>1. e \in InQueue' <=> \E i \in DOMAIN queue' : e \in queue'[i].events
    BY DEF InQueue
  <2>2. e \in InQueue <=> \E i \in DOMAIN queue : e \in queue[i].events
    BY DEF InQueue
  <2>3. ASSUME e \in InQueue PROVE e \in Head(queue).events \cup InQueue'
    <3>1. PICK i \in DOMAIN queue : e \in queue[i].events
      BY <2>2, <2>3
    <3>2. CASE i = 1
      BY <1>2, <3>1, <3>2
    <3>3. CASE i # 1
      BY <1>2, <2>1, <3>1, <3>3
    <3> QED BY <3>2, <3>3
  <2>4. ASSUME e \in Head(queue).events \cup InQueue' PROVE e \in InQueue
    BY <1>2, <2>1, <2>2, <2>4
  <2> QED BY <2>3, <2>4
<1>4. \A i \in DOMAIN queue' : i \in Nat /\ 1 < i + 1
  <2>1. DOMAIN queue' = 1 .. Len(queue') /\ Len(queue') \in Nat
    BY <1>1, LenProperties
  <2> QED BY <2>1
<1> QED BY <1>2, <1>3, <1>4

\* An item put on the queue is newer than everything of its producer on its way.
LEMMA OrderAfterPut ==
    ASSUME Shape, Ordered, NEW x \in Item, Puts(x), UNCHANGED <<batch, buffers>>,
           Before(Pending, x.events), \A e \in x.events : Put_(e)', \A e \in Pending : Put_(e)'
    PROVE  Ordered'
<1>1. /\ InQueue' = InQueue \cup x.events
      /\ DOMAIN queue' = 1 .. Len(queue) + 1 /\ DOMAIN queue = 1 .. Len(queue) /\ Len(queue) \in Nat
      /\ \A i \in DOMAIN queue : queue'[i] = queue[i]
      /\ queue'[Len(queue) + 1] = x
  BY AfterPut
<1>2. Rows(batch') = Rows(batch) /\ Rows(buffers') = Rows(buffers)
  OBVIOUS
<1>3. Pending = InQueue \cup Rows(buffers) \cup Rows(batch)
      /\ Pending' = InQueue' \cup Rows(buffers') \cup Rows(batch')
  BY DEF Pending, InQueue
<1>4. Before(Rows(batch') \cup Rows(buffers'), InQueue')
  BY <1>1, <1>2, <1>3 DEF Ordered, Before
<1>5. \A i, j \in DOMAIN queue' : i < j => Before(queue'[i].events, queue'[j].events)
  <2> SUFFICES ASSUME NEW i \in DOMAIN queue', NEW j \in DOMAIN queue', i < j
               PROVE  Before(queue'[i].events, queue'[j].events)
    OBVIOUS
  <2>1. i \in DOMAIN queue
    BY <1>1
  <2>2. CASE j \in DOMAIN queue
    BY <1>1, <2>1, <2>2 DEF Ordered
  <2>3. CASE j = Len(queue) + 1
    <3>1. queue[i].events \subseteq Pending
      BY <1>3, <2>1 DEF InQueue
    <3> QED BY <1>1, <2>1, <2>3, <3>1 DEF Before
  <2> QED BY <1>1, <2>2, <2>3
<1>6. \A e \in Pending' : Put_(e)'
  BY <1>1, <1>2, <1>3
<1>7. \A k \in Kinds : /\ Rising(batch'[k]) /\ Rising(buffers'[k])
                       /\ Before(Range(batch'[k]), Range(buffers'[k]))
  BY DEF Ordered
<1> QED BY <1>4, <1>5, <1>6, <1>7 DEF Ordered

\* The order of the rest when the oldest item is taken off.
LEMMA OrderAfterEvict ==
    ASSUME Shape, Ordered, Evicts
    PROVE  /\ Before(Head(queue).events, InQueue') /\ InQueue' \subseteq InQueue
           /\ \A i, j \in DOMAIN queue' : i < j => Before(queue'[i].events, queue'[j].events)
<1>1. /\ InQueue = Head(queue).events \cup InQueue' /\ Head(queue) = queue[1] /\ 1 \in DOMAIN queue
      /\ \A i \in DOMAIN queue' : /\ i + 1 \in DOMAIN queue /\ queue'[i] = queue[i + 1]
                                  /\ i \in Nat /\ 1 < i + 1
  BY AfterEvict
<1>2. ASSUME NEW i \in DOMAIN queue', NEW j \in DOMAIN queue', i < j
      PROVE  Before(queue'[i].events, queue'[j].events)
  <2>1. i + 1 < j + 1
    BY <1>1, <1>2
  <2> QED BY <1>1, <2>1 DEF Ordered
<1>3. Before(Head(queue).events, InQueue')
  <2>1. \A i \in DOMAIN queue' : Before(queue[1].events, queue'[i].events)
    BY <1>1 DEF Ordered
  <2>2. \A e \in InQueue' : \E i \in DOMAIN queue' : e \in queue'[i].events
    BY DEF InQueue
  <2> QED BY <1>1, <2>1, <2>2 DEF Before
<1> QED BY <1>1, <1>2, <1>3

\* A flush keeps the order within each kind, and what it moves comes first.
LEMMA OrderAfterSplit ==
    ASSUME NEW b \in [Kinds -> Seq(Event)], Splits(b), \A k \in Kinds : Rising(b[k])
    PROVE  \A k \in Kinds : /\ Rising(batch'[k]) /\ Rising(buffers'[k])
                            /\ Before(Range(batch'[k]), Range(buffers'[k]))
<1>1. << >> \in Seq(Event) /\ DOMAIN << >> = {}
  OBVIOUS
<1>2. Rising(<< >>) /\ \A S : Before(Range(<< >>), S) /\ Before(S, Range(<< >>))
  BY <1>1 DEF Rising, Before, Range
<1> QED BY <1>2, SplitIs

\* A unit's events come after those collected before it.
LEMMA CollectedRises ==
    ASSUME Shape, Ordered, NEW x, x = FlushCommand \/ UnitItem(x), x.events \subseteq InQueue
    PROVE  \A k \in Kinds : Rising(Collected(x)[k])
<1> SUFFICES ASSUME NEW k \in Kinds PROVE Rising(Collected(x)[k])
  OBVIOUS
<1>1. CASE Collected(x)[k] = buffers[k]
  BY <1>1 DEF Ordered
<1>2. CASE \E e \in x.events : e.kind = k /\ Collected(x)[k] = Append(buffers[k], e)
  <2>1. PICK e \in x.events : Collected(x)[k] = Append(buffers[k], e)
    BY <1>2
  <2>2. e \in Event /\ buffers[k] \in Seq(Event)
    BY ItemsAre DEF Shape, TypeOK
  <2>3. /\ DOMAIN Append(buffers[k], e) = 1 .. Len(buffers[k]) + 1 /\ Len(buffers[k]) \in Nat
        /\ DOMAIN buffers[k] = 1 .. Len(buffers[k])
        /\ \A i \in DOMAIN buffers[k] : Append(buffers[k], e)[i] = buffers[k][i]
        /\ Append(buffers[k], e)[Len(buffers[k]) + 1] = e
    BY <2>2, AppendProperties, LenProperties
  <2>4. \A i \in DOMAIN buffers[k] : buffers[k][i].by = e.by => buffers[k][i].n < e.n
    <3>1. \A i \in DOMAIN buffers[k] : buffers[k][i] \in Rows(buffers)
      BY DEF Rows, Range
    <3> QED BY <3>1 DEF Ordered, Before
  <2>5. Rising(buffers[k])
    BY DEF Ordered
  <2>6. ASSUME NEW i \in 1 .. Len(buffers[k]) + 1, NEW j \in 1 .. Len(buffers[k]) + 1, i < j,
               Append(buffers[k], e)[i].by = Append(buffers[k], e)[j].by
        PROVE  Append(buffers[k], e)[i].n < Append(buffers[k], e)[j].n
    <3>1. i \in DOMAIN buffers[k]
      BY <2>3, <2>6
    <3>2. CASE j \in DOMAIN buffers[k]
      BY <2>3, <2>5, <2>6, <3>1, <3>2 DEF Rising
    <3>3. CASE j = Len(buffers[k]) + 1
      BY <2>3, <2>4, <2>6, <3>1, <3>3
    <3> QED BY <2>3, <3>2, <3>3
  <2> QED BY <2>1, <2>3, <2>6 DEF Rising
<1> QED BY <1>1, <1>2, CollectedIs

\* Where the events are after the writer thread collected an item, or flushed.
LEMMA AfterTake ==
    ASSUME Shape, Takes
    PROVE  /\ InQueue = Head(queue).events \cup InQueue'
           /\ Rows(batch') \cup Rows(buffers') = Rows(buffers) \cup Head(queue).events
           /\ Rows(batch) = {} /\ Pending' = Pending
<1>1. Evicts /\ Splits(Collected(Head(queue))) /\ batch = NoBatch
  BY DEF Takes
<1>2. Head(queue) = FlushCommand \/ UnitItem(Head(queue))
  BY <1>1, HeadIs DEF Evicts
<1>3. Rows(batch') \cup Rows(buffers') = Rows(buffers) \cup Head(queue).events
  BY <1>1, <1>2, CollectedIs, SplitIs
<1>4. InQueue = Head(queue).events \cup InQueue'
  BY <1>1, AfterEvict
<1>5. Rows(batch) = {}
  BY <1>1, EmptyBatch
<1>6. Pending = InQueue \cup Rows(buffers) \cup Rows(batch)
      /\ Pending' = InQueue' \cup Rows(buffers') \cup Rows(batch')
  BY DEF Pending, InQueue
<1> QED BY <1>3, <1>4, <1>5, <1>6

LEMMA AfterFlush ==
    ASSUME Shape, Flushes
    PROVE  /\ InQueue' = InQueue /\ Rows(batch') \cup Rows(buffers') = Rows(buffers)
           /\ Rows(batch) = {} /\ Pending' = Pending
<1>1. Splits(buffers) /\ batch = NoBatch /\ queue' = queue /\ buffers \in [Kinds -> Seq(Event)]
  BY DEF Flushes, Shape, TypeOK
<1>2. Rows(batch') \cup Rows(buffers') = Rows(buffers) /\ Rows(batch) = {}
  BY <1>1, EmptyBatch, SplitIs
<1>3. InQueue' = InQueue
  BY <1>1 DEF InQueue
<1>4. Pending = InQueue \cup Rows(buffers) \cup Rows(batch)
      /\ Pending' = InQueue' \cup Rows(buffers') \cup Rows(batch')
  BY DEF Pending, InQueue
<1> QED BY <1>2, <1>3, <1>4

LEMMA OrderedInit == Init => Ordered
<1> SUFFICES ASSUME Init PROVE Ordered
  OBVIOUS
<1>1. << >> \in Seq(Event) /\ DOMAIN << >> = {}
  OBVIOUS
<1>2. queue = << >> /\ buffers = NoBatch /\ batch = NoBatch
  BY DEF Init
<1>3. InQueue = {} /\ Rows(buffers) = {} /\ Rows(batch) = {}
  BY <1>1, <1>2, EmptyBatch DEF InQueue
<1>4. Pending = {}
  BY <1>3, PendingIs
<1>5. Rising(<< >>) /\ Range(<< >>) = {} /\ DOMAIN queue = {}
  BY <1>1, <1>2 DEF Rising, Range
<1> QED BY <1>2, <1>3, <1>4, <1>5, EmptyBatch DEF Ordered, Before

LEMMA OrderedStep == ASSUME Shape, Ordered, [Next]_vars PROVE Ordered'
<1>1. \A e \in Pending : Put_(e)'
  BY PutStays, PendingTyped DEF Ordered
<1>2. CASE UNCHANGED <<queue, buffers, batch>>
  <2>1. Pending' = Pending /\ InQueue' = InQueue /\ Rows(batch') = Rows(batch)
        /\ Rows(buffers') = Rows(buffers)
    BY <1>2 DEF Pending, InQueue
  <2> QED BY <1>1, <1>2, <2>1 DEF Ordered
<1>3. ASSUME NEW p \in Producers, Receive(p) \/ EnqueueStep(p) \/ WriteSynchronously(p)
      PROVE  Ordered'
  <2>1. UNCHANGED <<buffers, batch>>
    BY <1>3, ProducerMoves
  <2>2. CASE queue' = queue
    BY <1>2, <2>1, <2>2
  <2>3. CASE Evicts
    <3>1. /\ InQueue' \subseteq InQueue
          /\ \A i, j \in DOMAIN queue' : i < j => Before(queue'[i].events, queue'[j].events)
      BY <2>3, OrderAfterEvict
    <3>2. Rows(batch') = Rows(batch) /\ Rows(buffers') = Rows(buffers)
      BY <2>1
    <3>3. Pending' \subseteq Pending
      BY <3>1, <3>2 DEF Pending, InQueue
    <3> QED BY <1>1, <2>1, <3>1, <3>2, <3>3 DEF Ordered, Before
  <2>4. CASE Puts(MyItem(p)) /\ pc[p] \in {"put", "retry"} /\ pc'[p] \notin Putting /\ sent' = sent
    <3>1. /\ MyItem(p) \in Item /\ MyItem(p).events = MyEvents(p) /\ sent[p] \in Nat
          /\ \A e \in MyEvents(p) : e.by = p /\ e.n = sent[p]
      BY <2>4, MineIs
    <3>2. Before(Pending, MyItem(p).events)
      BY <2>4, <3>1 DEF Ordered, Before, Put_, Putting
    <3>3. \A e \in MyItem(p).events : Put_(e)'
      BY <2>4, <3>1 DEF Put_
    <3> QED BY <1>1, <2>1, <2>4, <3>1, <3>2, <3>3, OrderAfterPut
  <2> QED BY <1>3, <2>2, <2>3, <2>4, ProducerQueue
<1>4. CASE CloseStep
  <2>1. UNCHANGED <<buffers, batch>> /\ (Puts(FlushCommand) \/ queue' = queue)
    BY <1>4, CloserMoves DEF writer
  <2>2. CASE Puts(FlushCommand)
    <3>1. FlushCommand \in Item /\ FlushCommand.events = {}
      BY DEF FlushCommand, Item
    <3>2. Before(Pending, FlushCommand.events)
      BY <3>1 DEF Before
    <3> QED BY <1>1, <2>1, <2>2, <3>1, <3>2, OrderAfterPut
  <2> QED BY <1>2, <2>1, <2>2
<1>5. CASE Takes
  <2>1. Evicts /\ Splits(Collected(Head(queue)))
    BY <1>5 DEF Takes
  <2>2. Head(queue) = FlushCommand \/ UnitItem(Head(queue))
    BY <2>1, HeadIs DEF Evicts
  <2>3. /\ Before(Head(queue).events, InQueue') /\ InQueue' \subseteq InQueue
        /\ \A i, j \in DOMAIN queue' : i < j => Before(queue'[i].events, queue'[j].events)
    BY <2>1, OrderAfterEvict
  <2>4. /\ InQueue = Head(queue).events \cup InQueue'
        /\ Rows(batch') \cup Rows(buffers') = Rows(buffers) \cup Head(queue).events
        /\ Pending' = Pending
    BY <1>5, AfterTake
  <2>5. Collected(Head(queue)) \in [Kinds -> Seq(Event)] /\ \A k \in Kinds : Rising(Collected(Head(queue))[k])
    BY <2>2, <2>4, CollectedIs, CollectedRises
  <2>6. \A k \in Kinds : /\ Rising(batch'[k]) /\ Rising(buffers'[k])
                         /\ Before(Range(batch'[k]), Range(buffers'[k]))
    BY <2>1, <2>5, OrderAfterSplit
  <2>7. Before(Rows(batch') \cup Rows(buffers'), InQueue')
    BY <2>3, <2>4 DEF Ordered, Before
  <2> QED BY <1>1, <2>3, <2>4, <2>6, <2>7 DEF Ordered
<1>6. CASE Flushes
  <2>1. Splits(buffers) /\ queue' = queue /\ buffers \in [Kinds -> Seq(Event)]
    BY <1>6 DEF Flushes, Shape, TypeOK
  <2>2. InQueue' = InQueue /\ Rows(batch') \cup Rows(buffers') = Rows(buffers) /\ Pending' = Pending
    BY <1>6, AfterFlush
  <2>3. \A k \in Kinds : /\ Rising(batch'[k]) /\ Rising(buffers'[k])
                         /\ Before(Range(batch'[k]), Range(buffers'[k]))
    BY <2>1, OrderAfterSplit DEF Ordered
  <2>4. Before(Rows(batch') \cup Rows(buffers'), InQueue')
    BY <2>2 DEF Ordered, Before
  <2> QED BY <1>1, <2>1, <2>2, <2>3, <2>4 DEF Ordered
<1>7. CASE UNCHANGED <<queue, buffers>> /\ batch' = NoBatch
  <2>1. InQueue' = InQueue /\ Rows(batch') = {} /\ Rows(buffers') = Rows(buffers)
    BY <1>7, EmptyBatch DEF InQueue
  <2>2. Pending' \subseteq Pending
    BY <2>1 DEF Pending, InQueue
  <2>3. << >> \in Seq(Event) /\ DOMAIN << >> = {}
    OBVIOUS
  <2>4. Rising(<< >>) /\ Range(<< >>) = {} /\ \A k \in Kinds : batch'[k] = << >>
    BY <1>7, <2>3, EmptyBatch DEF Rising, Range
  <2> QED BY <1>1, <1>7, <2>1, <2>2, <2>4 DEF Ordered, Before
<1>8. CASE WorkerStep
  BY <1>2, <1>5, <1>6, <1>7, <1>8, WorkerMoves
<1>9. CASE UNCHANGED vars
  BY <1>2, <1>9 DEF vars, writer
<1> QED BY <1>3, <1>4, <1>8, <1>9 DEF Next

-----------------------------------------------------------------------------
(* What a flush, and the end of the thread, have behind them. *)


LEMMA ClosingInit == Init => Closing
<1> SUFFICES ASSUME Init PROVE Closing
  OBVIOUS
<1>1. DOMAIN queue = {} /\ early = {} /\ ~serving /\ ~completed /\ flushed = "unknown" /\ worker # "exited"
  BY DEF Init
<1> QED BY <1>1 DEF Closing

LEMMA ClosingOfProducer ==
    ASSUME Shape, Ordered, Closing, NEW p \in Producers,
           Receive(p) \/ EnqueueStep(p) \/ WriteSynchronously(p), [Next]_vars
    PROVE  Closing'
<1>1. UNCHANGED <<policy, buffers, batch, worker, serving, stop, closer, flushed>>
  BY ProducerMoves DEF fixed, closing
<1>2. worker = "exited" => closer # "open"
  BY DEF Closing, Shape
<1>3. \A e \in early : Put_(e)'
  <2>1. early \subseteq Event
    BY DEF Shape, TypeOK
  <2> QED BY <2>1, PutStays DEF Closing
<1>4. CASE queue' = queue /\ UNCHANGED <<early, completed>>
  <2>1. InQueue' = InQueue /\ Pending' = Pending /\ Rows(buffers') = Rows(buffers)
    BY <1>1, <1>4 DEF InQueue, Pending
  <2> QED BY <1>1, <1>3, <1>4, <2>1 DEF Closing
<1>5. CASE /\ Evicts /\ policy = "drop_oldest" /\ early' = early
           /\ completed' = (completed \/ Head(queue).flush)
  <2>1. /\ InQueue = Head(queue).events \cup InQueue' /\ Head(queue) = queue[1] /\ 1 \in DOMAIN queue
        /\ \A i \in DOMAIN queue' : /\ i + 1 \in DOMAIN queue /\ queue'[i] = queue[i + 1]
                                    /\ i \in Nat /\ 1 < i + 1
    BY <1>5, AfterEvict
  <2>2. Rows(buffers') = Rows(buffers) /\ Pending' \subseteq Pending
    BY <1>1, <2>1 DEF Pending, InQueue
  <2>3. \A i, j \in DOMAIN queue' : queue'[i].flush /\ i < j => queue'[j].events \cap early' = {}
    <3> SUFFICES ASSUME NEW i \in DOMAIN queue', NEW j \in DOMAIN queue', queue'[i].flush, i < j
                 PROVE  queue'[j].events \cap early = {}
      BY <1>5
    <3>1. i + 1 < j + 1
      BY <2>1
    <3> QED BY <2>1, <3>1 DEF Closing
  <2>4. closer = "open" => ~completed' /\ \A i \in DOMAIN queue' : ~queue'[i].flush
    BY <1>5, <2>1 DEF Closing
  <2>5. serving => early \cap (InQueue' \cup Rows(buffers')) = {}
    BY <2>1, <2>2 DEF Closing
  <2>6. flushed = "yes" => completed'
    BY <1>5 DEF Closing
  <2>7. worker = "exited" => stop /\ early \cap Pending' = {}
    BY <2>2 DEF Closing
  <2> QED BY <1>1, <1>3, <1>5, <2>3, <2>4, <2>5, <2>6, <2>7 DEF Closing
<1>6. CASE /\ Puts(MyItem(p)) /\ pc[p] \in {"put", "retry"} /\ pc'[p] \notin Putting /\ sent' = sent
           /\ early' = IF closer = "open" THEN early \cup MyEvents(p) ELSE early
           /\ completed' = completed
  <2>1. /\ MyItem(p) \in Item /\ MyItem(p).events = MyEvents(p) /\ MyItem(p).flush = FALSE
        /\ sent[p] \in Nat /\ \A e \in MyEvents(p) : e.by = p /\ e.n = sent[p]
    BY <1>6, MineIs
  <2>2. /\ InQueue' = InQueue \cup MyEvents(p)
        /\ DOMAIN queue' = 1 .. Len(queue) + 1 /\ DOMAIN queue = 1 .. Len(queue) /\ Len(queue) \in Nat
        /\ \A i \in DOMAIN queue : queue'[i] = queue[i]
        /\ queue'[Len(queue) + 1] = MyItem(p)
    BY <1>6, <2>1, AfterPut
  <2>3. early \cap MyEvents(p) = {}
    BY <1>6, <2>1 DEF Closing, Put_, Putting
  <2>4. \A e \in early' : Put_(e)'
    BY <1>3, <1>6, <2>1 DEF Put_
  <2>5. Rows(buffers') = Rows(buffers) /\ Pending' = Pending \cup MyEvents(p)
    BY <1>1, <2>2 DEF Pending, InQueue
  <2>6. CASE closer = "open"
    <3>1. \A i \in DOMAIN queue' : ~queue'[i].flush
      BY <2>1, <2>2, <2>6 DEF Closing
    <3>2. ~serving /\ ~completed /\ flushed = "unknown" /\ worker # "exited"
      BY <1>2, <2>6 DEF Closing
    <3> QED BY <1>1, <1>6, <2>4, <2>6, <3>1, <3>2 DEF Closing
  <2>7. CASE closer # "open"
    <3>1. early' = early
      BY <1>6, <2>7
    <3>2. \A i, j \in DOMAIN queue' : queue'[i].flush /\ i < j => queue'[j].events \cap early' = {}
      <4> SUFFICES ASSUME NEW i \in DOMAIN queue', NEW j \in DOMAIN queue', queue'[i].flush, i < j
                   PROVE  queue'[j].events \cap early = {}
        BY <3>1
      <4>1. i \in DOMAIN queue
        BY <2>2
      <4>2. CASE j \in DOMAIN queue
        BY <2>2, <4>1, <4>2 DEF Closing
      <4>3. CASE j = Len(queue) + 1
        BY <2>1, <2>2, <2>3, <4>3
      <4> QED BY <2>2, <4>2, <4>3
    <3>3. /\ serving => early \cap (InQueue' \cup Rows(buffers')) = {}
          /\ completed /\ policy # "drop_oldest" => early \cap Pending' = {}
          /\ worker = "exited" => stop /\ early \cap Pending' = {}
      BY <2>2, <2>3, <2>5 DEF Closing
    <3> QED BY <1>1, <1>6, <2>4, <2>7, <3>1, <3>2, <3>3 DEF Closing
  <2> QED BY <2>6, <2>7
<1> QED BY <1>4, <1>5, <1>6, ProducerQueue

LEMMA ClosingOfWorker ==
    ASSUME Shape, Closing, WorkerStep, [Next]_vars
    PROVE  Closing'
<1>1. /\ UNCHANGED <<policy, pc, sent, stop, closer, flushed, early>>
      /\ \/ Flushes
         \/ Takes
         \/ /\ WriteHistory \/ WriteFlows \/ WriteFailure \/ WorkerComplete
            /\ UNCHANGED <<queue, buffers>>
            /\ batch' = batch \/ batch' = NoBatch
  BY WorkerMoves DEF fixed, producing, closing
<1>2. \A e \in early' : Put_(e)'
  BY <1>1 DEF Closing, Put_
<1>3. CASE Flushes
  <2>1. InQueue' = InQueue /\ Pending' = Pending
    BY <1>3, AfterFlush
  <2>2. /\ worker = "get" /\ queue' = queue /\ UNCHANGED <<serving, completed>> /\ ~serving
        /\ worker' = "exited" => stop /\ queue = << >> /\ buffers' = NoBatch /\ batch' = NoBatch
    BY <1>3 DEF Flushes, Closing
  <2>3. ASSUME worker' = "exited" PROVE Pending' = {}
    <3>1. DOMAIN << >> = {} /\ queue' = << >> /\ Rows(buffers') = {} /\ Rows(batch') = {}
      BY <2>2, <2>3, EmptyBatch
    <3> QED BY <3>1 DEF Pending
  <2> QED BY <1>1, <1>2, <2>1, <2>2, <2>3 DEF Closing
<1>4. CASE Takes
  <2>1. /\ InQueue = Head(queue).events \cup InQueue' /\ Head(queue) = queue[1] /\ 1 \in DOMAIN queue
        /\ \A i \in DOMAIN queue' : /\ i + 1 \in DOMAIN queue /\ queue'[i] = queue[i + 1]
                                    /\ i \in Nat /\ 1 < i + 1
    BY <1>4, AfterEvict DEF Takes
  <2>2. Pending' = Pending
    BY <1>4, AfterTake
  <2>3. /\ worker' \in {"history", "complete"} /\ serving' = Head(queue).flush
        /\ serving' => buffers' = NoBatch
        /\ completed' = completed
    BY <1>4 DEF Takes
  <2>4. \A i, j \in DOMAIN queue' : queue'[i].flush /\ i < j => queue'[j].events \cap early' = {}
    <3> SUFFICES ASSUME NEW i \in DOMAIN queue', NEW j \in DOMAIN queue', queue'[i].flush, i < j
                 PROVE  queue'[j].events \cap early = {}
      BY <1>1
    <3>1. i + 1 < j + 1
      BY <2>1
    <3> QED BY <2>1, <3>1 DEF Closing
  <2>5. ASSUME serving' PROVE early \cap (InQueue' \cup Rows(buffers')) = {}
    <3>1. \A i \in DOMAIN queue' : queue'[i].events \cap early = {}
      BY <2>1, <2>3, <2>5 DEF Closing
    <3>2. \A e \in InQueue' : \E i \in DOMAIN queue' : e \in queue'[i].events
      BY DEF InQueue
    <3>3. Rows(buffers') = {}
      BY <2>3, <2>5, EmptyBatch
    <3> QED BY <3>1, <3>2, <3>3
  <2>6. closer = "open" => ~serving' /\ ~completed' /\ \A i \in DOMAIN queue' : ~queue'[i].flush
    BY <2>1, <2>3 DEF Closing
  <2> QED BY <1>1, <1>2, <2>2, <2>3, <2>4, <2>5, <2>6 DEF Closing
<1>5. CASE /\ WriteHistory \/ WriteFlows \/ WriteFailure \/ WorkerComplete
           /\ UNCHANGED <<queue, buffers>>
           /\ batch' = batch \/ batch' = NoBatch
  <2>1. InQueue' = InQueue /\ Rows(buffers') = Rows(buffers) /\ Pending' \subseteq Pending
    BY <1>5, EmptyBatch DEF InQueue, Pending
  <2>2. worker' # "exited"
    BY <1>5 DEF WriteHistory, WriteFlows, WriteFailure, WorkerComplete
  <2>3. CASE WriteHistory \/ WriteFlows \/ WriteFailure
    <3>1. worker' \in {"history", "flows", "failure", "complete"} /\ UNCHANGED <<serving, completed>>
      BY <2>3 DEF WriteHistory, WriteFlows, WriteFailure
    <3> QED BY <1>1, <1>2, <1>5, <2>1, <2>2, <3>1 DEF Closing
  <2>4. CASE WorkerComplete
    <3>1. worker = "complete" /\ worker' = "get" /\ completed' = (completed \/ serving) /\ serving' = FALSE
      BY <2>4 DEF WorkerComplete
    <3>2. Rows(batch) = {}
      BY <3>1, EmptyBatch DEF Shape
    <3>3. serving => early \cap Pending = {}
      BY <3>2 DEF Closing, Pending, InQueue
    <3>4. completed' /\ policy # "drop_oldest" => early \cap Pending' = {}
      BY <2>1, <3>1, <3>3 DEF Closing
    <3> QED BY <1>1, <1>2, <1>5, <2>2, <3>1, <3>4 DEF Closing
  <2> QED BY <1>5, <2>3, <2>4
<1> QED BY <1>1, <1>3, <1>4, <1>5

LEMMA ClosingOfCloser ==
    ASSUME Shape, Closing, CloseStep
    PROVE  Closing'
<1>1. /\ UNCHANGED <<policy, pc, sent, buffers, batch, worker, serving, completed, early>>
      /\ (Puts(FlushCommand) /\ closer = "open") \/ queue' = queue
      /\ closer' # "open" /\ (stop => stop')
      /\ flushed' = "yes" => flushed = "yes" \/ completed
  BY CloserMoves DEF fixed, writer, producing
<1>2. \A e \in early' : Put_(e)'
  BY <1>1 DEF Closing, Put_
<1>3. FlushCommand \in Item /\ FlushCommand.events = {}
  BY DEF FlushCommand, Item
<1>4. InQueue' = InQueue
  <2>1. CASE Puts(FlushCommand)
    BY <1>3, <2>1, AfterPut
  <2>2. CASE queue' = queue
    BY <2>2 DEF InQueue
  <2> QED BY <1>1, <2>1, <2>2
<1>5. Rows(buffers') = Rows(buffers) /\ Pending' = Pending
  BY <1>1, <1>4 DEF Pending, InQueue
<1>6. \A i, j \in DOMAIN queue' : queue'[i].flush /\ i < j => queue'[j].events \cap early' = {}
  <2>1. CASE Puts(FlushCommand) /\ closer = "open"
    <3>1. /\ DOMAIN queue' = 1 .. Len(queue) + 1 /\ DOMAIN queue = 1 .. Len(queue) /\ Len(queue) \in Nat
          /\ \A i \in DOMAIN queue : queue'[i] = queue[i]
      BY <1>3, <2>1, AfterPut
    <3>2. \A i \in DOMAIN queue : ~queue'[i].flush
      BY <2>1, <3>1 DEF Closing
    <3> QED BY <3>1, <3>2
  <2>2. CASE queue' = queue
    BY <1>1, <2>2 DEF Closing
  <2> QED BY <1>1, <2>1, <2>2
<1> QED BY <1>1, <1>2, <1>4, <1>5, <1>6 DEF Closing

LEMMA ClosingStep == ASSUME Shape, Ordered, Closing, [Next]_vars PROVE Closing'
<1>1. CASE UNCHANGED vars
  <2>1. UNCHANGED <<policy, queue, buffers, batch, worker, serving, pc, sent, stop, closer, flushed,
                    completed, early>>
    BY <1>1 DEF vars, fixed, writer, producing, closing
  <2>2. InQueue' = InQueue /\ Pending' = Pending
    BY <2>1 DEF InQueue, Pending
  <2> QED BY <2>1, <2>2 DEF Closing, Put_
<1> QED BY <1>1, ClosingOfProducer, ClosingOfWorker, ClosingOfCloser DEF Next

-----------------------------------------------------------------------------
(* What is stored. *)

\* What is in the batch is nowhere else.
LEMMA BatchApart ==
    ASSUME Shape, Ordered
    PROVE  /\ Rows(batch) \cap (InQueue \cup Rows(buffers)) = {}
           /\ \A e \in Rows(batch), f \in InQueue \cup Rows(buffers) :
                e.by = f.by /\ e.kind = f.kind => e.n < f.n
<1>1. Pending \subseteq Event /\ \A e \in Event : e.n \in Nat
  BY PendingTyped, ScriptsAssumption DEF Event
<1>2. ASSUME NEW e \in Rows(batch), NEW f \in InQueue \cup Rows(buffers), e.by = f.by, e.kind = f.kind
      PROVE  e.n < f.n
  <2>1. CASE f \in InQueue
    BY <1>2, <2>1 DEF Ordered, Before
  <2>2. CASE f \in Rows(buffers)
    <3>1. PICK k \in Kinds : e \in Range(batch[k]) /\ e.kind = k
      BY DEF Rows, Range, Shape
    <3>2. PICK l \in Kinds : f \in Range(buffers[l]) /\ f.kind = l
      BY <2>2 DEF Rows, Range, Shape
    <3> QED BY <1>2, <3>1, <3>2 DEF Ordered, Before
  <2> QED BY <2>1, <2>2
<1>3. \A e \in Rows(batch) : e.n \in Nat
  BY <1>1, PendingIs
<1>4. Rows(batch) \cap (InQueue \cup Rows(buffers)) = {}
  <2> SUFFICES ASSUME NEW e \in Rows(batch), e \in InQueue \cup Rows(buffers) PROVE FALSE
    OBVIOUS
  <2>1. e.n < e.n
    BY <1>2
  <2> QED BY <1>3, <2>1
<1> QED BY <1>2, <1>4

\* What a disabled writer has on its way: nothing.
LEMMA NothingWhenDisabled ==
    ASSUME Shape, ~enabled
    PROVE  InQueue = {} /\ Rows(buffers) = {} /\ Rows(batch) = {} /\ Pending = {}
<1>1. worker = "off" /\ queue = << >> /\ buffers = NoBatch /\ batch = NoBatch
  BY DEF Shape
<1>2. DOMAIN queue = {}
  BY <1>1
<1>3. InQueue = {} /\ Rows(buffers) = {} /\ Rows(batch) = {}
  BY <1>1, <1>2, EmptyBatch DEF InQueue
<1> QED BY <1>3, PendingIs

\* What is on its way after a step: what was, or the unit a thread has just put.
LEMMA PendingMoves ==
    ASSUME Shape, Ordered, [Next]_vars
    PROVE  \/ Pending' \subseteq Pending
           \/ \E p \in Producers : /\ Receive(p) \/ EnqueueStep(p) \/ WriteSynchronously(p)
                                   /\ pc[p] \in {"put", "retry"} /\ pc'[p] \notin Putting /\ sent' = sent
                                   /\ Pending' = Pending \cup MyEvents(p)
                                   /\ InQueue' = InQueue \cup MyEvents(p)
                                   /\ UNCHANGED <<buffers, batch, rows, uncommitted, snapshot, halfWritten, written, failed>>
<1>1. ASSUME UNCHANGED <<queue, buffers>>, batch' = batch \/ batch' = NoBatch
      PROVE  Pending' \subseteq Pending
  BY <1>1, EmptyBatch DEF Pending
<1>2. ASSUME NEW p \in Producers, Receive(p) \/ EnqueueStep(p) \/ WriteSynchronously(p)
      PROVE  \/ Pending' \subseteq Pending
             \/ /\ pc[p] \in {"put", "retry"} /\ pc'[p] \notin Putting /\ sent' = sent
                /\ Pending' = Pending \cup MyEvents(p)
                /\ InQueue' = InQueue \cup MyEvents(p)
                /\ UNCHANGED <<buffers, batch, rows, uncommitted, snapshot, halfWritten, written, failed>>
  <2>1. /\ UNCHANGED <<buffers, batch>>
        /\ enabled => UNCHANGED <<rows, uncommitted, snapshot, halfWritten, written, failed>>
    BY <1>2, ProducerMoves
  <2>2. CASE queue' = queue
    BY <1>1, <2>1, <2>2
  <2>3. CASE Evicts
    BY <2>1, <2>3, AfterEvict DEF Pending, InQueue
  <2>4. CASE /\ Puts(MyItem(p)) /\ pc[p] \in {"put", "retry"} /\ pc'[p] \notin Putting /\ sent' = sent
             /\ enabled
    <3>1. MyItem(p) \in Item /\ MyItem(p).events = MyEvents(p)
      BY <2>4, MineIs
    <3>2. InQueue' = InQueue \cup MyEvents(p)
      BY <2>4, <3>1, AfterPut
    <3> QED BY <2>1, <2>4, <3>2 DEF Pending, InQueue
  <2> QED BY <1>2, <2>2, <2>3, <2>4, ProducerQueue
<1>3. CASE WorkerStep
  BY <1>1, <1>3, WorkerMoves, AfterTake, AfterFlush
<1>4. CASE CloseStep
  <2>1. UNCHANGED <<buffers, batch>> /\ (Puts(FlushCommand) \/ queue' = queue)
    BY <1>4, CloserMoves DEF writer
  <2>2. FlushCommand \in Item /\ FlushCommand.events = {}
    BY DEF FlushCommand, Item
  <2>3. CASE Puts(FlushCommand)
    BY <2>1, <2>2, <2>3, AfterPut DEF Pending, InQueue
  <2> QED BY <1>1, <2>1, <2>3
<1>5. CASE UNCHANGED vars
  BY <1>1, <1>5 DEF vars, writer
<1> QED BY <1>2, <1>3, <1>4, <1>5 DEF Next

\* The new value of a stored snapshot.
LEMMA SnapshotsGrow ==
    ASSUME Shape, Ordered, SnapshotsBehind, [Next]_vars, NEW p \in Producers
    PROVE  /\ snapshot[p] \in Nat /\ snapshot'[p] \in Nat
           /\ \/ snapshot'[p] = snapshot[p]
              \/ /\ WriteFlows /\ batch' = NoBatch /\ UNCHANGED <<queue, buffers, pc, sent>>
                 /\ \E e \in Rows(batch) : e.by = p /\ e.kind = "flow_record" /\ snapshot'[p] = e.n
              \/ /\ WriteSynchronously(p) /\ snapshot'[p] = sent'[p] /\ sent[p] \in Nat
                 /\ sent'[p] = sent[p] + 1
           /\ snapshot'[p] >= snapshot[p]
<1>1. snapshot \in [Producers -> 0 .. Units] /\ sent \in [Producers -> Nat] /\ 0 .. Units \subseteq Nat
  BY ScriptsAssumption DEF Shape, TypeOK
<1>2. snapshot[p] \in Nat
  BY <1>1
<1>3. CASE snapshot' = snapshot
  BY <1>2, <1>3
<1>4. ASSUME NEW q \in Producers, WriteSynchronously(q), snapshot' # snapshot
      PROVE  \/ snapshot'[p] = snapshot[p]
             \/ /\ WriteSynchronously(p) /\ snapshot'[p] = sent'[p] /\ sent[p] \in Nat
                /\ sent'[p] = sent[p] + 1 /\ snapshot'[p] \in Nat /\ snapshot'[p] >= snapshot[p]
  <2>1. snapshot' = [snapshot EXCEPT ![q] = sent[q] + 1] /\ sent' = [sent EXCEPT ![q] = @ + 1]
    BY <1>4 DEF WriteSynchronously
  <2>2. snapshot[p] <= sent[p] /\ sent[p] \in Nat
    BY <1>1 DEF SnapshotsBehind
  <2>3. CASE q = p
    <3>1. snapshot'[p] = sent[p] + 1 /\ sent'[p] = sent[p] + 1
      BY <1>1, <2>1, <2>3
    <3> QED BY <1>2, <1>4, <2>2, <2>3, <3>1
  <2>4. CASE q # p
    BY <2>1, <2>4
  <2> QED BY <2>3, <2>4
<1>5. ASSUME WriteFlows, snapshot' # snapshot
      PROVE  /\ batch' = NoBatch /\ UNCHANGED <<queue, buffers, pc, sent>>
             /\ \/ snapshot'[p] = snapshot[p]
                \/ /\ \E e \in Rows(batch) : e.by = p /\ e.kind = "flow_record" /\ snapshot'[p] = e.n
                   /\ snapshot'[p] \in Nat /\ snapshot'[p] >= snapshot[p]
  <2>1. snapshot'[p] = LastOf(p, batch["flow_record"]) /\ batch' = NoBatch
        /\ UNCHANGED <<queue, buffers, pc, sent>>
    BY <1>5 DEF WriteFlows, producing
  <2>2. CASE snapshot'[p] # snapshot[p]
    <3>1. PICK e \in Range(batch["flow_record"]) : e \in Event /\ e.by = p /\ e.kind = "flow_record"
                                                  /\ snapshot'[p] = e.n
      BY <2>1, <2>2, LastIs
    <3>2. e \in Rows(batch)
      BY <3>1, KindsAre DEF Rows
    <3>3. e.n \in Nat
      BY <3>1, ScriptsAssumption DEF Event
    <3>4. snapshot[p] < e.n
      BY <3>1, <3>2, PendingIs DEF SnapshotsBehind
    <3> QED BY <1>2, <2>1, <3>1, <3>2, <3>3, <3>4
  <2> QED BY <2>1, <2>2
<1>6. ASSUME NEW q \in Producers, Receive(q) \/ EnqueueStep(q) PROVE snapshot' = snapshot
  BY <1>6 DEF Receive, EnqueueStep, Put, EvictOldest, PutAgain, CountDrop, store
<1>7. CASE WorkerStep /\ ~WriteFlows
  <2>1. CASE WriteHistory \/ WriteFailure \/ WorkerComplete
    BY <1>3, <2>1 DEF WriteHistory, WriteFailure, WorkerComplete, store
  <2> QED BY <1>3, <1>7, <2>1, WorkerMoves DEF Flushes, Takes
<1>8. CASE CloseStep
  BY <1>3, <1>8, CloserMoves DEF store
<1>9. CASE UNCHANGED vars
  BY <1>3, <1>9 DEF vars, store
<1> QED BY <1>2, <1>3, <1>4, <1>5, <1>6, <1>7, <1>8, <1>9 DEF Next

LEMMA SnapshotsStep ==
    ASSUME Shape, Ordered, SnapshotsBehind, [Next]_vars
    PROVE  SnapshotsBehind'
<1>1. Pending \subseteq Event /\ \A e \in Event : e.n \in Nat /\ e.by \in Producers
  BY PendingTyped, ScriptsAssumption DEF Event
<1>2. ASSUME NEW p \in Producers PROVE sent[p] \in Nat /\ sent'[p] \in Nat
  <2>1. Shape'
    BY ShapeStep
  <2> QED BY <2>1 DEF Shape, TypeOK
<1>3. ASSUME NEW p \in Producers
      PROVE  snapshot'[p] <= sent'[p] /\ (pc'[p] \in Putting => snapshot'[p] < sent'[p])
  <2>1. snapshot[p] \in Nat /\ snapshot'[p] \in Nat
    BY SnapshotsGrow
  <2>2. snapshot[p] <= sent[p] /\ (pc[p] \in Putting => snapshot[p] < sent[p])
    BY DEF SnapshotsBehind
  <2>3. CASE snapshot'[p] = snapshot[p]
    <3>1. CASE UNCHANGED <<pc, sent>>
      BY <2>2, <2>3, <3>1
    <3>2. ASSUME NEW q \in Producers, Receive(q) \/ EnqueueStep(q) \/ WriteSynchronously(q)
          PROVE  snapshot'[p] <= sent'[p] /\ (pc'[p] \in Putting => snapshot'[p] < sent'[p])
      <4>1. q # p => pc'[p] = pc[p] /\ sent'[p] = sent[p]
        BY <3>2, ProducerMoves
      <4>2. \/ sent'[q] = sent[q] + 1
            \/ sent' = sent /\ (pc'[q] \in Putting => pc[q] \in Putting)
            \/ pc'[q] \notin Putting /\ sent'[q] >= sent[q]
        <5>1. "full" \in Putting
          BY DEF Putting
        <5>2. sent'[q] >= sent[q]
          BY <3>2, ProducerMoves
        <5> QED BY <3>2, <5>1, <5>2, ProducerQueue
      <4> QED BY <1>2, <2>1, <2>2, <2>3, <4>1, <4>2
    <3>3. CASE WorkerStep
      BY <3>1, <3>3, WorkerMoves DEF producing
    <3>4. CASE CloseStep
      BY <3>1, <3>4, CloserMoves DEF producing
    <3>5. CASE UNCHANGED vars
      BY <3>1, <3>5 DEF vars, producing
    <3> QED BY <3>2, <3>3, <3>4, <3>5 DEF Next
  <2>4. CASE /\ UNCHANGED <<pc, sent>>
             /\ \E e \in Rows(batch) : e.by = p /\ e.kind = "flow_record" /\ snapshot'[p] = e.n
    <3>1. PICK e \in Rows(batch) : e.by = p /\ snapshot'[p] = e.n
      BY <2>4
    <3>2. Put_(e)
      BY <3>1, PendingIs DEF Ordered
    <3> QED BY <2>4, <3>1, <3>2 DEF Put_
  <2>5. CASE WriteSynchronously(p) /\ snapshot'[p] = sent'[p]
    <3>1. pc'[p] = "idle"
      BY <2>5 DEF WriteSynchronously
    <3> QED BY <1>2, <2>5, <3>1 DEF Putting
  <2> QED BY <2>3, <2>4, <2>5, SnapshotsGrow
<1>4. ASSUME NEW e \in Pending', e.kind = "flow_record"
      PROVE  snapshot'[e.by] < e.n
  <2>1. CASE Pending' \subseteq Pending
    <3>1. e \in Pending /\ e \in Event /\ e.by \in Producers /\ snapshot[e.by] < e.n
      BY <1>1, <1>4, <2>1 DEF SnapshotsBehind
    <3>2. CASE snapshot'[e.by] = snapshot[e.by]
      BY <3>1, <3>2
    <3>3. CASE /\ WriteFlows /\ batch' = NoBatch /\ UNCHANGED <<queue, buffers, pc, sent>>
               /\ \E f \in Rows(batch) : f.by = e.by /\ f.kind = "flow_record" /\ snapshot'[e.by] = f.n
      <4>1. PICK f \in Rows(batch) : f.by = e.by /\ f.kind = "flow_record" /\ snapshot'[e.by] = f.n
        BY <3>3
      <4>2. InQueue' = InQueue /\ Rows(buffers') = Rows(buffers) /\ Rows(batch') = {}
        BY <3>3, EmptyBatch DEF InQueue
      <4>3. e \in InQueue \cup Rows(buffers)
        BY <4>2, <1>4 DEF Pending, InQueue
      <4> QED BY <1>4, <4>1, <4>3, BatchApart
    <3>4. CASE WriteSynchronously(e.by)
      <4>1. ~enabled
        BY <3>4 DEF WriteSynchronously
      <4> QED BY <3>1, <4>1, NothingWhenDisabled
    <3> QED BY <3>1, <3>2, <3>3, <3>4, SnapshotsGrow
  <2>2. CASE \E p \in Producers : /\ pc[p] \in {"put", "retry"}
                                  /\ Pending' = Pending \cup MyEvents(p)
                                  /\ snapshot' = snapshot
    <3>1. PICK p \in Producers : /\ pc[p] \in {"put", "retry"}
                                 /\ Pending' = Pending \cup MyEvents(p)
                                 /\ snapshot' = snapshot
      BY <2>2
    <3>2. CASE e \in Pending
      BY <1>4, <3>1, <3>2 DEF SnapshotsBehind
    <3>3. CASE e \in MyEvents(p)
      <4>1. e.by = p /\ e.n = sent[p]
        BY <3>1, <3>3, MineIs
      <4> QED BY <3>1, <4>1 DEF SnapshotsBehind, Putting
    <3> QED BY <1>4, <3>1, <3>2, <3>3
  <2> QED BY <2>1, <2>2, PendingMoves
<1> QED BY <1>3, <1>4 DEF SnapshotsBehind

\* The rows of the history tables.
LEMMA RowsStep ==
    ASSUME Shape, Ordered, RowsBehind, [Next]_vars
    PROVE  RowsBehind'
<1>1. /\ Pending \subseteq Event /\ InQueue \cup Rows(buffers) \cup Rows(batch) = Pending
      /\ rows \in [Event -> 0 .. 2] /\ uncommitted \in [Event -> 0 .. 2]
  BY PendingTyped, PendingIs DEF Shape, TypeOK
<1>2. \A e \in Event : Put_(e) => Put_(e)'
  BY PutStays
<1>3. ASSUME UNCHANGED <<rows, uncommitted, halfWritten>>,
             \A e \in InQueue' \cup Rows(buffers') : Bare(e),
             worker' \in {"history", "failure"} => \A e \in Rows(batch') : Bare(e) \/ e \in halfWritten
      PROVE  RowsBehind'
  BY <1>2, <1>3 DEF RowsBehind, Bare, TwiceOnlyAfterHalfWrite
<1>4. ASSUME UNCHANGED <<rows, uncommitted, halfWritten, worker, batch, buffers>>, InQueue' \subseteq InQueue
      PROVE  RowsBehind'
  BY <1>3, <1>4 DEF RowsBehind
<1>5. ASSUME NEW p \in Producers, Receive(p) \/ EnqueueStep(p), queue' = queue \/ Evicts
      PROVE  RowsBehind'
  <2>1. UNCHANGED <<rows, uncommitted, halfWritten, worker, batch, buffers>>
    BY <1>5, ProducerMoves DEF Receive, EnqueueStep, Put, EvictOldest, PutAgain, CountDrop, store
  <2>2. InQueue' \subseteq InQueue
    BY <1>5, AfterEvict DEF InQueue
  <2> QED BY <1>4, <2>1, <2>2
<1>6. ASSUME NEW p \in Producers, Receive(p) \/ EnqueueStep(p),
             Puts(MyItem(p)), pc[p] \in {"put", "retry"}
      PROVE  RowsBehind'
  <2>1. UNCHANGED <<rows, uncommitted, halfWritten, worker, batch, buffers>>
    BY <1>6, ProducerMoves DEF Receive, EnqueueStep, Put, EvictOldest, PutAgain, CountDrop, store
  <2>2. /\ MyItem(p) \in Item /\ MyItem(p).events = MyEvents(p) /\ MyEvents(p) \subseteq Event
        /\ sent[p] \in Nat /\ \A e \in MyEvents(p) : e.by = p /\ e.n = sent[p]
    BY <1>6, MineIs
  <2>3. InQueue' = InQueue \cup MyEvents(p)
    BY <1>6, <2>2, AfterPut
  <2>4. \A e \in MyEvents(p) : Bare(e)
    <3>1. \A e \in MyEvents(p) : ~Put_(e)
      BY <1>6, <2>2 DEF Put_, Putting
    <3> QED BY <2>2, <3>1 DEF RowsBehind
  <2> QED BY <1>3, <2>1, <2>3, <2>4 DEF RowsBehind
<1>7. ASSUME NEW p \in Producers, WriteSynchronously(p) PROVE RowsBehind'
  <2>1. ~enabled /\ sent[p] < Len(script[p]) /\ sent' = [sent EXCEPT ![p] = @ + 1] /\ pc' = pc
        /\ pc[p] = "idle" /\ UNCHANGED <<queue, buffers, batch, worker>>
    BY <1>7 DEF WriteSynchronously, writer
  <2>2. /\ sent[p] \in Nat /\ \A e \in EventsOf(p, sent[p] + 1) : e.by = p /\ e.n = sent[p] + 1
        /\ sent'[p] = sent[p] + 1
    BY <2>1, NextIs DEF Shape, TypeOK
  <2>3. InQueue' \cup Rows(buffers') = {} /\ Rows(batch') = {}
    BY <2>1, NothingWhenDisabled DEF InQueue
  <2>4. \A e \in EventsOf(p, sent[p] + 1) : Put_(e)' /\ ~Put_(e)
    BY <2>1, <2>2 DEF Put_, Putting
  <2>5. \A e \in Event :
          /\ rows'[e] = 2 => rows[e] = 2 \/ uncommitted[e] # 0 \/ e \in halfWritten'
                                \/ (e \in EventsOf(p, sent[p] + 1) /\ rows[e] # 0)
          /\ uncommitted'[e] # 0 => uncommitted[e] # 0 \/ e \in halfWritten'
          /\ Bare(e)' \/ ~Bare(e) \/ e \in EventsOf(p, sent[p] + 1)
          /\ halfWritten \subseteq halfWritten'
    BY <1>1, <1>7, SynchronousIs
  <2>6. \A e \in Event : Bare(e)' \/ Put_(e)'
    BY <1>2, <2>4, <2>5 DEF RowsBehind
  <2>7. \A e \in Event : uncommitted'[e] # 0 => e \in halfWritten'
    BY <2>5 DEF RowsBehind
  <2>8. \A e \in Event : rows'[e] = 2 => e \in halfWritten'
    BY <2>4, <2>5 DEF RowsBehind, Bare, TwiceOnlyAfterHalfWrite
  <2> QED BY <2>3, <2>6, <2>7, <2>8 DEF RowsBehind, TwiceOnlyAfterHalfWrite
<1>8. CASE Flushes
  <2>1. /\ InQueue' = InQueue /\ Rows(batch') \cup Rows(buffers') = Rows(buffers)
        /\ UNCHANGED <<rows, uncommitted, halfWritten>>
    BY <1>8, AfterFlush DEF Flushes
  <2> QED BY <1>3, <2>1 DEF RowsBehind
<1>9. CASE Takes
  <2>1. /\ InQueue = Head(queue).events \cup InQueue'
        /\ Rows(batch') \cup Rows(buffers') = Rows(buffers) \cup Head(queue).events
        /\ UNCHANGED <<rows, uncommitted, halfWritten>>
    BY <1>9, AfterTake DEF Takes
  <2> QED BY <1>3, <2>1 DEF RowsBehind
<1>10. CASE WriteHistory
  <2>1. /\ worker = "history" /\ UNCHANGED <<queue, buffers, batch>>
        /\ worker' \in {"flows", "failure"}
    BY <1>10 DEF WriteHistory
  <2>2. \A e \in Event :
          /\ e \notin Rows(batch) /\ Bare(e) => Bare(e)'
          /\ rows'[e] = 2 => rows[e] = 2 \/ uncommitted[e] # 0 \/ (e \in Rows(batch) /\ rows[e] # 0)
          /\ uncommitted'[e] # 0 => uncommitted[e] # 0 \/ e \in halfWritten'
          /\ worker' = "failure" => Bare(e)' \/ ~Bare(e) \/ e \in halfWritten'
          /\ halfWritten \subseteq halfWritten'
    BY <1>1, <1>10, HistoryIs
  <2>3. \A e \in InQueue' \cup Rows(buffers') : Bare(e)'
    <3>1. InQueue' = InQueue /\ Rows(buffers') = Rows(buffers)
      BY <2>1 DEF InQueue
    <3> QED BY <1>1, <2>2, <3>1, BatchApart DEF RowsBehind
  <2>4. \A e \in Event : Bare(e)' \/ Put_(e)'
    BY <1>1, <1>2, <2>2 DEF RowsBehind, Ordered
  <2>5. \A e \in Event : uncommitted'[e] # 0 => e \in halfWritten'
    BY <2>2 DEF RowsBehind
  <2>6. \A e \in Event : rows'[e] = 2 => e \in halfWritten'
    <3>1. \A e \in Rows(batch) : rows[e] # 0 => e \in halfWritten
      BY <2>1 DEF RowsBehind, Bare
    <3> QED BY <2>2, <3>1 DEF RowsBehind, TwiceOnlyAfterHalfWrite
  <2>7. worker' \in {"history", "failure"} => \A e \in Rows(batch') : Bare(e)' \/ e \in halfWritten'
    <3>1. Rows(batch') = Rows(batch) /\ Rows(batch) \subseteq Event
      BY <1>1, <2>1
    <3> QED BY <2>1, <2>2, <3>1 DEF RowsBehind
  <2> QED BY <2>3, <2>4, <2>5, <2>6, <2>7 DEF RowsBehind, TwiceOnlyAfterHalfWrite
<1>11. CASE WriteFlows
  <2>1. /\ UNCHANGED <<queue, buffers>>
        /\ \/ batch' = NoBatch /\ worker' = "complete" /\ halfWritten' = halfWritten
           \/ batch' = batch /\ halfWritten' = halfWritten \cup Rows(batch)
    BY <1>11 DEF WriteFlows
  <2>2. \A e \in Event :
          /\ Bare(e) => Bare(e)'
          /\ rows'[e] = 2 => rows[e] = 2 \/ uncommitted[e] # 0
          /\ uncommitted'[e] # 0 => uncommitted[e] # 0
    BY <1>1, <1>11, FlowsAre
  <2>3. \A e \in InQueue' \cup Rows(buffers') : Bare(e)'
    <3>1. InQueue' = InQueue /\ Rows(buffers') = Rows(buffers)
      BY <2>1 DEF InQueue
    <3> QED BY <1>1, <2>2, <3>1 DEF RowsBehind
  <2>4. \A e \in Event : Bare(e)' \/ Put_(e)'
    BY <1>2, <2>2 DEF RowsBehind
  <2>5. \A e \in Event : (rows'[e] = 2 \/ uncommitted'[e] # 0) => e \in halfWritten'
    BY <2>1, <2>2 DEF RowsBehind, TwiceOnlyAfterHalfWrite
  <2>6. worker' \in {"history", "failure"} => \A e \in Rows(batch') : Bare(e)' \/ e \in halfWritten'
    BY <2>1
  <2> QED BY <2>3, <2>4, <2>5, <2>6 DEF RowsBehind, TwiceOnlyAfterHalfWrite
<1>12. CASE WriteFailure \/ WorkerComplete
  <2>1. /\ UNCHANGED <<rows, uncommitted, halfWritten, queue, buffers>>
        /\ \/ worker = "failure" /\ batch' = batch
           \/ worker' \notin {"history", "failure"}
    BY <1>12 DEF WriteFailure, WorkerComplete, store
  <2>2. InQueue' = InQueue /\ Rows(buffers') = Rows(buffers)
    BY <2>1 DEF InQueue
  <2> QED BY <1>3, <2>1, <2>2 DEF RowsBehind
<1>13. CASE WorkerStep
  BY <1>8, <1>9, <1>10, <1>11, <1>12, <1>13, WorkerMoves
<1>14. CASE CloseStep
  <2>1. UNCHANGED <<rows, uncommitted, halfWritten, worker, batch, buffers>> /\ (Puts(FlushCommand) \/ queue' = queue)
    BY <1>14, CloserMoves DEF writer, store
  <2>2. FlushCommand \in Item /\ FlushCommand.events = {}
    BY DEF FlushCommand, Item
  <2>3. InQueue' = InQueue
    <3>1. CASE Puts(FlushCommand)
      BY <2>2, <3>1, AfterPut
    <3>2. CASE queue' = queue
      BY <3>2 DEF InQueue
    <3> QED BY <2>1, <3>1, <3>2
  <2> QED BY <1>4, <2>1, <2>3
<1>15. CASE UNCHANGED vars
  <2>1. UNCHANGED <<rows, uncommitted, halfWritten, worker, batch, buffers, queue>>
    BY <1>15 DEF vars, writer, store
  <2> QED BY <1>4, <2>1 DEF InQueue
<1> QED BY <1>5, <1>6, <1>7, <1>13, <1>14, <1>15, ProducerQueue DEF Next

-----------------------------------------------------------------------------
(* Where every event received is. *)

LEMMA RangeCounted ==
    ASSUME NEW s \in Seq(Event), Rising(s)
    PROVE  Cardinality(Range(s)) = Len(s) /\ IsFiniteSet(Range(s))
<1>1. s \in [1 .. Len(s) -> Event] /\ Len(s) \in Nat /\ DOMAIN s = 1 .. Len(s)
  BY LenProperties
<1>2. \A i \in 1 .. Len(s) : s[i].n \in Nat
  BY <1>1, ScriptsAssumption DEF Event
<1>3. ASSUME NEW i \in 1 .. Len(s), NEW j \in 1 .. Len(s), s[i] = s[j] PROVE i = j
  <2>1. ~(i < j) /\ ~(j < i)
    BY <1>1, <1>2, <1>3 DEF Rising
  <2> QED BY <1>1, <2>1
<1>4. s \in [1 .. Len(s) -> Range(s)] /\ \A e \in Range(s) : \E i \in 1 .. Len(s) : s[i] = e
  BY <1>1 DEF Range
<1>5. ExistsBijection(1 .. Len(s), Range(s))
  <2>1. s \in Injection(1 .. Len(s), Range(s))
    BY <1>1, <1>3, <1>4 DEF Injection, IsInjective
  <2>2. s \in Surjection(1 .. Len(s), Range(s))
    BY <1>4 DEF Surjection
  <2> QED BY <2>1, <2>2 DEF ExistsBijection, Bijection
<1>6. IsFiniteSet(1 .. Len(s)) /\ Cardinality(1 .. Len(s)) = Len(s)
  <2>1. 1 \in Int /\ Len(s) \in Int
    BY <1>1
  <2>2. /\ IsFiniteSet(1 .. Len(s))
        /\ Cardinality(1 .. Len(s)) = IF 1 > Len(s) THEN 0 ELSE Len(s) - 1 + 1
    BY <2>1, FS_Interval
  <2> QED BY <1>1, <2>2
<1> QED BY <1>5, <1>6, FS_Bijection

LEMMA DisjointUnion ==
    ASSUME NEW S, NEW T, S \subseteq Event, T \subseteq Event, S \cap T = {}
    PROVE  /\ Cardinality(S \cup T) = Cardinality(S) + Cardinality(T)
           /\ Cardinality(S) \in Nat /\ Cardinality(T) \in Nat
<1>1. IsFiniteSet(S) /\ IsFiniteSet(T) /\ Cardinality(S) \in Nat /\ Cardinality(T) \in Nat
  BY SetsCounted
<1>2. Cardinality(S \cup T) = Cardinality(S) + Cardinality(T) - Cardinality(S \cap T)
  BY <1>1, FS_Union
<1>3. Cardinality(S \cap T) = 0
  BY FS_EmptySet
<1> QED BY <1>1, <1>2, <1>3

\* The rows of a batch are different events.
LEMMA SizeIs == ASSUME Shape, Ordered PROVE Size(batch) = Cardinality(Rows(batch))
<1> DEFINE P == Range(batch["packet_record"])
           A == Range(batch["alert_record"])
           F == Range(batch["flow_record"])
<1>1. /\ batch["packet_record"] \in Seq(Event) /\ Rising(batch["packet_record"])
      /\ batch["alert_record"] \in Seq(Event) /\ Rising(batch["alert_record"])
      /\ batch["flow_record"] \in Seq(Event) /\ Rising(batch["flow_record"])
  BY KindsAre DEF Shape, TypeOK, Ordered
<1>2. /\ Cardinality(P) = Len(batch["packet_record"])
      /\ Cardinality(A) = Len(batch["alert_record"])
      /\ Cardinality(F) = Len(batch["flow_record"])
  BY <1>1, RangeCounted
<1>3. /\ \A e \in P : e.kind = "packet_record"
      /\ \A e \in A : e.kind = "alert_record"
      /\ \A e \in F : e.kind = "flow_record"
  BY KindsAre DEF Shape, Range
<1>4. Rows(batch) = (P \cup A) \cup F
  BY KindsAre DEF Rows
<1>5. P \subseteq Event /\ A \subseteq Event /\ F \subseteq Event
  BY <1>4, PendingTyped, PendingIs
<1> HIDE DEF P, A, F
<1>6. P \cap A = {} /\ (P \cup A) \cap F = {}
  BY <1>3
<1>7. Cardinality(P \cup A) = Cardinality(P) + Cardinality(A)
  BY <1>5, <1>6, DisjointUnion
<1>8. Cardinality(Rows(batch)) = Cardinality(P \cup A) + Cardinality(F)
  BY <1>4, <1>5, <1>6, DisjointUnion
<1>9. Cardinality(Rows(batch)) = Cardinality(P) + Cardinality(A) + Cardinality(F)
  BY <1>7, <1>8
<1> QED BY <1>2, <1>9 DEF Size

\* The units in the hands of the threads.
Hands == Held({"put", "count"})

LEMMA HandsAre == /\ \A e : e \in Hands <=> \E q \in Producers : pc[q] \in {"put", "count"} /\ e \in MyEvents(q)
                  /\ \A e : e \in Hands' <=> \E q \in Producers : pc'[q] \in {"put", "count"} /\ e \in MyEvents(q)'
<1>1. \A e : e \in Hands <=> \E q \in Producers : pc[q] \in {"put", "count"} /\ e \in MyEvents(q)
  BY DEF Hands, Held
<1>2. \A e : e \in Hands' <=> \E q \in Producers : pc'[q] \in {"put", "count"} /\ e \in MyEvents(q)'
  BY DEF Hands, Held
<1> QED BY <1>1, <1>2

LEMMA HandsTyped == ASSUME Shape PROVE Hands \subseteq Event
<1>1. ASSUME NEW q \in Producers, pc[q] \in {"put", "count"} PROVE MyEvents(q) \subseteq Event
  BY <1>1, MineIs
<1> QED BY <1>1, HandsAre

\* One thread moves: the units of the others stay in their hands.
LEMMA HandsMove ==
    ASSUME Shape, NEW p \in Producers, script' = script,
           \A q \in Producers : q # p => pc'[q] = pc[q] /\ sent'[q] = sent[q]
    PROVE  /\ pc[p] \in {"put", "count"} /\ pc'[p] \notin {"put", "count"} =>
                Hands' = Hands \ MyEvents(p) /\ MyEvents(p) \subseteq Hands
           /\ pc[p] \notin {"put", "count"} /\ pc'[p] \in {"put", "count"} =>
                Hands' = Hands \cup EventsOf(p, sent'[p]) /\ (\A e \in Hands : e.by # p)
           /\ sent'[p] = sent[p] /\ (pc'[p] \in {"put", "count"} <=> pc[p] \in {"put", "count"}) => Hands' = Hands
<1>1. \A q \in Producers : MyEvents(q)' = EventsOf(q, sent'[q]) /\ MyEvents(q) = EventsOf(q, sent[q])
  BY DEF MyEvents, EventsOf
<1>2. \A q \in Producers : q # p => MyEvents(q)' = MyEvents(q)
  BY <1>1
<1>3. \A q \in Producers : pc[q] \in {"put", "count"} => \A e \in MyEvents(q) : e.by = q
  BY MineIs
<1>4. ASSUME pc[p] \in {"put", "count"}, pc'[p] \notin {"put", "count"}
      PROVE  Hands' = Hands \ MyEvents(p) /\ MyEvents(p) \subseteq Hands
  <2>1. \A e : e \in Hands' <=> e \in Hands /\ e \notin MyEvents(p)
    <3>1. ASSUME NEW e, e \in Hands' PROVE e \in Hands /\ e \notin MyEvents(p)
      <4>1. PICK q \in Producers : pc'[q] \in {"put", "count"} /\ e \in MyEvents(q)'
        BY <3>1, HandsAre
      <4>2. q # p /\ pc[q] \in {"put", "count"} /\ e \in MyEvents(q)
        BY <1>2, <1>4, <4>1
      <4>3. e \in Hands
        BY <4>2, HandsAre
      <4> QED BY <1>3, <1>4, <4>2, <4>3
    <3>2. ASSUME NEW e, e \in Hands, e \notin MyEvents(p) PROVE e \in Hands'
      <4>1. PICK q \in Producers : pc[q] \in {"put", "count"} /\ e \in MyEvents(q)
        BY <3>2, HandsAre
      <4>2. q # p /\ pc'[q] \in {"put", "count"} /\ e \in MyEvents(q)'
        BY <1>2, <3>2, <4>1
      <4> QED BY <4>2, HandsAre
    <3> QED BY <3>1, <3>2
  <2>2. MyEvents(p) \subseteq Hands
    BY <1>4, HandsAre
  <2> QED BY <2>1, <2>2
<1>5. ASSUME pc[p] \notin {"put", "count"}, pc'[p] \in {"put", "count"}
      PROVE  Hands' = Hands \cup EventsOf(p, sent'[p]) /\ (\A e \in Hands : e.by # p)
  <2>1. ASSUME NEW e, e \in Hands PROVE e \in Hands' /\ e.by # p
    <3>1. PICK q \in Producers : pc[q] \in {"put", "count"} /\ e \in MyEvents(q)
      BY <2>1, HandsAre
    <3>2. q # p /\ pc'[q] \in {"put", "count"} /\ e \in MyEvents(q)' /\ e.by = q
      BY <1>2, <1>3, <1>5, <3>1
    <3> QED BY <3>2, HandsAre
  <2>2. ASSUME NEW e, e \in EventsOf(p, sent'[p]) PROVE e \in Hands'
    BY <1>1, <1>5, <2>2, HandsAre
  <2>3. ASSUME NEW e, e \in Hands' PROVE e \in Hands \cup EventsOf(p, sent'[p])
    <3>1. PICK q \in Producers : pc'[q] \in {"put", "count"} /\ e \in MyEvents(q)'
      BY <2>3, HandsAre
    <3>2. CASE q = p
      BY <1>1, <3>1, <3>2
    <3>3. CASE q # p
      BY <1>2, <3>1, <3>3, HandsAre
    <3> QED BY <3>2, <3>3
  <2> QED BY <2>1, <2>2, <2>3
<1>6. ASSUME sent'[p] = sent[p], pc'[p] \in {"put", "count"} <=> pc[p] \in {"put", "count"}
      PROVE  Hands' = Hands
  <2>1. \A q \in Producers : /\ MyEvents(q)' = MyEvents(q)
                             /\ pc'[q] \in {"put", "count"} <=> pc[q] \in {"put", "count"}
    BY <1>1, <1>6
  <2>2. \A e : e \in Hands' <=> e \in Hands
    BY <2>1, HandsAre
  <2> QED BY <2>2
<1> QED BY <1>4, <1>5, <1>6

\* EventsConserved holds of no events at first.
LEMMA ConservedInit == Init => EventsConserved
<1> SUFFICES ASSUME Init PROVE EventsConserved
  OBVIOUS
<1>1. << >> \in Seq(Event) /\ DOMAIN << >> = {}
  OBVIOUS
<1>2. Pending = {}
  BY <1>1, EmptyBatch DEF Init, Pending
<1>3. Hands = {}
  BY HandsAre DEF Init
<1>4. received = 0 /\ written = 0 /\ failed = 0 /\ dropped = 0
  BY DEF Init
<1> QED BY <1>2, <1>3, <1>4, FS_EmptySet DEF EventsConserved, Hands

\* The cardinalities in EventsConserved are numbers, and what holds of them.
LEMMA Counted ==
    ASSUME Shape, Ordered, EventsConserved, policy # "drop_oldest"
    PROVE  /\ received \in Nat /\ written \in Nat /\ failed \in Nat /\ dropped \in Nat
           /\ Cardinality(Pending) \in Nat /\ Cardinality(Hands) \in Nat
           /\ received = written + failed + dropped + Cardinality(Pending) + Cardinality(Hands)
<1>1. received \in Nat /\ written \in Nat /\ failed \in Nat /\ dropped \in Nat
  BY DEF Shape, TypeOK
<1>2. Cardinality(Pending) \in Nat /\ Cardinality(Hands) \in Nat
  BY PendingTyped, HandsTyped, SetsCounted
<1> QED BY <1>1, <1>2 DEF EventsConserved, Hands

LEMMA ConservedStep ==
    ASSUME Shape, Ordered, EventsConserved, [Next]_vars
    PROVE  EventsConserved'
<1> SUFFICES ASSUME policy' # "drop_oldest"
             PROVE  received' = written' + failed' + dropped' + Cardinality(Pending') + Cardinality(Hands')
  BY DEF EventsConserved, Hands
<1>1. UNCHANGED <<policy, script, enabled>>
  <2>1. ASSUME NEW p \in Producers, Receive(p) \/ EnqueueStep(p) \/ WriteSynchronously(p)
        PROVE  UNCHANGED fixed
    BY <2>1, ProducerMoves
  <2>2. CASE UNCHANGED vars
    BY <2>2 DEF vars, fixed
  <2> QED BY <2>1, <2>2, WorkerMoves, CloserMoves DEF Next, fixed
<1>2. policy # "drop_oldest"
  BY <1>1
<1>3. /\ received \in Nat /\ written \in Nat /\ failed \in Nat /\ dropped \in Nat
      /\ Cardinality(Pending) \in Nat /\ Cardinality(Hands) \in Nat
      /\ received = written + failed + dropped + Cardinality(Pending) + Cardinality(Hands)
  BY <1>2, Counted
<1>4. Pending \subseteq Event /\ Hands \subseteq Event
  BY PendingTyped, HandsTyped
<1>5. CASE UNCHANGED <<received, written, failed, dropped>> /\ Pending' = Pending /\ Hands' = Hands
  BY <1>3, <1>5
<1>6. CASE WorkerStep
  <2>1. Hands' = Hands
    <3>1. UNCHANGED <<pc, sent>>
      BY <1>6, WorkerMoves DEF producing
    <3> QED BY <1>1, <3>1 DEF Hands, Held, MyEvents, EventsOf
  <2>2. CASE Flushes \/ Takes
    <3>1. UNCHANGED <<received, written, failed, dropped>>
      BY <1>6, <2>2, WorkerMoves DEF Flushes, Takes
    <3>2. Pending' = Pending
      BY <2>2, AfterFlush, AfterTake
    <3> QED BY <1>5, <2>1, <3>1, <3>2
  <2>3. CASE UNCHANGED <<queue, buffers, batch, received, written, failed, dropped>>
    BY <1>5, <2>1, <2>3 DEF Pending
  <2>4. CASE /\ UNCHANGED <<queue, buffers, received, dropped>> /\ batch' = NoBatch
             /\ \/ written' = written + Size(batch) /\ failed' = failed
                \/ written' = written /\ failed' = failed + Size(batch)
    <3>1. InQueue' = InQueue /\ Rows(buffers') = Rows(buffers) /\ Rows(batch') = {}
      BY <2>4, EmptyBatch DEF InQueue
    <3>2. Pending' = InQueue \cup Rows(buffers) /\ Pending = (InQueue \cup Rows(buffers)) \cup Rows(batch)
      BY <3>1 DEF Pending, InQueue
    <3>3. Rows(batch) \cap (InQueue \cup Rows(buffers)) = {}
      BY BatchApart
    <3>4. /\ Cardinality(Pending) = Cardinality(Pending') + Cardinality(Rows(batch))
          /\ Cardinality(Pending') \in Nat /\ Cardinality(Rows(batch)) \in Nat
      BY <1>4, <3>2, <3>3, DisjointUnion
    <3>5. Size(batch) = Cardinality(Rows(batch))
      BY SizeIs
    <3> QED BY <1>3, <2>1, <2>4, <3>4, <3>5
  <2>5. CASE WriteHistory \/ WorkerComplete
    BY <2>3, <2>5 DEF WriteHistory, WorkerComplete, counters
  <2>6. CASE WriteFlows
    BY <2>3, <2>4, <2>6 DEF WriteFlows
  <2>7. CASE WriteFailure
    BY <2>3, <2>4, <2>7 DEF WriteFailure, CountRows
  <2> QED BY <1>6, <2>2, <2>5, <2>6, <2>7, WorkerMoves
<1>7. CASE CloseStep
  <2>1. UNCHANGED <<received, written, failed, dropped, pc, sent, buffers, batch>>
        /\ (Puts(FlushCommand) \/ queue' = queue)
    BY <1>7, CloserMoves DEF counters, producing, writer
  <2>2. Hands' = Hands
    BY <1>1, <2>1 DEF Hands, Held, MyEvents, EventsOf
  <2>3. FlushCommand \in Item /\ FlushCommand.events = {}
    BY DEF FlushCommand, Item
  <2>4. CASE Puts(FlushCommand)
    <3>1. Pending' = Pending
      BY <2>1, <2>3, <2>4, AfterPut DEF Pending, InQueue
    <3> QED BY <1>5, <2>1, <2>2, <3>1
  <2>5. CASE queue' = queue
    BY <1>5, <2>1, <2>2, <2>5 DEF Pending
  <2> QED BY <2>1, <2>4, <2>5
<1>8. CASE UNCHANGED vars
  <2>1. UNCHANGED <<received, written, failed, dropped, pc, sent, queue, buffers, batch>>
    BY <1>8 DEF vars, counters, producing, writer
  <2>2. Hands' = Hands /\ Pending' = Pending
    BY <1>1, <2>1 DEF Hands, Held, MyEvents, EventsOf, Pending
  <2> QED BY <1>5, <2>1, <2>2
<1>9. ASSUME NEW p \in Producers, Receive(p) \/ EnqueueStep(p) \/ WriteSynchronously(p)
      PROVE  received' = written' + failed' + dropped' + Cardinality(Pending') + Cardinality(Hands')
  <2>1. /\ \A q \in Producers : q # p => pc'[q] = pc[q] /\ sent'[q] = sent[q]
        /\ UNCHANGED <<buffers, batch>>
    BY <1>9, ProducerMoves
  <2>2. /\ pc \in [Producers -> {"idle", "put", "full", "retry", "count"}]
        /\ sent \in [Producers -> Nat] /\ pc[p] \notin {"full", "retry"}
    BY <1>2 DEF Shape, TypeOK
  <2>3. queue' = queue => Pending' = Pending
    BY <2>1 DEF Pending
  <2>4. CASE Receive(p)
    <3>1. /\ pc[p] = "idle" /\ pc'[p] = "put" /\ sent'[p] = sent[p] + 1 /\ sent[p] < Len(script[p])
          /\ received' = received + Cardinality(EventsOf(p, sent[p] + 1))
          /\ UNCHANGED <<queue, written, failed, dropped>>
      BY <2>2, <2>4 DEF Receive, Goto
    <3>2. Hands' = Hands \cup EventsOf(p, sent[p] + 1) /\ \A e \in Hands : e.by # p
      BY <1>1, <2>1, <3>1, HandsMove
    <3>3. /\ EventsOf(p, sent[p] + 1) \subseteq Event
          /\ \A e \in EventsOf(p, sent[p] + 1) : e.by = p
      BY <3>1, NextIs
    <3>4. Hands \cap EventsOf(p, sent[p] + 1) = {}
      BY <3>2, <3>3
    <3>5. /\ Cardinality(Hands') = Cardinality(Hands) + Cardinality(EventsOf(p, sent[p] + 1))
          /\ Cardinality(EventsOf(p, sent[p] + 1)) \in Nat
      BY <1>4, <3>2, <3>3, <3>4, DisjointUnion
    <3> QED BY <1>3, <2>3, <3>1, <3>5
  <2>5. ASSUME pc[p] \in {"put", "count"}, pc'[p] = "idle"
        PROVE  /\ Cardinality(Hands) = Cardinality(Hands') + Cardinality(MyEvents(p))
               /\ Cardinality(Hands') \in Nat /\ Cardinality(MyEvents(p)) \in Nat
               /\ MyEvents(p) \subseteq Event
    <3>1. Hands' = Hands \ MyEvents(p) /\ MyEvents(p) \subseteq Hands
      BY <1>1, <2>1, <2>5, HandsMove
    <3>2. Hands = Hands' \cup MyEvents(p) /\ Hands' \cap MyEvents(p) = {}
      BY <3>1
    <3>3. Hands' \subseteq Event /\ MyEvents(p) \subseteq Event
      BY <1>4, <3>1
    <3> QED BY <3>2, <3>3, DisjointUnion
  <2>6. CASE Put(p)
    <3>1. pc[p] = "put" /\ UNCHANGED <<received, written, failed, dropped, sent>>
      BY <2>6 DEF Put, counters
    <3>2. CASE PutItem(p) /\ Goto(p, "idle")
      <4>1. pc'[p] = "idle"
        BY <2>2, <3>2 DEF Goto
      <4>2. /\ MyItem(p) \in Item /\ MyItem(p).events = MyEvents(p) /\ sent[p] \in Nat
            /\ \A e \in MyEvents(p) : e.by = p /\ e.n = sent[p]
        BY <3>1, MineIs
      <4>3. InQueue' = InQueue \cup MyEvents(p)
        BY <3>2, <4>2, AfterPut DEF PutItem, PutAtTail, Puts
      <4>4. Pending' = Pending \cup MyEvents(p)
        BY <2>1, <4>3 DEF Pending, InQueue
      <4>5. Pending \cap MyEvents(p) = {}
        BY <3>1, <4>2 DEF Ordered, Put_, Putting
      <4>6. /\ Cardinality(Hands) = Cardinality(Hands') + Cardinality(MyEvents(p))
            /\ Cardinality(Hands') \in Nat /\ Cardinality(MyEvents(p)) \in Nat
            /\ MyEvents(p) \subseteq Event
        BY <2>5, <3>1, <4>1
      <4>7. Cardinality(Pending') = Cardinality(Pending) + Cardinality(MyEvents(p))
        BY <1>4, <4>4, <4>5, <4>6, DisjointUnion
      <4> QED BY <1>3, <3>1, <4>6, <4>7
    <3>3. CASE Goto(p, "count") /\ queue' = queue
      <4>1. pc'[p] = "count"
        BY <2>2, <3>3 DEF Goto
      <4>2. Hands' = Hands
        BY <1>1, <2>1, <3>1, <4>1, HandsMove
      <4> QED BY <1>5, <2>3, <3>1, <3>3, <4>2
    <3> QED BY <1>2, <2>6, <3>2, <3>3 DEF Put
  <2>7. CASE CountDrop(p)
    <3>1. /\ pc[p] = "count" /\ pc'[p] = "idle" /\ dropped' = dropped + Cardinality(MyEvents(p))
          /\ UNCHANGED <<received, written, failed, queue>>
      BY <2>2, <2>7 DEF CountDrop, Goto
    <3> QED BY <1>3, <2>3, <2>5, <3>1
  <2>8. CASE WriteSynchronously(p)
    <3>1. /\ ~enabled /\ pc' = pc /\ sent[p] < Len(script[p]) /\ UNCHANGED <<queue, dropped>>
          /\ received' = received + Cardinality(EventsOf(p, sent[p] + 1))
          /\ \/ written' = written + Cardinality(EventsOf(p, sent[p] + 1)) /\ failed' = failed
             \/ written' = written /\ failed' = failed + Cardinality(EventsOf(p, sent[p] + 1))
      BY <2>8 DEF WriteSynchronously
    <3>2. Hands = {} /\ Hands' = {}
      <4>1. \A q \in Producers : pc[q] = "idle" /\ pc'[q] = "idle"
        BY <3>1 DEF Shape
      <4> QED BY <4>1, HandsAre
    <3>3. Cardinality(EventsOf(p, sent[p] + 1)) \in Nat
      BY <3>1, NextIs, SetsCounted
    <3>4. Cardinality(Hands') = Cardinality(Hands) /\ Cardinality(Pending') = Cardinality(Pending)
      BY <2>3, <3>1, <3>2
    <3>5. PICK c \in Nat : /\ received' = received + c
                          /\ \/ written' = written + c /\ failed' = failed
                             \/ written' = written /\ failed' = failed + c
      BY <3>1, <3>3
    <3>6. dropped' = dropped
      BY <3>1
    <3>7. CASE written' = written + c /\ failed' = failed
      BY <1>3, <3>4, <3>5, <3>6, <3>7
    <3>8. CASE written' = written /\ failed' = failed + c
      BY <1>3, <3>4, <3>5, <3>6, <3>8
    <3> QED BY <3>5, <3>7, <3>8
  <2>9. CASE EvictOldest(p) \/ PutAgain(p)
    BY <2>2, <2>9 DEF EvictOldest, PutAgain
  <2> QED BY <1>9, <2>4, <2>6, <2>7, <2>8, <2>9 DEF EnqueueStep
<1> QED BY <1>6, <1>7, <1>8, <1>9 DEF Next

-----------------------------------------------------------------------------
(* The theorems. *)

LEMMA BehindInit == Init => SnapshotsBehind /\ RowsBehind
<1> SUFFICES ASSUME Init PROVE SnapshotsBehind /\ RowsBehind
  OBVIOUS
<1>1. DOMAIN queue = {} /\ buffers = NoBatch /\ batch = NoBatch
  BY DEF Init
<1>2. InQueue = {} /\ Rows(buffers) = {} /\ Rows(batch) = {}
  BY <1>1, EmptyBatch DEF InQueue
<1>3. Pending = {}
  BY <1>2, PendingIs
<1>4. SnapshotsBehind
  BY <1>3 DEF Init, SnapshotsBehind, Putting
<1>5. RowsBehind
  BY <1>2 DEF Init, NoRows, RowsBehind, Bare, TwiceOnlyAfterHalfWrite
<1> QED BY <1>4, <1>5

LEMMA Inductive == IInv /\ [Next]_vars => IInv'
BY ShapeStep, OrderedStep, SnapshotsStep, RowsStep, ClosingStep, ConservedStep DEF IInv

LEMMA Invariance == Spec => []IInv
<1>1. Init => IInv
  BY ShapeInit, OrderedInit, BehindInit, ClosingInit, ConservedInit DEF IInv
<1> QED BY <1>1, Inductive, PTL DEF Spec

\* Under the refusing policies the counters account for every event received, in one
\* place each; the end of the writer thread leaves nothing behind that was enqueued before
\* close() began; and nothing is stored twice but by an attempt that failed half way.
THEOREM BooksAndTables == Spec => []EventsAccounted
<1>1. IInv => EventsAccounted
  <2> SUFFICES ASSUME IInv PROVE EventsAccounted
    OBVIOUS
  <2>1. TypeOK /\ EventsConserved /\ TwiceOnlyAfterHalfWrite
    BY DEF IInv, Shape, RowsBehind
  <2>2. NoneLeftBehind
    BY DEF IInv, Closing, NoneLeftBehind
  <2> QED BY <2>1, <2>2 DEF EventsAccounted
<1> QED BY <1>1, Invariance, PTL

\* A flush that answers True, unless the queue evicts, has everything enqueued before
\* close() asked for it behind it, written or failed.
THEOREM FlushTellsTheTruth == Spec => []FlushSound
<1>1. IInv => FlushSound
  BY DEF IInv, Closing, FlushSound
<1> QED BY <1>1, Invariance, PTL

\* The queue, the buffers, the batch and its retries store the snapshots of a flow in order.
THEOREM SnapshotsInOrder == Spec => SnapshotsAdvance
<1>1. IInv /\ [Next]_vars => [\A p \in Producers : snapshot'[p] >= snapshot[p]]_snapshot
  BY SnapshotsGrow DEF IInv
<1> QED BY <1>1, Invariance, PTL DEF Spec, SnapshotsAdvance
=============================================================================
