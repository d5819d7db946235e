-------------------------- MODULE PacketQueueProofs -------------------------
(***************************************************************************)
(* PacketQueue for every number of capture threads, queue size and packet  *)
(* bound: its types, the answer of wait_until_drained, the books of its    *)
(* drops, and that it implements the lossy FIFO.                           *)
(***************************************************************************)
EXTENDS PacketQueue, QueueLemmas

\* unfinished_tasks is exactly what is queued, what the worker holds, and what
\* a capture thread evicted and has not reported done yet.
Evicting == HowMany(Producers, pc, {"evicted"})
WorkerHolds == IF Working THEN 1 ELSE 0
UnfinishedExact == unfinished = Len(queue) + WorkerHolds + Evicting

\* A thread inside put() has a packet, and the worker has one while it works on it.
HandsFull ==
    /\ \A p \in Producers : pc[p] # "idle" => offered[p] \in 1 .. Offers
    /\ Working => held \in Packet

\* Everything the worker took is handed on, except what it is working on.
TakenAccounted == Range(taken) \subseteq handled \cup (IF worker = "busy" THEN {held} ELSE {})

\* The inductive invariant: TypeOK alone does not keep unfinished_tasks natural.
IInv == TypeOK /\ UnfinishedExact /\ HandsFull /\ TakenAccounted

\* An empty queue with every counter at zero satisfies the invariant.
LEMMA InitInv == Init => IInv
<1> SUFFICES ASSUME Init PROVE IInv
  OBVIOUS
<1> USE DEF Init
<1>1. TypeOK
  <2>1. << >> \in Seq(Packet) /\ Len(<< >>) = 0
    BY EmptySeq
  <2>2. 0 \in 0 .. MaxSize /\ 0 \in 0 .. Offers
    BY MaxSizeAssumption, OffersAssumption
  <2>3. /\ pc \in [Producers -> PutSteps]
        /\ offered \in [Producers -> 0 .. Offers]
        /\ worker \in WorkerSteps
    BY <2>2 DEF PutSteps, WorkerSteps
  <2>4. queue \in Seq(Packet) /\ Len(queue) <= MaxSize /\ taken \in Seq(Packet)
    BY <2>1, MaxSizeAssumption
  <2>5. highWater \in 0 .. MaxSize /\ unfinished \in Nat /\ accepted \in Nat
    BY <2>2
  <2>6. held \in Packet \cup {NoPacket}
    OBVIOUS
  <2> QED
    BY <2>3, <2>4, <2>5, <2>6 DEF TypeOK
<1>2. UnfinishedExact
  <2>1. Standing(Producers, pc, {"evicted"}) = {}
    BY DEF Standing
  <2> QED
    BY <2>1, FS_EmptySet DEF UnfinishedExact, WorkerHolds, Evicting, Working, HowMany
<1>3. HandsFull /\ TakenAccounted
  BY DEF HandsFull, TakenAccounted, Working, Range
<1> QED
  BY <1>1, <1>2, <1>3 DEF IInv

\* As one thread moves, the number of threads at certain places follows it.
LEMMA ThreadCount ==
    ASSUME NEW p \in Producers, \A q \in Producers : q # p => pc'[q] = pc[q], NEW S
    PROVE  /\ Cardinality(InStep(S)) \in Nat /\ Cardinality(InStep(S)') \in Nat
           /\ pc[p] \notin S /\ pc'[p] \in S => Cardinality(InStep(S)') = Cardinality(InStep(S)) + 1
           /\ pc[p] \in S /\ pc'[p] \notin S => Cardinality(InStep(S)') = Cardinality(InStep(S)) - 1
           /\ (pc[p] \in S <=> pc'[p] \in S) => Cardinality(InStep(S)') = Cardinality(InStep(S))
<1>1. /\ Cardinality(InStep(S)) = HowMany(Producers, pc, S)
      /\ Cardinality(InStep(S)') = HowMany(Producers, pc', S)
  BY DEF InStep, HowMany, Standing
<1>2. IsFiniteSet(Producers)
  BY ProducersAssumption
<1>3. HowMany(Producers, pc, S) \in Nat /\ HowMany(Producers, pc', S) \in Nat
  BY <1>2, CountNat
<1>4. pc[p] \notin S /\ pc'[p] \in S => HowMany(Producers, pc', S) = HowMany(Producers, pc, S) + 1
  BY <1>2, CountUp, ZenonT(60)
<1>5. pc[p] \in S /\ pc'[p] \notin S => HowMany(Producers, pc', S) = HowMany(Producers, pc, S) - 1
  BY <1>2, CountDown, ZenonT(60)
<1>6. (pc[p] \in S <=> pc'[p] \in S) => HowMany(Producers, pc', S) = HowMany(Producers, pc, S)
  BY CountSame
<1> QED
  BY <1>1, <1>3, <1>4, <1>5, <1>6

\* The same, for a thread that goes to b.
LEMMA ThreadMoves ==
    ASSUME pc \in [Producers -> PutSteps], NEW p \in Producers, NEW b,
           pc' = [pc EXCEPT ![p] = b], NEW S
    PROVE  /\ Cardinality(InStep(S)) \in Nat /\ Cardinality(InStep(S)') \in Nat
           /\ pc[p] \notin S /\ b \in S => Cardinality(InStep(S)') = Cardinality(InStep(S)) + 1
           /\ pc[p] \in S /\ b \notin S => Cardinality(InStep(S)') = Cardinality(InStep(S)) - 1
           /\ (pc[p] \in S <=> b \in S) => Cardinality(InStep(S)') = Cardinality(InStep(S))
<1>1. pc'[p] = b /\ \A q \in Producers : q # p => pc'[q] = pc[q]
  OBVIOUS
<1> QED
  BY <1>1, ThreadCount

\* The evictions not yet reported stay as many, or change by one, as a capture thread
\* reaches or leaves the place between get_nowait and task_done.
LEMMA EvictedMove ==
    ASSUME TypeOK, NEW p \in Producers, NEW b \in PutSteps, pc' = [pc EXCEPT ![p] = b]
    PROVE  /\ Evicting \in Nat /\ Evicting' \in Nat
           /\ pc[p] # "evicted" /\ b # "evicted" => Evicting' = Evicting
           /\ pc[p] # "evicted" /\ b = "evicted" => Evicting' = Evicting + 1
           /\ pc[p] = "evicted" /\ b # "evicted" => Evicting' = Evicting - 1
<1>1. pc \in [Producers -> PutSteps]
  BY DEF TypeOK
<1>2. Evicting = Cardinality(InStep({"evicted"})) /\ Evicting' = Cardinality(InStep({"evicted"})')
  BY DEF Evicting, HowMany, Standing, InStep
<1>3. /\ pc[p] \in {"evicted"} <=> pc[p] = "evicted"
      /\ b \in {"evicted"} <=> b = "evicted"
  OBVIOUS
<1> QED
  BY <1>1, <1>2, <1>3, ThreadMoves

\* What the head and the tail of a nonempty queue are.
LEMMA QueueHead ==
    ASSUME queue \in Seq(Packet), queue # << >>
    PROVE  /\ Head(queue) \in Packet
           /\ Tail(queue) \in Seq(Packet)
           /\ Len(Tail(queue)) = Len(queue) - 1
           /\ Len(queue) \in Nat
BY HeadTailProperties, LenProperties

\* Every step of a put() that is not its first keeps the invariant.
LEMMA PutStepInv ==
    ASSUME IInv, NEW p \in Producers, PutStep(p)
    PROVE  IInv'
<1> USE DEF IInv
<1>1. /\ pc \in [Producers -> PutSteps] /\ Len(queue) \in Nat /\ Evicting \in Nat
      /\ unfinished \in Nat
  BY LenProperties, CountNat, ProducersAssumption DEF TypeOK, Evicting
<1>2. /\ UNCHANGED <<policy, offered, worker, held, taken, handled, stop, drained>>
      /\ pc[p] # "idle"
      /\ UNCHANGED WorkerHolds
      /\ \E b \in PutSteps : pc' = [pc EXCEPT ![p] = b]
  BY DEF PutStep, RecordAccepted, CountNewest, EvictOldest, EvictedDone, CountOldest,
         PutAgain, AfterEmpty, AfterRetry, AfterRefusal, PutSteps, counters, consumer,
         WorkerHolds, Working
<1>3. /\ pc' \in [Producers -> PutSteps] /\ Evicting' \in Nat
      /\ \A q \in Producers : q # p => pc'[q] = pc[q]
  <2>1. PICK b \in PutSteps : pc' = [pc EXCEPT ![p] = b]
    BY <1>2
  <2> QED
    BY <1>1, <2>1, EvictedMove
<1>4. SUFFICES ASSUME queue' \in Seq(Packet), Len(queue') \in Nat, Len(queue') <= MaxSize,
                      accepted' \in Nat, droppedOldest' \in Nat, droppedNewest' \in Nat,
                      highWater' \in 0 .. MaxSize, lost' \subseteq Packet,
                      unfinished' \in Int,
                      unfinished' = unfinished + (Len(queue') - Len(queue))
                                               + (Evicting' - Evicting)
               PROVE  IInv'
  <2>1. CASE RecordAccepted(p) \/ CountNewest(p) \/ CountOldest(p)
    <3>1. PICK b \in {"idle", "retry"} : pc' = [pc EXCEPT ![p] = b]
      BY <2>1 DEF RecordAccepted, CountNewest, CountOldest
    <3>2. Evicting' = Evicting
      BY <1>1, <2>1, <3>1, EvictedMove DEF RecordAccepted, CountNewest, CountOldest, PutSteps
    <3>3. UNCHANGED <<queue, unfinished, lost>>
      BY <2>1 DEF RecordAccepted, CountNewest, CountOldest
    <3>4. accepted' \in Nat /\ droppedOldest' \in Nat /\ droppedNewest' \in Nat
      BY <2>1 DEF RecordAccepted, CountNewest, CountOldest, TypeOK
    <3>5. highWater' \in {highWater, Larger(highWater, Len(queue))}
      BY <2>1 DEF RecordAccepted, CountNewest, CountOldest
    <3>6. highWater' \in 0 .. MaxSize
      BY <1>1, <3>5, MaxSizeAssumption DEF TypeOK, Larger
    <3> QED
      BY <1>1, <1>4, <3>2, <3>3, <3>4, <3>6 DEF TypeOK
  <2>2. CASE EvictOldest(p)
    <3>1. UNCHANGED <<unfinished, accepted, droppedOldest, droppedNewest, highWater>>
      BY <2>2 DEF EvictOldest, counters
    <3>2. CASE queue # << >> /\ queue' = Tail(queue) /\ lost' = lost \cup {Head(queue)}
                  /\ pc' = [pc EXCEPT ![p] = "evicted"]
      <4>1. Evicting' = Evicting + 1
        BY <1>1, <2>2, <3>2, EvictedMove DEF EvictOldest, PutSteps
      <4>2. Head(queue) \in Packet /\ queue' \in Seq(Packet) /\ Len(queue') = Len(queue) - 1
        BY <3>2, QueueHead DEF TypeOK
      <4> QED
        BY <1>1, <1>4, <3>1, <3>2, <4>1, <4>2, LenProperties, MaxSizeAssumption DEF TypeOK, PutSteps
    <3>3. CASE pc' = [pc EXCEPT ![p] = "count"] /\ UNCHANGED <<queue, lost>>
      <4>1. Evicting' = Evicting
        BY <1>1, <2>2, <3>3, EvictedMove DEF EvictOldest, PutSteps
      <4> QED
        BY <1>1, <1>4, <3>1, <3>3, <4>1 DEF TypeOK, PutSteps
    <3> QED
      BY <2>2, <3>2, <3>3 DEF EvictOldest, AfterEmpty
  <2>3. CASE EvictedDone(p)
    <3>1. Evicting' = Evicting - 1
      BY <1>1, <2>3, EvictedMove DEF EvictedDone, PutSteps
    <3> QED
      BY <1>1, <1>4, <2>3, <3>1 DEF EvictedDone, counters, TypeOK, PutSteps
  <2>4. CASE PutAgain(p)
    <3>1. Mine(p) \in Packet
      BY <1>2 DEF Mine, HandsFull, TypeOK, Packet
    <3>2. UNCHANGED <<accepted, droppedOldest, droppedNewest, highWater>>
      BY <2>4 DEF PutAgain, counters
    <3>3. PICK b \in {"accept", "refused"} : pc' = [pc EXCEPT ![p] = b]
      BY <2>4 DEF PutAgain, AfterRetry, AfterRefusal
    <3>4. Evicting' = Evicting
      BY <1>1, <2>4, <3>3, EvictedMove DEF PutAgain, PutSteps
    <3>5. CASE ~Full /\ Enqueue(Mine(p)) /\ UNCHANGED lost
      <4>1. queue' \in Seq(Packet) /\ Len(queue') = Len(queue) + 1 /\ unfinished' = unfinished + 1
        BY <3>1, <3>5, AppendProperties DEF Enqueue, TypeOK
      <4> QED
        BY <1>1, <1>4, <3>2, <3>4, <3>5, <4>1, MaxSizeAssumption DEF Full, TypeOK
    <3>6. CASE UNCHANGED <<queue, unfinished>> /\ lost' = lost \cup {Mine(p)}
      BY <1>1, <1>4, <3>1, <3>2, <3>4, <3>6 DEF TypeOK
    <3> QED
      BY <2>4, <3>5, <3>6 DEF PutAgain
  <2> QED
    BY <2>1, <2>2, <2>3, <2>4 DEF PutStep
<1>5. HandsFull' /\ TakenAccounted'
  BY <1>2, <1>3 DEF HandsFull, TakenAccounted, Working, TypeOK
<1>6. UnfinishedExact' /\ unfinished' \in Nat
  <2>1. WorkerHolds \in Nat
    BY DEF WorkerHolds
  <2>2. unfinished = Len(queue) + WorkerHolds + Evicting
    BY DEF UnfinishedExact
  <2>3. unfinished' = Len(queue') + WorkerHolds + Evicting'
    BY <1>1, <1>3, <1>4, <2>1, <2>2
  <2>4. unfinished' \in Nat
    BY <1>3, <1>4, <2>1, <2>3
  <2> QED
    BY <1>2, <2>3, <2>4 DEF UnfinishedExact
<1>7. TypeOK'
  BY <1>2, <1>3, <1>4, <1>6 DEF TypeOK
<1> QED
  BY <1>5, <1>6, <1>7

\* So does the first: put_nowait, or the way into _handle_overflow.
LEMMA PutInv ==
    ASSUME IInv, NEW p \in Producers, Put(p)
    PROVE  IInv'
<1> USE DEF IInv
<1>1. /\ pc \in [Producers -> PutSteps] /\ Len(queue) \in Nat /\ Evicting \in Nat
      /\ unfinished \in Nat /\ offered[p] \in Nat /\ WorkerHolds \in Nat
  BY LenProperties, CountNat, ProducersAssumption, OffersAssumption
     DEF TypeOK, Evicting, WorkerHolds
<1>2. /\ UNCHANGED <<policy, accepted, droppedOldest, droppedNewest, highWater,
                     worker, held, taken, handled, stop, drained, WorkerHolds>>
      /\ pc[p] = "idle" /\ offered[p] < Offers
      /\ offered' = [offered EXCEPT ![p] = offered[p] + 1]
      /\ \E b \in {"accept", "refused", "full"} : pc' = [pc EXCEPT ![p] = b]
  BY DEF Put, counters, consumer, WorkerHolds, Working
<1>3. offered' \in [Producers -> 0 .. Offers] /\ offered'[p] \in 1 .. Offers
  BY <1>1, <1>2, OffersAssumption DEF TypeOK
<1>4. <<p, offered[p] + 1>> \in Packet
  BY <1>1, <1>2, OffersAssumption DEF Packet
<1>5. pc' \in [Producers -> PutSteps] /\ Evicting' = Evicting
  <2>1. PICK b \in {"accept", "refused", "full"} : pc' = [pc EXCEPT ![p] = b]
    BY <1>2
  <2>2. b \in PutSteps /\ b # "evicted"
    BY <2>1 DEF PutSteps
  <2> QED
    BY <1>1, <1>2, <2>1, <2>2, EvictedMove
<1>6. /\ queue' \in Seq(Packet) /\ Len(queue') \in Nat /\ Len(queue') <= MaxSize
      /\ lost' \subseteq Packet
      /\ unfinished' = unfinished + (Len(queue') - Len(queue))
  <2>1. CASE ~Full /\ Enqueue(<<p, offered[p] + 1>>) /\ UNCHANGED lost
    <3>1. queue' \in Seq(Packet) /\ Len(queue') = Len(queue) + 1 /\ unfinished' = unfinished + 1
      BY <1>4, <2>1, AppendProperties DEF Enqueue, TypeOK
    <3> QED
      BY <1>1, <2>1, <3>1, MaxSizeAssumption DEF Full, TypeOK
  <2>2. CASE UNCHANGED <<queue, unfinished>> /\ lost' \in {lost, lost \cup {<<p, offered[p] + 1>>}}
    <3>1. lost' \subseteq Packet
      BY <1>4, <2>2 DEF TypeOK
    <3> QED
      BY <1>1, <2>2, <3>1 DEF TypeOK
  <2> QED
    BY <2>1, <2>2 DEF Put
<1>7. HandsFull' /\ TakenAccounted'
  <2>1. \A q \in Producers : q # p => pc'[q] = pc[q] /\ offered'[q] = offered[q]
    BY <1>1, <1>2 DEF TypeOK
  <2>2. \A q \in Producers : pc'[q] # "idle" => offered'[q] \in 1 .. Offers
    BY <1>3, <2>1 DEF HandsFull
  <2> QED
    BY <1>2, <2>2 DEF HandsFull, TakenAccounted, Working
<1>8. UnfinishedExact' /\ unfinished' \in Nat
  <2>1. unfinished = Len(queue) + WorkerHolds + Evicting
    BY DEF UnfinishedExact
  <2>2. unfinished' = Len(queue') + WorkerHolds + Evicting
    BY <1>1, <1>6, <2>1
  <2> QED
    BY <1>1, <1>2, <1>5, <1>6, <2>2 DEF UnfinishedExact
<1>9. TypeOK'
  BY <1>2, <1>3, <1>5, <1>6, <1>8 DEF TypeOK
<1> QED
  BY <1>7, <1>8, <1>9

\* The packet worker's steps keep it.
LEMMA WorkerInv ==
    ASSUME IInv, WorkerStep
    PROVE  IInv'
<1> USE DEF IInv
<1>1. /\ Len(queue) \in Nat /\ Evicting \in Nat /\ unfinished \in Nat
      /\ UNCHANGED <<policy, accepted, droppedOldest, droppedNewest, highWater,
                     pc, offered, stop, drained, lost>>
      /\ Evicting' = Evicting
  BY LenProperties, CountNat, ProducersAssumption
     DEF TypeOK, Evicting, WorkerStep, WorkerCheck, WorkerGet, WorkerHandle, WorkerFinish,
         counters, threads
<1>2. CASE WorkerCheck
  <2>1. worker' \in WorkerSteps /\ ~Working /\ ~Working' /\ worker # "busy" /\ worker' # "busy"
    BY <1>2 DEF WorkerCheck, WorkerSteps, Working
  <2>2. UNCHANGED <<queue, unfinished, held, taken, handled>>
    BY <1>2 DEF WorkerCheck
  <2> QED
    BY <1>1, <2>1, <2>2
       DEF TypeOK, UnfinishedExact, WorkerHolds, HandsFull, TakenAccounted
<1>3. CASE WorkerGet
  <2>1. CASE queue = << >> /\ worker' = "check" /\ UNCHANGED <<queue, held, taken>>
    <3>1. ~Working /\ ~Working' /\ UNCHANGED <<unfinished, handled>>
      BY <1>3, <2>1 DEF WorkerGet, Working
    <3> QED
      BY <1>1, <1>3, <2>1, <3>1
         DEF WorkerGet, TypeOK, WorkerSteps, UnfinishedExact, WorkerHolds, HandsFull, TakenAccounted
  <2>2. CASE /\ queue # << >> /\ worker' = "busy" /\ held' = Head(queue)
             /\ taken' = Append(taken, Head(queue)) /\ queue' = Tail(queue)
    <3>1. /\ ~Working /\ Working' /\ worker = "get" /\ worker' \in WorkerSteps
          /\ UNCHANGED <<unfinished, handled>>
      BY <1>3, <2>2 DEF WorkerGet, Working, WorkerSteps
    <3>2. /\ Head(queue) \in Packet /\ queue' \in Seq(Packet)
          /\ Len(queue') = Len(queue) - 1 /\ Len(queue') \in Nat
      BY <2>2, QueueHead, LenProperties DEF TypeOK
    <3>3. taken' \in Seq(Packet) /\ Range(taken') = Range(taken) \cup {held'}
      BY <2>2, <3>2, AppendProperties, RangeAppend DEF TypeOK
    <3>4. TypeOK'
      BY <1>1, <2>2, <3>1, <3>2, <3>3, MaxSizeAssumption DEF TypeOK
    <3>5. UnfinishedExact'
      BY <1>1, <3>1, <3>2 DEF UnfinishedExact, WorkerHolds
    <3>6. HandsFull' /\ TakenAccounted'
      BY <1>1, <2>2, <3>1, <3>2, <3>3 DEF HandsFull, TakenAccounted
    <3> QED
      BY <3>4, <3>5, <3>6
  <2> QED
    BY <1>3, <2>1, <2>2 DEF WorkerGet
<1>4. CASE WorkerHandle
  <2>1. /\ Working /\ Working' /\ worker = "busy" /\ worker' = "finish" /\ worker' \in WorkerSteps
        /\ handled' = handled \cup {held} /\ held \in Packet
        /\ UNCHANGED <<queue, unfinished, held, taken>>
    BY <1>4 DEF WorkerHandle, Working, WorkerSteps, HandsFull
  <2> QED
    BY <1>1, <2>1
       DEF TypeOK, UnfinishedExact, WorkerHolds, HandsFull, TakenAccounted
<1>5. CASE WorkerFinish
  <2>1. /\ Working /\ ~Working' /\ worker = "finish" /\ worker' = "check" /\ worker' \in WorkerSteps
        /\ held' = NoPacket /\ unfinished' = unfinished - 1
        /\ UNCHANGED <<queue, taken, handled>>
    BY <1>5 DEF WorkerFinish, Working, WorkerSteps
  <2>2. unfinished' = Len(queue') + WorkerHolds' + Evicting' /\ unfinished' \in Nat
    BY <1>1, <2>1 DEF UnfinishedExact, WorkerHolds
  <2> QED
    BY <1>1, <2>1, <2>2 DEF TypeOK, UnfinishedExact, HandsFull, TakenAccounted
<1> QED
  BY <1>2, <1>3, <1>4, <1>5 DEF WorkerStep

\* Every step of the queue keeps the strengthened invariant.
LEMMA StepInv == IInv /\ [Next]_vars => IInv'
<1> SUFFICES ASSUME IInv, [Next]_vars PROVE IInv'
  OBVIOUS
<1>1. ASSUME NEW p \in Producers, Put(p) \/ PutStep(p) PROVE IInv'
  BY <1>1, PutInv, PutStepInv
<1>2. CASE WorkerStep
  BY <1>2, WorkerInv
<1>3. CASE Drain \/ RequestStop \/ UNCHANGED vars
  <2>1. /\ UNCHANGED <<policy, queue, unfinished, accepted, droppedOldest, droppedNewest,
                       highWater, pc, offered, worker, held, taken, handled, lost>>
        /\ stop' \in BOOLEAN /\ drained' \in {"unknown", "yes", "no"}
    BY <1>3 DEF Drain, RequestStop, vars, counters, threads, consumer, IInv, TypeOK
  <2> QED
    BY <2>1 DEF IInv, TypeOK, UnfinishedExact, WorkerHolds, Working, Evicting,
                HandsFull, TakenAccounted
<1> QED
  BY <1>1, <1>2, <1>3 DEF Next

\* The strengthened invariant holds in every reachable state of the queue.
THEOREM Invariance == Spec => []IInv
BY InitInv, StepInv, PTL DEF Spec

\* Type correctness of the intake queue, its counters and its threads, for every
\* number of capture threads and every PACKET_QUEUE_MAX_SIZE.
THEOREM TypeCorrect == Spec => []TypeOK
<1>1. IInv => TypeOK
  BY DEF IInv
<1> QED
  BY <1>1, Invariance, PTL

\* wait_until_drained() answers True only when nothing is queued and everything
\* the packet worker took has been handed on.
THEOREM DrainSound == Spec => []DrainedMeansHandled
<1>1. IInv => DrainedMeansHandled
  <2> SUFFICES ASSUME IInv, unfinished = 0
               PROVE  queue = << >> /\ ~Working /\ Range(taken) \subseteq handled
    BY DEF DrainedMeansHandled
  <2>1. Len(queue) \in Nat /\ Evicting \in Nat /\ WorkerHolds \in Nat /\ queue \in Seq(Packet)
    BY LenProperties, CountNat, ProducersAssumption DEF IInv, TypeOK, Evicting, WorkerHolds
  <2>2. Len(queue) = 0 /\ WorkerHolds = 0
    BY <2>1 DEF IInv, UnfinishedExact
  <2>3. queue = << >>
    BY <2>1, <2>2, EmptySeq
  <2>4. ~Working /\ worker # "busy"
    BY <2>2 DEF WorkerHolds, Working
  <2> QED
    BY <2>3, <2>4 DEF IInv, TakenAccounted
<1> QED
  BY <1>1, Invariance, PTL

-----------------------------------------------------------------------------
(* The books of the queue. *)

\* There are finitely many packets, so those lost and those offered can be counted.
LEMMA PacketsFinite == IsFiniteSet(Packet)
<1>1. IsFiniteSet(Producers) /\ IsFiniteSet(1 .. Offers)
  BY ProducersAssumption, OffersAssumption, FS_Interval
<1> QED
  BY <1>1, FS_Product DEF Packet

\* Giving up one more packet raises the number of lost packets by at most one.
LEMMA LosingOne ==
    ASSUME lost \subseteq Packet, NEW x
    PROVE  /\ Cardinality(lost) \in Nat /\ Cardinality(lost \cup {x}) \in Nat
           /\ Cardinality(lost \cup {x}) <= Cardinality(lost) + 1
<1>1. IsFiniteSet(lost)
  BY PacketsFinite, FS_Subset
<1>2. Cardinality(lost) \in Nat
  BY <1>1, FS_CardinalityType
<1>3. Cardinality(lost \cup {x}) = IF x \in lost THEN Cardinality(lost) ELSE Cardinality(lost) + 1
  BY <1>1, FS_AddElement
<1> QED
  BY <1>2, <1>3

\* A packet is given up by a thread that then stands before a counter, and the
\* thread leaves that place only by counting.
LEMMA DropsCounted ==
    ASSUME IInv, NoSilentDrop, [Next]_vars
    PROVE  NoSilentDrop'
<1> DEFINE Before == {"evicted", "count", "refused"}
<1>1. /\ pc \in [Producers -> PutSteps] /\ lost \subseteq Packet
      /\ droppedOldest \in Nat /\ droppedNewest \in Nat
      /\ IsFiniteSet(lost) /\ Cardinality(lost) \in Nat
  BY PacketsFinite, FS_Subset, FS_CardinalityType DEF IInv, TypeOK
<1>2. Cardinality(lost) <= droppedOldest + droppedNewest + Cardinality(InStep(Before))
  BY DEF NoSilentDrop
<1>3. ASSUME NEW p \in Producers, NEW b, pc' = [pc EXCEPT ![p] = b],
             \/ /\ UNCHANGED <<lost, droppedOldest, droppedNewest>>
                /\ pc[p] \in Before => b \in Before
             \/ /\ UNCHANGED <<droppedOldest, droppedNewest>>
                /\ \E x : lost' = lost \cup {x}
                /\ pc[p] \notin Before /\ b \in Before
             \/ /\ UNCHANGED lost
                /\ \/ droppedOldest' = droppedOldest + 1 /\ UNCHANGED droppedNewest
                   \/ droppedNewest' = droppedNewest + 1 /\ UNCHANGED droppedOldest
      PROVE  NoSilentDrop'
  <2> HIDE DEF Before
  <2>1. /\ Cardinality(InStep(Before)) \in Nat /\ Cardinality(InStep(Before)') \in Nat
        /\ pc[p] \notin Before /\ b \in Before
             => Cardinality(InStep(Before)') = Cardinality(InStep(Before)) + 1
        /\ pc[p] \in Before /\ b \notin Before
             => Cardinality(InStep(Before)') = Cardinality(InStep(Before)) - 1
        /\ (pc[p] \in Before <=> b \in Before)
             => Cardinality(InStep(Before)') = Cardinality(InStep(Before))
    BY <1>1, <1>3, ThreadMoves
  <2>2. lost' = lost \/ \E x : lost' = lost \cup {x}
    BY <1>3
  <2>3. Cardinality(lost') \in Nat /\ Cardinality(lost') <= Cardinality(lost) + 1
    <3>1. CASE lost' = lost
      BY <1>1, <3>1
    <3>2. ASSUME NEW x, lost' = lost \cup {x}
          PROVE  Cardinality(lost') \in Nat /\ Cardinality(lost') <= Cardinality(lost) + 1
      BY <1>1, <3>2, LosingOne
    <3> QED
      BY <2>2, <3>1, <3>2
  <2>4. Cardinality(lost') <= droppedOldest' + droppedNewest' + Cardinality(InStep(Before)')
    BY <1>1, <1>2, <1>3, <2>1, <2>3
  <2> QED
    BY <2>4 DEF NoSilentDrop, Before
<1>4. ASSUME NEW p \in Producers, Put(p) PROVE NoSilentDrop'
  BY <1>1, <1>3, <1>4 DEF Put, counters
<1>5. ASSUME NEW p \in Producers, PutStep(p) PROVE NoSilentDrop'
  <2>1. CASE RecordAccepted(p) \/ CountNewest(p) \/ CountOldest(p)
    BY <1>1, <1>3, <2>1 DEF RecordAccepted, CountNewest, CountOldest
  <2>2. CASE EvictOldest(p) \/ EvictedDone(p)
    BY <1>1, <1>3, <2>2 DEF EvictOldest, EvictedDone, AfterEmpty, counters
  <2>3. CASE PutAgain(p)
    BY <1>1, <1>3, <2>3 DEF PutAgain, AfterRetry, AfterRefusal, counters
  <2> QED
    BY <1>5, <2>1, <2>2, <2>3 DEF PutStep
<1>6. CASE WorkerStep \/ Drain \/ RequestStop \/ UNCHANGED vars
  <2>1. UNCHANGED <<pc, lost, droppedOldest, droppedNewest>>
    BY <1>6 DEF WorkerStep, WorkerCheck, WorkerGet, WorkerHandle, WorkerFinish, Drain,
                RequestStop, vars, counters, threads
  <2> QED
    BY <2>1 DEF NoSilentDrop, InStep
<1> QED
  BY <1>4, <1>5, <1>6 DEF Next

\* The packets offered so far.
Given == {x \in Packet : x[2] <= offered[x[1]]}

\* put() adds one packet to them, and counts it before it returns.
LEMMA PutsCounted ==
    ASSUME IInv, PutCountedOnce, [Next]_vars
    PROVE  PutCountedOnce'
<1> DEFINE Inside == PutSteps \ {"idle"}
<1>1. /\ pc \in [Producers -> PutSteps] /\ accepted \in Nat /\ droppedNewest \in Nat
      /\ offered \in [Producers -> 0 .. Offers]
      /\ IsFiniteSet(Given) /\ Cardinality(Given) \in Nat
  <2>1. Given \subseteq Packet
    BY DEF Given
  <2> QED
    BY <2>1, PacketsFinite, FS_Subset, FS_CardinalityType DEF IInv, TypeOK
<1>2. Cardinality(Given) = accepted + droppedNewest + Cardinality(InStep(Inside))
  BY DEF PutCountedOnce, Given
<1>3. ASSUME NEW p \in Producers, NEW b, pc' = [pc EXCEPT ![p] = b],
             Cardinality(Given') \in Nat,
             \/ /\ Cardinality(Given') = Cardinality(Given)
                /\ UNCHANGED <<accepted, droppedNewest>>
                /\ pc[p] \in Inside /\ b \in Inside
             \/ /\ Cardinality(Given') = Cardinality(Given) + 1
                /\ UNCHANGED <<accepted, droppedNewest>>
                /\ pc[p] \notin Inside /\ b \in Inside
             \/ /\ Cardinality(Given') = Cardinality(Given)
                /\ \/ accepted' = accepted + 1 /\ UNCHANGED droppedNewest
                   \/ droppedNewest' = droppedNewest + 1 /\ UNCHANGED accepted
                /\ pc[p] \in Inside /\ b \notin Inside
      PROVE  PutCountedOnce'
  <2> HIDE DEF Inside
  <2>1. /\ Cardinality(InStep(Inside)) \in Nat /\ Cardinality(InStep(Inside)') \in Nat
        /\ pc[p] \notin Inside /\ b \in Inside
             => Cardinality(InStep(Inside)') = Cardinality(InStep(Inside)) + 1
        /\ pc[p] \in Inside /\ b \notin Inside
             => Cardinality(InStep(Inside)') = Cardinality(InStep(Inside)) - 1
        /\ (pc[p] \in Inside <=> b \in Inside)
             => Cardinality(InStep(Inside)') = Cardinality(InStep(Inside))
    <3>1. Inside' = Inside
      BY DEF Inside, PutSteps
    <3> QED
      BY <1>1, <1>3, <3>1, ThreadMoves DEF InStep
  <2>2. Cardinality(Given') = accepted' + droppedNewest' + Cardinality(InStep(Inside)')
    BY <1>1, <1>2, <1>3, <2>1
  <2> QED
    BY <2>2 DEF PutCountedOnce, Given, Inside
<1>4. ASSUME NEW p \in Producers, Put(p) PROVE PutCountedOnce'
  <2>1. /\ offered[p] \in Nat /\ offered[p] < Offers
        /\ offered' = [offered EXCEPT ![p] = offered[p] + 1]
    BY <1>1, <1>4, OffersAssumption DEF Put
  <2>2. /\ <<p, offered[p] + 1>> \in Packet /\ <<p, offered[p] + 1>> \notin Given
        /\ Given' = Given \cup {<<p, offered[p] + 1>>}
    <3>1. <<p, offered[p] + 1>> \in Packet /\ <<p, offered[p] + 1>> \notin Given
      BY <2>1, OffersAssumption DEF Packet, Given
    <3>2. ASSUME NEW x \in Packet
          PROVE  x[2] <= offered'[x[1]] <=> x[2] <= offered[x[1]] \/ x = <<p, offered[p] + 1>>
      <4>1. PICK q \in Producers, n \in 1 .. Offers : x = <<q, n>>
        BY DEF Packet
      <4>2. CASE q = p
        BY <1>1, <2>1, <4>1, <4>2, OffersAssumption
      <4>3. CASE q # p
        BY <1>1, <2>1, <4>1, <4>3, OffersAssumption
      <4> QED
        BY <4>2, <4>3
    <3> QED
      BY <3>1, <3>2 DEF Given
  <2>3. Cardinality(Given') = Cardinality(Given) + 1
    BY <1>1, <2>2, FS_AddElement
  <2>4. PICK b \in {"accept", "refused", "full"} : pc' = [pc EXCEPT ![p] = b]
    BY <1>4 DEF Put
  <2>5. pc[p] \notin Inside /\ b \in Inside /\ UNCHANGED <<accepted, droppedNewest>>
    BY <1>4, <2>4 DEF Put, counters, PutSteps
  <2>6. Cardinality(Given') \in Nat
    BY <1>1, <2>3
  <2> HIDE DEF Inside, Given
  <2> QED
    BY <1>3, <2>3, <2>4, <2>5, <2>6
<1>5. ASSUME NEW p \in Producers, PutStep(p) PROVE PutCountedOnce'
  <2>1. UNCHANGED offered
    BY <1>5 DEF PutStep, RecordAccepted, CountNewest, CountOldest, EvictOldest,
                EvictedDone, PutAgain
  <2>2. Given' = Given /\ Cardinality(Given') = Cardinality(Given)
    BY <2>1 DEF Given
  <2>3. pc[p] \in PutSteps
    BY <1>1
  <2>4. CASE RecordAccepted(p) \/ CountNewest(p) \/ CountOldest(p)
    BY <1>1, <1>3, <2>2, <2>3, <2>4 DEF RecordAccepted, CountNewest, CountOldest, PutSteps
  <2>5. CASE EvictOldest(p) \/ EvictedDone(p)
    BY <1>1, <1>3, <2>2, <2>3, <2>5 DEF EvictOldest, EvictedDone, AfterEmpty, counters, PutSteps
  <2>6. CASE PutAgain(p)
    BY <1>1, <1>3, <2>2, <2>3, <2>6 DEF PutAgain, AfterRetry, AfterRefusal, counters, PutSteps
  <2> QED
    BY <1>5, <2>4, <2>5, <2>6 DEF PutStep
<1>6. CASE WorkerStep \/ Drain \/ RequestStop \/ UNCHANGED vars
  <2>1. UNCHANGED <<pc, offered, accepted, droppedNewest>>
    BY <1>6 DEF WorkerStep, WorkerCheck, WorkerGet, WorkerHandle, WorkerFinish, Drain,
                RequestStop, vars, counters, threads
  <2> QED
    BY <2>1 DEF PutCountedOnce, InStep, PutSteps
<1> QED
  BY <1>4, <1>5, <1>6 DEF Next

\* The books balance before the first packet.
LEMMA BooksInit == Init => NoSilentDrop /\ PutCountedOnce
<1> SUFFICES ASSUME Init PROVE NoSilentDrop /\ PutCountedOnce
  OBVIOUS
<1>1. InStep({"evicted", "count", "refused"}) = {} /\ InStep(PutSteps \ {"idle"}) = {}
  BY DEF Init, InStep
<1>2. Cardinality({}) = 0
  BY FS_EmptySet
<1>3. Given = {}
  BY OffersAssumption DEF Init, Given, Packet
<1>4. lost = {} /\ accepted = 0 /\ droppedOldest = 0 /\ droppedNewest = 0
  BY DEF Init
<1>5. NoSilentDrop
  BY <1>1, <1>2, <1>4 DEF NoSilentDrop
<1>6. PutCountedOnce
  <2>1. Cardinality(Given) = accepted + droppedNewest + Cardinality(InStep(PutSteps \ {"idle"}))
    BY <1>1, <1>2, <1>3, <1>4
  <2> QED
    BY <2>1 DEF PutCountedOnce, Given
<1> QED
  BY <1>5, <1>6

\* No drop is silent and every put() is counted once, for every number of capture
\* threads, every queue size and either policy.
THEOREM BooksBalance == Spec => []PutsAccounted
<1>1. IInv /\ NoSilentDrop /\ PutCountedOnce /\ [Next]_vars
        => IInv' /\ NoSilentDrop' /\ PutCountedOnce'
  BY StepInv, DropsCounted, PutsCounted
<1>2. IInv /\ NoSilentDrop /\ PutCountedOnce => PutsAccounted
  BY DEF IInv, PutsAccounted
<1> QED
  BY <1>1, <1>2, InitInv, BooksInit, PTL DEF Spec

-----------------------------------------------------------------------------
(* The queue implements the lossy FIFO. *)

Known == Range(queue) \cup Range(taken) \cup lost
Unput == {"full", "evicted", "count", "retry"}

\* Only packets that were offered are in the queue, taken or lost, and the one a
\* thread is still trying to put is not among them.
Fresh ==
    /\ \A x \in Known : x[2] <= offered[x[1]]
    /\ \A p \in Producers : pc[p] \in Unput => Mine(p) \notin Known

\* What is known are packets.
LEMMA KnownPackets ==
    ASSUME IInv
    PROVE  Known \subseteq Packet
<1>1. queue \in Seq(Packet) /\ taken \in Seq(Packet) /\ lost \subseteq Packet
  BY DEF IInv, TypeOK
<1>2. ASSUME NEW s \in Seq(Packet) PROVE Range(s) \subseteq Packet
  BY ElementOfSeq, LenProperties DEF Range
<1> QED
  BY <1>1, <1>2 DEF Known

\* What putting a packet, taking one and giving one up do to the known packets.
LEMMA KnownMoves ==
    ASSUME IInv
    PROVE  /\ \A x \in Packet : /\ Enqueue(x) /\ UNCHANGED <<taken, lost>>
                                   => Known' = Known \cup {x}
                                /\ lost' = lost \cup {x} /\ UNCHANGED <<queue, taken>>
                                   => Known' = Known \cup {x}
           /\ /\ queue # << >> /\ queue' = Tail(queue)
              /\ \/ lost' = lost \cup {Head(queue)} /\ UNCHANGED taken
                 \/ taken' = Append(taken, Head(queue)) /\ UNCHANGED lost
              => Known' = Known
<1>1. queue \in Seq(Packet) /\ taken \in Seq(Packet)
  BY DEF IInv, TypeOK
<1>2. ASSUME NEW x \in Packet, Enqueue(x), UNCHANGED <<taken, lost>>
      PROVE  Known' = Known \cup {x}
  <2>1. Range(queue') = Range(queue) \cup {x}
    BY <1>1, <1>2, RangeAppend DEF Enqueue
  <2> QED
    BY <1>2, <2>1 DEF Known
<1>3. ASSUME NEW x \in Packet, lost' = lost \cup {x}, UNCHANGED <<queue, taken>>
      PROVE  Known' = Known \cup {x}
  BY <1>3 DEF Known
<1>4. ASSUME queue # << >>, queue' = Tail(queue),
             \/ lost' = lost \cup {Head(queue)} /\ UNCHANGED taken
             \/ taken' = Append(taken, Head(queue)) /\ UNCHANGED lost
      PROVE  Known' = Known
  <2>1. Range(queue) = {Head(queue)} \cup Range(queue') /\ Head(queue) \in Packet
    BY <1>1, <1>4, RangeTail, QueueHead
  <2>2. taken' = Append(taken, Head(queue)) => Range(taken') = Range(taken) \cup {Head(queue)}
    BY <1>1, <2>1, RangeAppend
  <2> QED
    BY <1>4, <2>1, <2>2 DEF Known
<1> QED
  BY <1>2, <1>3, <1>4

\* The packet a put() is about is new to the channel until the put() places it or
\* gives it up: its number has not been used, and the thread has not placed it yet.
LEMMA NewPackets ==
    ASSUME IInv, Fresh, NEW p \in Producers
    PROVE  /\ Put(p) => <<p, offered[p] + 1>> \in Packet \ Known
           /\ PutAgain(p) => Mine(p) \in Packet \ Known
<1>1. offered[p] \in Nat /\ (Put(p) => offered[p] < Offers)
  BY OffersAssumption DEF IInv, TypeOK, Put
<1>2. ASSUME Put(p) PROVE <<p, offered[p] + 1>> \in Packet \ Known
  BY <1>1, <1>2, OffersAssumption DEF Fresh, Packet
<1>3. ASSUME PutAgain(p) PROVE Mine(p) \in Packet \ Known
  BY <1>3 DEF PutAgain, Fresh, Unput, IInv, HandsFull, Mine, Packet
<1> QED
  BY <1>2, <1>3

\* Every step keeps what is known behind what was offered.
LEMMA FreshStep ==
    ASSUME IInv, Fresh, [Next]_vars
    PROVE  Fresh'
<1>1. /\ pc \in [Producers -> PutSteps] /\ offered \in [Producers -> 0 .. Offers]
      /\ Known \subseteq Packet
  BY KnownPackets DEF IInv, TypeOK
<1>2. ASSUME NEW p \in Producers, Put(p) PROVE Fresh'
  <2> DEFINE x == <<p, offered[p] + 1>>
  <2>1. PICK b \in {"accept", "refused", "full"} :
            /\ pc' = [pc EXCEPT ![p] = b]
            /\ (Known' = Known \cup {x} /\ b # "full") \/ Known' = Known
    <3>1. x \in Packet
      BY <1>2, NewPackets
    <3>2. CASE Enqueue(x) /\ pc' = [pc EXCEPT ![p] = "accept"] /\ UNCHANGED lost
      BY <1>2, <3>1, <3>2, KnownMoves DEF Put, consumer
    <3>3. CASE /\ pc' = [pc EXCEPT ![p] = "refused"]
               /\ lost' = lost \cup {x} /\ UNCHANGED <<queue, unfinished>>
      BY <1>2, <3>1, <3>3, KnownMoves DEF Put, consumer
    <3>4. CASE pc' = [pc EXCEPT ![p] = "full"] /\ UNCHANGED <<queue, unfinished, lost>>
      BY <1>2, <3>4 DEF Put, consumer, Known
    <3> QED
      BY <1>2, <3>2, <3>3, <3>4 DEF Put
  <2>2. offered' = [offered EXCEPT ![p] = offered[p] + 1] /\ offered[p] \in Nat
    BY <1>1, <1>2, OffersAssumption DEF Put
  <2>3. ASSUME NEW y \in Known' PROVE y[2] <= offered'[y[1]]
    <3>1. CASE y = x
      BY <1>1, <2>2, <3>1
    <3>2. CASE y \in Known
      <4>1. PICK q \in Producers, n \in 1 .. Offers : y = <<q, n>>
        BY <1>1, <3>2 DEF Packet
      <4>2. n <= offered[q] /\ offered[q] \in Nat /\ n \in Nat
        BY <1>1, <3>2, <4>1, OffersAssumption DEF Fresh
      <4>3. offered'[q] = offered[q] \/ offered'[q] = offered[q] + 1
        BY <1>1, <2>2
      <4> QED
        BY <4>1, <4>2, <4>3
    <3> QED
      BY <2>1, <3>1, <3>2
  <2>4. ASSUME NEW q \in Producers, pc'[q] \in Unput PROVE Mine(q)' \notin Known'
    <3>1. CASE q = p
      <4>1. pc'[p] = b
        BY <1>1, <2>1
      <4>2. b = "full"
        BY <2>1, <2>4, <3>1, <4>1 DEF Unput
      <4>3. Mine(p)' = x /\ x \notin Known
        BY <1>1, <1>2, <2>2, NewPackets DEF Mine
      <4> QED
        BY <2>1, <3>1, <4>2, <4>3
    <3>2. CASE q # p
      <4>1. pc'[q] = pc[q] /\ offered'[q] = offered[q]
        BY <1>1, <2>1, <2>2, <3>2
      <4>2. Mine(q)' = Mine(q) /\ Mine(q) \notin Known /\ Mine(q) # x
        BY <2>4, <3>2, <4>1 DEF Mine, Fresh
      <4> QED
        BY <2>1, <4>2
    <3> QED
      BY <3>1, <3>2
  <2> QED
    BY <2>3, <2>4 DEF Fresh
<1>3. ASSUME NEW p \in Producers, PutAgain(p) PROVE Fresh'
  <2>1. UNCHANGED offered /\ Mine(p) \in Packet \ Known /\ pc[p] = "retry"
    BY <1>3, NewPackets DEF PutAgain
  <2>2. Known' = Known \cup {Mine(p)}
    BY <1>3, <2>1, KnownMoves DEF PutAgain, consumer
  <2>3. PICK b \in {"accept", "refused"} : pc' = [pc EXCEPT ![p] = b]
    BY <1>3 DEF PutAgain, AfterRetry, AfterRefusal
  <2>4. Mine(p)[2] <= offered[Mine(p)[1]]
    BY <1>1, OffersAssumption DEF Mine
  <2>5. ASSUME NEW q \in Producers, pc'[q] \in Unput
        PROVE  q # p /\ pc[q] \in Unput /\ Mine(q)' = Mine(q) /\ Mine(q) # Mine(p)
    BY <1>1, <2>1, <2>3, <2>5 DEF Unput, Mine
  <2> QED
    BY <2>1, <2>2, <2>4, <2>5 DEF Fresh
<1>4. ASSUME UNCHANGED offered, Known' = Known,
             \A q \in Producers : pc'[q] \in Unput => pc[q] \in Unput
      PROVE  Fresh'
  BY <1>4 DEF Fresh, Mine
<1>5. ASSUME NEW p \in Producers, PutStep(p), ~PutAgain(p) PROVE Fresh'
  <2>1. UNCHANGED offered
    BY <1>5 DEF PutStep, RecordAccepted, CountNewest, CountOldest, EvictOldest, EvictedDone
  <2>2. Known' = Known
    <3>1. CASE RecordAccepted(p) \/ CountNewest(p) \/ CountOldest(p) \/ EvictedDone(p)
      BY <3>1 DEF RecordAccepted, CountNewest, CountOldest, EvictedDone, consumer, Known
    <3>2. CASE EvictOldest(p)
      <4>1. CASE queue # << >> /\ queue' = Tail(queue) /\ lost' = lost \cup {Head(queue)}
        BY <3>2, <4>1, KnownMoves DEF EvictOldest, consumer
      <4>2. CASE UNCHANGED <<queue, lost>>
        BY <3>2, <4>2 DEF EvictOldest, consumer, Known
      <4> QED
        BY <3>2, <4>1, <4>2 DEF EvictOldest
    <3> QED
      BY <1>5, <3>1, <3>2 DEF PutStep
  <2>3. pc[p] \in Unput \/ pc'[p] \notin Unput
    BY <1>1, <1>5 DEF PutStep, RecordAccepted, CountNewest, CountOldest, EvictOldest,
                      EvictedDone, Unput
  <2>4. \A q \in Producers : q # p => pc'[q] = pc[q]
    BY <1>1, <1>5 DEF PutStep, RecordAccepted, CountNewest, CountOldest, EvictOldest, EvictedDone
  <2> QED
    BY <1>4, <2>1, <2>2, <2>3, <2>4
<1>6. CASE WorkerStep
  <2>1. UNCHANGED <<pc, offered>>
    BY <1>6 DEF WorkerStep, WorkerCheck, WorkerGet, WorkerHandle, WorkerFinish, threads
  <2>2. Known' = Known
    <3>1. CASE WorkerCheck \/ WorkerHandle \/ WorkerFinish
      BY <3>1 DEF WorkerCheck, WorkerHandle, WorkerFinish, Known
    <3>2. CASE WorkerGet
      <4>1. CASE /\ queue # << >> /\ queue' = Tail(queue)
                 /\ taken' = Append(taken, Head(queue))
        BY <3>2, <4>1, KnownMoves DEF WorkerGet
      <4>2. CASE UNCHANGED <<queue, taken>>
        BY <3>2, <4>2 DEF WorkerGet, Known
      <4> QED
        BY <3>2, <4>1, <4>2 DEF WorkerGet
    <3> QED
      BY <1>6, <3>1, <3>2 DEF WorkerStep
  <2> QED
    BY <1>4, <2>1, <2>2
<1>7. CASE Drain \/ RequestStop \/ UNCHANGED vars
  <2>1. UNCHANGED <<pc, offered, queue, taken, lost>>
    BY <1>7 DEF Drain, RequestStop, vars, threads, consumer
  <2> QED
    BY <1>4, <2>1 DEF Known
<1> QED
  BY <1>2, <1>3, <1>5, <1>6, <1>7 DEF Next

\* Every step of the queue is a step of the lossy FIFO or changes nothing of it.
LEMMA ChannelStep ==
    ASSUME IInv, Fresh, [Next]_vars
    PROVE  [LossyChannel!Next]_(LossyChannel!vars)
<1> USE DEF LossyChannel!Next, LossyChannel!vars
<1>1. LossyChannel!Known = Known
  BY DEF LossyChannel!Known, Known, LossyChannel!Range, Range
<1>2. ASSUME NEW p \in Producers, Put(p)
      PROVE  [LossyChannel!Next]_(LossyChannel!vars)
  <2>1. <<p, offered[p] + 1>> \in Packet \ Known /\ UNCHANGED taken
    BY <1>2, NewPackets DEF Put, consumer
  <2> QED
    BY <1>1, <1>2, <2>1
       DEF Put, Enqueue, LossyChannel!Send, LossyChannel!RefuseNewest
<1>3. ASSUME NEW p \in Producers, PutStep(p)
      PROVE  [LossyChannel!Next]_(LossyChannel!vars)
  <2>1. CASE RecordAccepted(p) \/ CountNewest(p) \/ CountOldest(p) \/ EvictedDone(p)
    BY <2>1 DEF RecordAccepted, CountNewest, CountOldest, EvictedDone, consumer
  <2>2. CASE EvictOldest(p)
    BY <2>2 DEF EvictOldest, consumer, LossyChannel!LoseOldest
  <2>3. CASE PutAgain(p)
    <3>1. Mine(p) \in Packet \ Known /\ UNCHANGED taken
      BY <2>3, NewPackets DEF PutAgain, consumer
    <3> QED
      BY <1>1, <2>3, <3>1
         DEF PutAgain, Enqueue, LossyChannel!Send, LossyChannel!RefuseNewest
  <2> QED
    BY <1>3, <2>1, <2>2, <2>3 DEF PutStep
<1>4. CASE WorkerStep
  BY <1>4 DEF WorkerStep, WorkerCheck, WorkerGet, WorkerHandle, WorkerFinish, LossyChannel!Take
<1>5. CASE Drain \/ RequestStop \/ UNCHANGED vars
  BY <1>5 DEF Drain, RequestStop, vars, consumer
<1> QED
  BY <1>2, <1>3, <1>4, <1>5 DEF Next

\* The intake queue implements the lossy FIFO: a packet comes out once, in the order
\* in which it went in, or was given up at one end, however the threads interleave.
THEOREM QueueIsLossyFifo == Spec => ImplementsLossyFifo
<1>1. Init => LossyChannel!Init
  BY DEF Init, LossyChannel!Init
<1>2. Init => Fresh
  <2>1. Init => Known = {}
    BY DEF Init, Known, Range
  <2> QED
    BY <2>1 DEF Init, Fresh, Unput
<1>3. IInv /\ Fresh /\ [Next]_vars => IInv' /\ Fresh' /\ [LossyChannel!Next]_(LossyChannel!vars)
  BY StepInv, FreshStep, ChannelStep
<1> QED
  BY <1>1, <1>2, <1>3, InitInv, PTL DEF Spec, ImplementsLossyFifo, LossyChannel!Spec
=============================================================================
