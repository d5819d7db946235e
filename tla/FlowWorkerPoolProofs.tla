------------------------ MODULE FlowWorkerPoolProofs ------------------------
(***************************************************************************)
(* FlowWorkerPool for every number of submitting threads and lanes, every  *)
(* capacity, hash and traffic: its types, the answer of close(), the books *)
(* of its jobs, the order within a conversation, and that every lane       *)
(* implements the lossy FIFO.                                              *)
(***************************************************************************)
EXTENDS FlowWorkerPool, QueueLemmas

\* A lane's unfinished_tasks is exactly what is queued in it, what its thread
\* holds, and what a submitter evicted from it and has not reported done yet.
Busy == {"busy", "done", "finish"}
EvictedFrom == [s \in Submitters |-> IF pc[s] = "evicted" THEN MyLane(s) ELSE WorkerCount]
Evicting(w) == HowMany(Submitters, EvictedFrom, {w})
WorkerHolds(w) == IF worker[w] \in Busy THEN 1 ELSE 0
Outstanding(w) == unfinished[w] - (Len(queue[w]) + Evicting(w))
UnfinishedExact == \A w \in Lanes : Outstanding(w) = WorkerHolds(w)

\* A thread inside submit() has a job, and a lane's thread has one while it works.
HandsFull ==
    /\ \A s \in Submitters : pc[s] # "idle" => sent[s] >= 1
    /\ \A w \in Lanes : worker[w] \in Busy => held[w] \in Job

\* The inductive invariant: TypeOK alone does not keep unfinished_tasks natural.
IInv == TypeOK /\ UnfinishedExact /\ HandsFull

\* The lanes are finitely many, and each has room for a natural number of jobs.
LEMMA LanesSound ==
    /\ IsFiniteSet(Lanes)
    /\ Lanes \subseteq Nat
    /\ WorkerCount \notin Lanes
    /\ \A w \in Lanes : Capacity(w) \in Nat
<1>1. WorkerCount \in Nat /\ WorkerCount >= 1 /\ QueueMax \in Nat
  BY CapacityAssumption
<1>2. IsFiniteSet(Lanes)
  BY <1>1, FS_Interval DEF Lanes
<1>3. QueueMax \div WorkerCount \in Nat
  BY <1>1
<1> QED
  BY <1>1, <1>2, <1>3 DEF Lanes, Capacity

\* The job a thread is submitting and the lane it goes to are well defined.
LEMMA MineSound ==
    ASSUME IInv, NEW s \in Submitters, pc[s] # "idle"
    PROVE  Mine(s) \in Job /\ MyLane(s) \in Lanes /\ Mine(s).by = s /\ Mine(s).n = sent[s]
<1>1. traffic[s] \in Seq(Packets) /\ Len(traffic[s]) <= Jobs /\ Jobs \in Nat
  BY TrafficsAssumption DEF IInv, TypeOK
<1>2. sent[s] \in 1 .. Len(traffic[s]) /\ Len(traffic[s]) \in Nat
  BY <1>1, LenProperties DEF IInv, TypeOK, HandsFull
<1>3. traffic[s][sent[s]] \in Packets
  BY <1>1, <1>2, ElementOfSeq
<1>4. sent[s] \in 1 .. Jobs
  BY <1>1, <1>2
<1> QED
  BY <1>3, <1>4, HashAssumption DEF Mine, Job, MyLane

\* An empty pool satisfies the invariant.
LEMMA InitInv == Init => IInv
<1> SUFFICES ASSUME Init PROVE IInv
  OBVIOUS
<1>1. /\ queue = [w \in Lanes |-> << >>] /\ unfinished = [w \in Lanes |-> 0]
      /\ worker = [w \in Lanes |-> IF enabled THEN "check" ELSE "off"]
      /\ held = [w \in Lanes |-> NoJob]
      /\ taken = [w \in Lanes |-> << >>] /\ lost = [w \in Lanes |-> {}]
      /\ pc = [s \in Submitters |-> "idle"] /\ sent = [s \in Submitters |-> 0]
  BY DEF Init
<1>2. << >> \in Seq(Job) /\ Len(<< >>) = 0
  BY EmptySeq
<1>3. TypeOK
  <2>1. queue \in [Lanes -> Seq(Job)] /\ taken \in [Lanes -> Seq(Job)]
    BY <1>1, <1>2
  <2>2. \A w \in Lanes : Len(queue[w]) <= Capacity(w)
    BY <1>1, <1>2, LanesSound
  <2>3. /\ unfinished \in [Lanes -> Nat] /\ worker \in [Lanes -> WorkerSteps]
        /\ held \in [Lanes -> Job \cup {NoJob}] /\ lost \in [Lanes -> SUBSET Job]
    BY <1>1 DEF WorkerSteps
  <2>4. /\ pc \in [Submitters -> SubmitSteps] /\ sent \in [Submitters -> Nat]
    BY <1>1 DEF SubmitSteps
  <2>5. \A s \in Submitters : sent[s] <= Len(traffic[s])
    BY <1>1, TrafficsAssumption, LenProperties DEF Init
  <2>6. /\ traffic \in Traffics /\ policy \in Policies /\ enabled \in Modes
        /\ accepting \in BOOLEAN /\ stop \in BOOLEAN
        /\ closer = "open" /\ scanned \subseteq Lanes /\ drained = "unknown"
        /\ early \subseteq Job
    BY DEF Init
  <2>7. {received, processed, failed, dropped, rejected} = {0}
    BY DEF Init
  <2>8. {0} \subseteq Nat
    OBVIOUS
  <2> QED
    BY <2>1, <2>2, <2>3, <2>4, <2>5, <2>6, <2>7, <2>8, Zenon DEF TypeOK
<1>4. UnfinishedExact
  <2>1. ASSUME NEW w \in Lanes PROVE Evicting(w) = 0
    <3>1. WorkerCount \notin {w} /\ \A s \in Submitters : EvictedFrom[s] = WorkerCount
      BY <1>1, LanesSound DEF EvictedFrom
    <3>2. Standing(Submitters, EvictedFrom, {w}) = {}
      BY <3>1 DEF Standing
    <3> QED
      BY <3>2, FS_EmptySet DEF Evicting, HowMany
  <2>2. ASSUME NEW w \in Lanes
        PROVE  Len(queue[w]) = 0 /\ WorkerHolds(w) = 0 /\ unfinished[w] = 0
    BY <1>1, <1>2 DEF WorkerHolds, Busy
  <2> QED
    BY <2>1, <2>2 DEF UnfinishedExact, Outstanding
<1>5. HandsFull
  BY <1>1 DEF HandsFull, Busy
<1> QED
  BY <1>3, <1>4, <1>5 DEF IInv

\* A submitter that moves changes the number of unreported evictions of a lane only
\* by reaching or leaving the place between that lane's get_nowait and task_done.
LEMMA EvictedCount ==
    ASSUME NEW s \in Submitters, NEW w \in Lanes, UNCHANGED traffic,
           \A t \in Submitters : t # s => pc'[t] = pc[t] /\ sent'[t] = sent[t]
    PROVE  /\ Evicting(w) \in Nat /\ Evicting(w)' \in Nat
           /\ pc[s] # "evicted" /\ pc'[s] # "evicted" => Evicting(w)' = Evicting(w)
           /\ pc[s] # "evicted" /\ pc'[s] = "evicted" /\ sent'[s] = sent[s]
                => Evicting(w)' = Evicting(w) + (IF w = MyLane(s) THEN 1 ELSE 0)
           /\ pc[s] = "evicted" /\ pc'[s] # "evicted"
                => Evicting(w)' = Evicting(w) - (IF w = MyLane(s) THEN 1 ELSE 0)
<1>1. IsFiniteSet(Submitters) /\ w # WorkerCount
  BY SubmittersAssumption, LanesSound
<1>2. \A t \in Submitters : t # s => EvictedFrom'[t] = EvictedFrom[t]
  BY DEF EvictedFrom, MyLane, Mine
<1>3. /\ EvictedFrom[s] \in {w} <=> pc[s] = "evicted" /\ w = MyLane(s)
      /\ EvictedFrom'[s] \in {w} <=> pc'[s] = "evicted" /\ w = MyLane(s)'
      /\ sent'[s] = sent[s] => MyLane(s)' = MyLane(s)
  BY <1>1 DEF EvictedFrom, MyLane, Mine
<1> DEFINE S == {w}
<1>4. /\ Evicting(w) = HowMany(Submitters, EvictedFrom, S)
      /\ Evicting(w)' = HowMany(Submitters, EvictedFrom', S)
  BY DEF Evicting
<1>5. /\ EvictedFrom[s] \in S <=> pc[s] = "evicted" /\ w = MyLane(s)
      /\ EvictedFrom'[s] \in S <=> pc'[s] = "evicted" /\ w = MyLane(s)'
  BY <1>3
<1> HIDE DEF S
<1>6. Evicting(w) \in Nat /\ Evicting(w)' \in Nat
  BY <1>1, <1>4, CountNat
<1>7. EvictedFrom[s] \notin S /\ EvictedFrom'[s] \in S
        => HowMany(Submitters, EvictedFrom', S) = HowMany(Submitters, EvictedFrom, S) + 1
  BY <1>1, <1>2, CountUp, SMTT(40)
<1>8. ASSUME EvictedFrom[s] \in S, EvictedFrom'[s] \notin S
      PROVE  HowMany(Submitters, EvictedFrom', S) = HowMany(Submitters, EvictedFrom, S) - 1
  <2>1. PICK at, after : at = EvictedFrom /\ after = EvictedFrom'
    OBVIOUS
  <2>2. /\ \A t \in Submitters : t # s => after[t] = at[t]
        /\ at[s] \in S /\ after[s] \notin S
    BY <1>2, <1>8, <2>1
  <2>3. HowMany(Submitters, after, S) = HowMany(Submitters, at, S) - 1
    BY <1>1, <2>2, CountDown, SMTT(40)
  <2> QED
    BY <2>1, <2>3
<1>9. EvictedFrom[s] \notin S /\ EvictedFrom'[s] \notin S
        => HowMany(Submitters, EvictedFrom', S) = HowMany(Submitters, EvictedFrom, S)
  BY <1>2, CountSame
<1> QED
  BY <1>3, <1>4, <1>5, <1>6, <1>7, <1>8, <1>9

\* What the head and the tail of a lane that is not empty are.
LEMMA LaneHead ==
    ASSUME IInv, NEW w \in Lanes, queue[w] # << >>
    PROVE  /\ Head(queue[w]) \in Job
           /\ Tail(queue[w]) \in Seq(Job)
           /\ Len(Tail(queue[w])) = Len(queue[w]) - 1
           /\ Len(queue[w]) \in Nat
<1>1. queue[w] \in Seq(Job)
  BY DEF IInv, TypeOK
<1> QED
  BY <1>1, HeadTailProperties, LenProperties

\* So what is unfinished is what is queued, held and not reported after a step too.
LEMMA Reported ==
    ASSUME NEW w \in Lanes, NEW h \in Nat, Len(queue'[w]) \in Nat, Evicting(w)' \in Nat,
           unfinished'[w] \in Int, Outstanding(w)' = h
    PROVE  unfinished'[w] \in Nat
BY DEF Outstanding

\* A step that changes the lanes' queues, the evictions and unfinished_tasks together
\* keeps the invariant, and so does one that leaves them alone.
LEMMA SubmitterKeeps ==
    ASSUME IInv, NEW s \in Submitters, NEW b \in SubmitSteps,
           UNCHANGED <<traffic, policy, enabled, worker, held, taken, accepting, stop, closer,
                       scanned, drained>>,
           pc' = [pc EXCEPT ![s] = b],
           sent' \in [Submitters -> Nat],
           \A t \in Submitters : sent'[t] <= Len(traffic[t]) /\ sent'[t] >= sent[t],
           pc[s] = "idle" => sent'[s] >= 1,
           {received, processed, failed, dropped, rejected}' \subseteq Nat,
           queue' \in [Lanes -> Seq(Job)], \A w \in Lanes : Len(queue'[w]) <= Capacity(w),
           lost' \in [Lanes -> SUBSET Job], early' \subseteq Job,
           unfinished' \in [Lanes -> Int],
           \A w \in Lanes : Evicting(w)' \in Nat /\ Outstanding(w)' = Outstanding(w)
    PROVE  IInv'
<1>1. pc' \in [Submitters -> SubmitSteps] /\ \A t \in Submitters : t # s => pc'[t] = pc[t]
  BY DEF IInv, TypeOK
<1>2. ASSUME NEW w \in Lanes
      PROVE  unfinished'[w] \in Nat /\ Outstanding(w)' = WorkerHolds(w)'
  <2>1. WorkerHolds(w) \in Nat /\ WorkerHolds(w)' = WorkerHolds(w) /\ Outstanding(w) = WorkerHolds(w)
    BY DEF WorkerHolds, IInv, UnfinishedExact
  <2>2. Len(queue'[w]) \in Nat /\ Evicting(w)' \in Nat /\ unfinished'[w] \in Int
    BY LenProperties
  <2>3. Outstanding(w)' = WorkerHolds(w)
    BY <2>1
  <2> QED
    BY <2>1, <2>2, <2>3, Reported
<1>3. unfinished' \in [Lanes -> Nat] /\ UnfinishedExact'
  BY <1>2 DEF UnfinishedExact
<1>4. HandsFull'
  BY <1>1 DEF HandsFull, IInv, TypeOK
<1>5. TypeOK'
  <2>1. /\ traffic' \in Traffics /\ policy' \in Policies /\ enabled' \in Modes
        /\ accepting' \in BOOLEAN /\ stop' \in BOOLEAN
        /\ worker' \in [Lanes -> WorkerSteps] /\ held' \in [Lanes -> Job \cup {NoJob}]
        /\ taken' \in [Lanes -> Seq(Job)]
        /\ closer' \in {"open", "draining", "drained", "stopping"}
        /\ scanned' \subseteq Lanes /\ drained' \in {"unknown", "yes", "no"}
    BY DEF IInv, TypeOK
  <2>2. \A t \in Submitters : sent'[t] <= Len(traffic'[t])
    OBVIOUS
  <2> QED
    BY <1>1, <1>3, <2>1, <2>2, Zenon DEF TypeOK
<1> QED
  BY <1>3, <1>4, <1>5 DEF IInv

\* Every step of submit() keeps the invariant.
LEMMA SubmitterInv ==
    ASSUME IInv, NEW s \in Submitters, Submit(s) \/ SubmitStep(s)
    PROVE  IInv'
<1>1. /\ pc \in [Submitters -> SubmitSteps] /\ sent \in [Submitters -> Nat]
      /\ queue \in [Lanes -> Seq(Job)] /\ lost \in [Lanes -> SUBSET Job] /\ early \subseteq Job
      /\ unfinished \in [Lanes -> Nat]
      /\ {received, processed, failed, dropped, rejected} \subseteq Nat
      /\ policy \in {"drop_oldest", "drop_newest", "reject_new", "block_short"}
      /\ \A t \in Submitters : sent[t] <= Len(traffic[t])
      /\ \A w \in Lanes : Len(queue[w]) <= Capacity(w)
  BY PoliciesAssumption DEF IInv, TypeOK
<1>2. /\ received \in Nat /\ processed \in Nat /\ failed \in Nat /\ dropped \in Nat
      /\ rejected \in Nat
  BY <1>1
<1>3. \A w \in Lanes : Len(queue[w]) \in Nat /\ Evicting(w) \in Nat /\ unfinished[w] \in Nat
  BY <1>1, LenProperties, SubmittersAssumption, CountNat DEF Evicting
<1>4. /\ UNCHANGED <<traffic, policy, enabled, worker, held, taken, accepting, stop, closer,
                     scanned, drained>>
      /\ pc[s] # "idle" => UNCHANGED sent
      /\ \E b \in SubmitSteps : pc' = [pc EXCEPT ![s] = b]
  <2>1. CASE Submit(s)
    BY <2>1 DEF Submit, Goto, SubmitSteps, lanes, closing
  <2>2. CASE ProcessInline(s) \/ EvictOldest(s) \/ EvictedDone(s) \/ DropOldest(s)
    BY <2>2 DEF ProcessInline, EvictOldest, EvictedDone, DropOldest, Goto, SubmitSteps,
                lanes, closing
  <2>3. CASE DropMine(s) \/ RejectMine(s)
    BY <2>3 DEF DropMine, RejectMine, Goto, SubmitSteps, lanes, closing
  <2>4. CASE Enqueue(s)
    <3>1. WhenFull[policy] \in SubmitSteps
      BY <1>1 DEF WhenFull, SubmitSteps
    <3> QED
      BY <2>4, <3>1 DEF Enqueue, PutJob, Goto, SubmitSteps
  <2>5. CASE PutAgain(s)
    BY <2>5 DEF PutAgain, PutJob, AfterRetry, Goto, SubmitSteps
  <2> QED
    BY <2>1, <2>2, <2>3, <2>4, <2>5 DEF SubmitStep
<1>5. PICK b \in SubmitSteps : pc' = [pc EXCEPT ![s] = b]
  BY <1>4
<1>6. pc'[s] = b /\ \A t \in Submitters : t # s => pc'[t] = pc[t] /\ sent'[t] = sent[t]
  <2>1. CASE Submit(s)
    BY <1>1, <1>5, <2>1 DEF Submit
  <2>2. CASE UNCHANGED sent
    BY <1>1, <1>5, <2>2
  <2>3. pc[s] = "idle" => Submit(s)
    BY DEF SubmitStep, ProcessInline, Enqueue, EvictOldest, EvictedDone, DropOldest, PutAgain,
           DropMine, RejectMine
  <2> QED
    BY <1>4, <2>1, <2>2, <2>3
<1>7. ASSUME NEW w \in Lanes
      PROVE  /\ Evicting(w)' \in Nat
             /\ pc[s] # "evicted" /\ b # "evicted" => Evicting(w)' = Evicting(w)
             /\ pc[s] # "evicted" /\ b = "evicted" /\ sent'[s] = sent[s]
                  => Evicting(w)' = Evicting(w) + (IF w = MyLane(s) THEN 1 ELSE 0)
             /\ pc[s] = "evicted" /\ b # "evicted"
                  => Evicting(w)' = Evicting(w) - (IF w = MyLane(s) THEN 1 ELSE 0)
  BY <1>4, <1>6, EvictedCount
<1>8. ASSUME UNCHANGED <<queue, unfinished, lost, early>>, pc[s] # "evicted", b # "evicted",
             {received, processed, failed, dropped, rejected}' \subseteq Nat,
             sent' \in [Submitters -> Nat],
             \A t \in Submitters : sent'[t] <= Len(traffic[t]) /\ sent'[t] >= sent[t],
             pc[s] = "idle" => sent'[s] >= 1
      PROVE  IInv'
  <2>1. \A w \in Lanes : Evicting(w)' \in Nat /\ Outstanding(w)' = Outstanding(w)
    BY <1>7, <1>8 DEF Outstanding
  <2>2. unfinished' \in [Lanes -> Int]
    BY <1>1, <1>8
  <2> QED
    BY <1>1, <1>4, <1>5, <1>8, <2>1, <2>2, SubmitterKeeps
<1>9. UNCHANGED sent => \A t \in Submitters : sent'[t] <= Len(traffic[t]) /\ sent'[t] >= sent[t]
  BY <1>1
<1>10. CASE Submit(s)
  <2>1. /\ pc[s] = "idle" /\ UNCHANGED <<queue, unfinished, lost, early>>
        /\ received' = received + 1 /\ UNCHANGED <<processed, failed, dropped, rejected>>
        /\ sent' = [sent EXCEPT ![s] = sent[s] + 1] /\ sent[s] < Len(traffic[s])
        /\ b \in {"reject", "enqueue", "inline"}
    BY <1>1, <1>6, <1>10 DEF Submit, Goto, lanes, closing
  <2>2. traffic[s] \in Seq(Packets)
    BY TrafficsAssumption DEF IInv, TypeOK
  <2>3. /\ sent' \in [Submitters -> Nat] /\ sent'[s] >= 1
        /\ \A t \in Submitters : sent'[t] <= Len(traffic[t]) /\ sent'[t] >= sent[t]
    BY <1>1, <2>1, <2>2, LenProperties
  <2> QED
    BY <1>2, <1>8, <2>1, <2>3
<1>11. CASE ProcessInline(s) \/ DropOldest(s) \/ DropMine(s) \/ RejectMine(s)
  <2>1. /\ pc[s] # "idle" /\ pc[s] # "evicted" /\ b \in {"idle", "retry"}
        /\ UNCHANGED <<queue, unfinished, lost, early>>
        /\ received' = received /\ processed' \in {processed, processed + 1}
        /\ failed' \in {failed, failed + 1} /\ dropped' \in {dropped, dropped + 1}
        /\ rejected' \in {rejected, rejected + 1}
    BY <1>1, <1>6, <1>11 DEF ProcessInline, DropOldest, DropMine, RejectMine, Goto, lanes, closing
  <2> QED
    BY <1>1, <1>2, <1>4, <1>8, <1>9, <2>1
<1>12. ASSUME pc[s] # "idle", UNCHANGED counters, NEW w \in Lanes,
              queue' \in [Lanes -> Seq(Job)], \A v \in Lanes : Len(queue'[v]) <= Capacity(v),
              lost' \in [Lanes -> SUBSET Job], early' \subseteq Job,
              unfinished' \in [Lanes -> Int],
              \A v \in Lanes : v # w => /\ queue'[v] = queue[v] /\ unfinished'[v] = unfinished[v]
                                        /\ Evicting(v)' = Evicting(v),
              Outstanding(w)' = Outstanding(w)
       PROVE  IInv'
  <2>1. \A v \in Lanes : Evicting(v)' \in Nat /\ Outstanding(v)' = Outstanding(v)
    <3>1. \A v \in Lanes : v # w => Outstanding(v)' = Outstanding(v)
      BY <1>12 DEF Outstanding
    <3> QED
      BY <1>7, <1>12, <3>1
  <2>2. {received, processed, failed, dropped, rejected}' \subseteq Nat
    BY <1>2, <1>12 DEF counters
  <2>3. /\ UNCHANGED sent
        /\ \A t \in Submitters : sent'[t] <= Len(traffic[t]) /\ sent'[t] >= sent[t]
    BY <1>4, <1>9, <1>12
  <2> QED
    BY <1>1, <1>4, <1>5, <1>12, <2>1, <2>2, <2>3, SubmitterKeeps
<1>13. pc[s] # "idle" => Mine(s) \in Job /\ MyLane(s) \in Lanes
  BY MineSound
<1>14. CASE Enqueue(s) \/ PutAgain(s)
  <2>1. /\ pc[s] \in {"enqueue", "retry"} /\ UNCHANGED counters
    BY <1>14 DEF Enqueue, PutAgain
  <2>2. PICK w \in Lanes : w = MyLane(s)
    BY <1>13, <2>1
  <2>5. Mine(s) \in Job /\ Capacity(w) \in Nat
    BY <1>13, <2>1, LanesSound
  <2>3. CASE PutJob(s) /\ UNCHANGED lost
    <3>1. /\ Len(queue[w]) < Capacity(w)
          /\ queue' = [queue EXCEPT ![w] = Append(queue[w], Mine(s))]
          /\ unfinished' = [unfinished EXCEPT ![w] = unfinished[w] + 1]
          /\ early' \in {early, early \cup {Mine(s)}} /\ b = "idle"
      BY <1>1, <1>3, <1>6, <2>2, <2>5, <2>3 DEF PutJob, PutAtTail, Full, Goto
    <3>2. /\ Append(queue[w], Mine(s)) \in Seq(Job)
          /\ Len(Append(queue[w], Mine(s))) = Len(queue[w]) + 1
      BY <1>1, <2>2, <2>5, AppendProperties
    <3>3. Evicting(w)' = Evicting(w) /\ \A v \in Lanes : Evicting(v)' = Evicting(v)
      BY <1>7, <2>1, <2>2, <2>5, <3>1
    <3>4. /\ queue' \in [Lanes -> Seq(Job)] /\ queue'[w] = Append(queue[w], Mine(s))
          /\ unfinished' \in [Lanes -> Int] /\ unfinished'[w] = unfinished[w] + 1
          /\ \A v \in Lanes : v # w => queue'[v] = queue[v] /\ unfinished'[v] = unfinished[v]
      BY <1>1, <1>3, <2>2, <2>5, <3>1, <3>2
    <3>5. \A v \in Lanes : Len(queue'[v]) <= Capacity(v)
      BY <1>1, <1>3, <2>2, <2>5, <3>1, <3>2, <3>4
    <3>6. Outstanding(w)' = Outstanding(w)
      <4>1. Len(queue'[w]) = Len(queue[w]) + 1
        BY <3>2, <3>4
      <4>2. Len(queue[w]) \in Nat /\ Evicting(w) \in Nat /\ unfinished[w] \in Nat
        BY <1>3
      <4> QED
        BY <3>3, <3>4, <4>1, <4>2 DEF Outstanding
    <3>7. lost' \in [Lanes -> SUBSET Job] /\ early' \subseteq Job /\ pc[s] # "idle"
      BY <1>1, <2>1, <2>2, <2>5, <2>3, <3>1
    <3> QED
      BY <1>12, <2>1, <2>2, <2>5, <3>3, <3>4, <3>5, <3>6, <3>7
  <2>4. CASE UNCHANGED <<queue, unfinished, early>> /\ (UNCHANGED lost \/ GiveUpMine(s))
    <3>1. b # "evicted" /\ pc[s] # "evicted" /\ pc[s] # "idle"
      <4>1. b \in {"idle", "full", "drop", "reject"}
        BY <1>1, <1>6, <1>14 DEF Enqueue, PutAgain, PutJob, WhenFull, AfterRetry, Goto
      <4> QED
        BY <2>1, <4>1
    <3>2. lost' \in [Lanes -> SUBSET Job]
      BY <1>1, <2>2, <2>5, <2>4 DEF GiveUpMine
    <3>3. \A v \in Lanes : Evicting(v)' = Evicting(v)
      BY <1>7, <3>1
    <3>4. unfinished' \in [Lanes -> Int] /\ queue' \in [Lanes -> Seq(Job)] /\ early' \subseteq Job
      BY <1>1, <2>4
    <3>5. Outstanding(w)' = Outstanding(w)
      BY <1>3, <2>2, <2>5, <2>4, <3>3 DEF Outstanding
    <3> QED
      BY <1>1, <1>12, <2>1, <2>2, <2>5, <2>4, <3>1, <3>2, <3>3, <3>4, <3>5
  <2> QED
    BY <1>14, <2>3, <2>4 DEF Enqueue, PutAgain
<1>15. CASE EvictOldest(s)
  <2>1. pc[s] = "full" /\ UNCHANGED <<counters, unfinished, early, sent>>
    BY <1>15 DEF EvictOldest, closing
  <2>2. PICK w \in Lanes : w = MyLane(s)
    BY <1>13, <2>1
  <2>3. CASE /\ queue[w] # << >> /\ queue' = [queue EXCEPT ![w] = Tail(queue[w])]
             /\ lost' = [lost EXCEPT ![w] = lost[w] \cup {Head(queue[w])}]
             /\ b = "evicted"
    <3>1. /\ Tail(queue[w]) \in Seq(Job) /\ Len(Tail(queue[w])) = Len(queue[w]) - 1
          /\ Head(queue[w]) \in Job
      BY <2>2, <2>3, LaneHead
    <3>2. \A v \in Lanes : Evicting(v)' = Evicting(v) + (IF v = w THEN 1 ELSE 0)
      BY <1>7, <2>1, <2>2, <2>3
    <3>3. /\ queue' \in [Lanes -> Seq(Job)] /\ queue'[w] = Tail(queue[w])
          /\ lost' \in [Lanes -> SUBSET Job]
          /\ \A v \in Lanes : v # w => queue'[v] = queue[v]
      BY <1>1, <2>2, <2>3, <3>1
    <3>4. \A v \in Lanes : Len(queue'[v]) <= Capacity(v)
      <4>1. Len(queue'[w]) = Len(queue[w]) - 1 /\ Len(queue[w]) \in Nat /\ Capacity(w) \in Nat
        BY <1>3, <3>1, <3>3, LanesSound
      <4>2. Len(queue'[w]) <= Capacity(w)
        BY <1>1, <4>1
      <4> QED
        BY <1>1, <3>3, <4>2
    <3>5. \A v \in Lanes : v # w => Evicting(v)' = Evicting(v)
      BY <1>3, <3>2
    <3>6. Outstanding(w)' = Outstanding(w)
      <4>1. Len(queue'[w]) = Len(queue[w]) - 1 /\ unfinished'[w] = unfinished[w]
        BY <2>1, <3>1, <3>3
      <4>2. Len(queue[w]) \in Nat /\ Evicting(w) \in Nat /\ unfinished[w] \in Nat
        BY <1>3
      <4>3. Evicting(w)' = Evicting(w) + 1
        BY <3>2
      <4> QED
        BY <4>1, <4>2, <4>3 DEF Outstanding
    <3>7. unfinished' \in [Lanes -> Int] /\ early' \subseteq Job /\ pc[s] # "idle"
      BY <1>1, <2>1
    <3> QED
      BY <1>12, <2>1, <2>2, <3>3, <3>4, <3>5, <3>6, <3>7
  <2>4. CASE b = "retry" /\ UNCHANGED <<queue, lost>>
    BY <1>1, <1>2, <1>8, <1>9, <2>1, <2>2, <2>4 DEF counters
  <2> QED
    <3>1. \/ /\ queue[w] # << >> /\ queue' = [queue EXCEPT ![w] = Tail(queue[w])]
             /\ lost' = [lost EXCEPT ![w] = lost[w] \cup {Head(queue[w])}]
             /\ pc' = [pc EXCEPT ![s] = "evicted"]
          \/ pc' = [pc EXCEPT ![s] = "retry"] /\ UNCHANGED <<queue, lost>>
      BY <1>15, <2>2 DEF EvictOldest, Goto
    <3> QED
      BY <1>1, <1>6, <2>3, <2>4, <3>1
<1>16. CASE EvictedDone(s)
  <2>1. /\ pc[s] = "evicted" /\ b = "dropOldest"
        /\ UNCHANGED <<counters, queue, lost, early>>
        /\ unfinished' = [unfinished EXCEPT ![MyLane(s)] = unfinished[MyLane(s)] - 1]
    BY <1>1, <1>6, <1>16 DEF EvictedDone, closing, Goto
  <2>2. PICK w \in Lanes : w = MyLane(s)
    BY <1>13, <2>1
  <2>3. \A v \in Lanes : Evicting(v)' = Evicting(v) - (IF v = w THEN 1 ELSE 0)
    BY <1>7, <2>1, <2>2
  <2>4. /\ unfinished' \in [Lanes -> Int] /\ unfinished'[w] = unfinished[w] - 1
        /\ \A v \in Lanes : v # w => unfinished'[v] = unfinished[v] /\ Evicting(v)' = Evicting(v)
    BY <1>1, <1>3, <2>1, <2>2, <2>3
  <2>5. Outstanding(w)' = Outstanding(w)
    BY <1>3, <2>1, <2>2, <2>3, <2>4 DEF Outstanding
  <2> QED
    BY <1>1, <1>12, <2>1, <2>2, <2>4, <2>5
<1> QED
  BY <1>10, <1>11, <1>14, <1>15, <1>16 DEF SubmitStep

\* A step of a lane's thread keeps the invariant if what it leaves unfinished is what
\* the thread then holds.
LEMMA WorkerKeeps ==
    ASSUME IInv, NEW w \in Lanes, NEW b \in WorkerSteps,
           UNCHANGED <<traffic, policy, enabled, lost, submitters, closing>>,
           worker' = [worker EXCEPT ![w] = b],
           {received, processed, failed, dropped, rejected}' \subseteq Nat,
           queue' \in [Lanes -> Seq(Job)], \A v \in Lanes : Len(queue'[v]) <= Capacity(v),
           taken' \in [Lanes -> Seq(Job)], held' \in [Lanes -> Job \cup {NoJob}],
           unfinished' \in [Lanes -> Int],
           \A v \in Lanes : v # w => /\ queue'[v] = queue[v] /\ unfinished'[v] = unfinished[v]
                                     /\ held'[v] = held[v],
           b \in Busy => held'[w] \in Job,
           Outstanding(w)' = IF b \in Busy THEN 1 ELSE 0
    PROVE  IInv'
<1>1. /\ worker' \in [Lanes -> WorkerSteps] /\ worker'[w] = b
      /\ \A v \in Lanes : v # w => worker'[v] = worker[v]
  BY DEF IInv, TypeOK
<1>2. ASSUME NEW v \in Lanes
      PROVE  unfinished'[v] \in Nat /\ Outstanding(v)' = WorkerHolds(v)'
  <2>1. Evicting(v)' = Evicting(v) /\ Evicting(v) \in Nat
    BY SubmittersAssumption, CountNat DEF Evicting, EvictedFrom, MyLane, Mine, submitters
  <2>2. v # w => Outstanding(v)' = Outstanding(v) /\ WorkerHolds(v)' = WorkerHolds(v)
    BY <1>1, <2>1 DEF Outstanding, WorkerHolds
  <2>3. Outstanding(v)' = WorkerHolds(v)'
    BY <1>1, <2>2 DEF IInv, UnfinishedExact, WorkerHolds
  <2>4. WorkerHolds(v)' \in Nat /\ Len(queue'[v]) \in Nat /\ unfinished'[v] \in Int
    BY LenProperties DEF WorkerHolds
  <2> QED
    BY <2>1, <2>3, <2>4 DEF Outstanding
<1>3. unfinished' \in [Lanes -> Nat] /\ UnfinishedExact'
  BY <1>2 DEF UnfinishedExact
<1>4. HandsFull'
  BY <1>1 DEF HandsFull, IInv, submitters
<1>5. TypeOK'
  <2>1. /\ traffic' \in Traffics /\ policy' \in Policies /\ enabled' \in Modes
        /\ accepting' \in BOOLEAN /\ stop' \in BOOLEAN
        /\ pc' \in [Submitters -> SubmitSteps] /\ sent' \in [Submitters -> Nat]
        /\ \A s \in Submitters : sent'[s] <= Len(traffic'[s])
        /\ lost' \in [Lanes -> SUBSET Job] /\ early' \subseteq Job
        /\ closer' \in {"open", "draining", "drained", "stopping"}
        /\ scanned' \subseteq Lanes /\ drained' \in {"unknown", "yes", "no"}
    BY DEF IInv, TypeOK, submitters, closing
  <2> QED
    BY <1>1, <1>3, <2>1, Zenon DEF TypeOK
<1> QED
  BY <1>3, <1>4, <1>5 DEF IInv

\* Every step of a lane's thread keeps the invariant.
LEMMA WorkerInv ==
    ASSUME IInv, NEW w \in Lanes, WorkerStep(w)
    PROVE  IInv'
<1>1. /\ worker \in [Lanes -> WorkerSteps] /\ held \in [Lanes -> Job \cup {NoJob}]
      /\ queue \in [Lanes -> Seq(Job)] /\ taken \in [Lanes -> Seq(Job)]
      /\ unfinished \in [Lanes -> Nat] /\ \A v \in Lanes : Len(queue[v]) <= Capacity(v)
      /\ {received, processed, failed, dropped, rejected} \subseteq Nat
  BY DEF IInv, TypeOK
<1>2. /\ received \in Nat /\ processed \in Nat /\ failed \in Nat /\ dropped \in Nat
      /\ rejected \in Nat
  BY <1>1
<1>3. \A v \in Lanes : Len(queue[v]) \in Nat /\ Evicting(v) \in Nat /\ unfinished[v] \in Nat
  BY <1>1, LenProperties, SubmittersAssumption, CountNat DEF Evicting
<1>4. UNCHANGED <<traffic, policy, enabled, lost, submitters, closing>>
  BY DEF WorkerStep, WorkerCheck, WorkerGet, WorkerProcess, WorkerComplete, WorkerFinish
<1>5. Evicting(w)' = Evicting(w)
  BY <1>4 DEF Evicting, EvictedFrom, MyLane, Mine, submitters
<1>6. /\ Outstanding(w) = IF worker[w] \in Busy THEN 1 ELSE 0
      /\ worker[w] \in Busy => held[w] \in Job
  BY DEF IInv, UnfinishedExact, WorkerHolds, HandsFull
<1>7. ASSUME NEW b \in WorkerSteps, worker' = [worker EXCEPT ![w] = b],
             UNCHANGED <<queue, unfinished, held, taken>>, b \in Busy <=> worker[w] \in Busy,
             {received, processed, failed, dropped, rejected}' \subseteq Nat
      PROVE  IInv'
  <2>1. Outstanding(w)' = Outstanding(w)
    BY <1>5, <1>7 DEF Outstanding
  <2>2. Outstanding(w)' = IF b \in Busy THEN 1 ELSE 0
    BY <1>6, <1>7, <2>1
  <2>3. unfinished' \in [Lanes -> Int]
    BY <1>1, <1>7
  <2> QED
    BY <1>1, <1>4, <1>6, <1>7, <2>2, <2>3, WorkerKeeps
<1>8. CASE WorkerCheck(w)
  <2>1. PICK b \in {"get", "exited"} : worker' = [worker EXCEPT ![w] = b]
    BY <1>8 DEF WorkerCheck, WorkerGoto
  <2>2. b \in WorkerSteps /\ b \notin Busy /\ worker[w] \notin Busy
    BY <1>8, <2>1 DEF WorkerCheck, WorkerSteps, Busy
  <2>3. UNCHANGED <<queue, unfinished, held, taken, counters>>
    BY <1>8 DEF WorkerCheck
  <2> QED
    BY <1>2, <1>7, <2>1, <2>2, <2>3 DEF counters
<1>9. CASE WorkerProcess(w)
  <2>1. PICK b \in {"done", "finish"} : worker' = [worker EXCEPT ![w] = b]
    BY <1>9 DEF WorkerProcess, WorkerGoto, AfterFailure
  <2>2. b \in WorkerSteps /\ b \in Busy /\ worker[w] \in Busy
    BY <1>9, <2>1 DEF WorkerProcess, WorkerSteps, Busy
  <2>3. /\ UNCHANGED <<queue, unfinished, held, taken, received, processed, dropped, rejected>>
        /\ failed' \in {failed, failed + 1}
    BY <1>9 DEF WorkerProcess
  <2>4. {received, processed, failed, dropped, rejected}' \subseteq Nat
    BY <1>2, <2>3
  <2>5. UNCHANGED <<queue, unfinished, held, taken>>
    BY <2>3
  <2> QED
    BY <1>7, <2>1, <2>2, <2>4, <2>5
<1>10. CASE WorkerComplete(w)
  <2>1. worker' = [worker EXCEPT ![w] = "finish"]
    BY <1>10 DEF WorkerComplete, WorkerGoto
  <2>2. "finish" \in WorkerSteps /\ "finish" \in Busy /\ worker[w] \in Busy
    BY <1>10 DEF WorkerComplete, WorkerSteps, Busy
  <2>3. /\ UNCHANGED <<queue, unfinished, held, taken, received, failed, dropped, rejected>>
        /\ processed' = processed + 1
    BY <1>10 DEF WorkerComplete
  <2>4. {received, processed, failed, dropped, rejected}' \subseteq Nat
    BY <1>2, <2>3
  <2>5. UNCHANGED <<queue, unfinished, held, taken>>
    BY <2>3
  <2> QED
    BY <1>7, <2>1, <2>2, <2>4, <2>5
<1>11. CASE WorkerGet(w)
  <2>1. worker[w] = "get" /\ worker[w] \notin Busy /\ UNCHANGED <<counters, unfinished>>
    BY <1>11 DEF WorkerGet, Busy
  <2>2. CASE /\ queue[w] # << >> /\ held' = [held EXCEPT ![w] = Head(queue[w])]
             /\ taken' = [taken EXCEPT ![w] = Append(taken[w], Head(queue[w]))]
             /\ queue' = [queue EXCEPT ![w] = Tail(queue[w])]
             /\ worker' = [worker EXCEPT ![w] = "busy"]
    <3>1. /\ Tail(queue[w]) \in Seq(Job) /\ Len(Tail(queue[w])) = Len(queue[w]) - 1
          /\ Head(queue[w]) \in Job
      BY <2>2, LaneHead
    <3>2. Append(taken[w], Head(queue[w])) \in Seq(Job)
      BY <1>1, <3>1, AppendProperties
    <3>3. /\ queue' \in [Lanes -> Seq(Job)] /\ queue'[w] = Tail(queue[w])
          /\ held' \in [Lanes -> Job \cup {NoJob}] /\ held'[w] \in Job
          /\ taken' \in [Lanes -> Seq(Job)] /\ unfinished' \in [Lanes -> Int]
          /\ \A v \in Lanes : v # w => /\ queue'[v] = queue[v] /\ unfinished'[v] = unfinished[v]
                                       /\ held'[v] = held[v]
      BY <1>1, <2>1, <2>2, <3>1, <3>2
    <3>4. \A v \in Lanes : Len(queue'[v]) <= Capacity(v)
      <4>1. Len(queue'[w]) = Len(queue[w]) - 1 /\ Len(queue[w]) \in Nat /\ Capacity(w) \in Nat
        BY <1>3, <3>1, <3>3, LanesSound
      <4>2. Len(queue'[w]) <= Capacity(w)
        BY <1>1, <4>1
      <4> QED
        BY <1>1, <3>3, <4>2
    <3>5. Outstanding(w)' = 1
      <4>1. Len(queue'[w]) = Len(queue[w]) - 1 /\ unfinished'[w] = unfinished[w]
        BY <2>1, <3>1, <3>3
      <4>2. Outstanding(w) = 0 /\ Len(queue[w]) \in Nat /\ Evicting(w) \in Nat /\ unfinished[w] \in Nat
        BY <1>3, <1>6, <2>1
      <4> QED
        BY <1>5, <4>1, <4>2 DEF Outstanding
    <3>6. "busy" \in WorkerSteps /\ "busy" \in Busy
      BY DEF WorkerSteps, Busy
    <3>7. {received, processed, failed, dropped, rejected}' \subseteq Nat
      BY <1>2, <2>1 DEF counters
    <3> QED
      BY <1>4, <2>2, <3>3, <3>4, <3>5, <3>6, <3>7, WorkerKeeps
  <2>3. CASE worker' = [worker EXCEPT ![w] = "check"] /\ UNCHANGED <<queue, held, taken>>
    <3>1. "check" \in WorkerSteps /\ "check" \notin Busy
      BY DEF WorkerSteps, Busy
    <3> QED
      BY <1>2, <1>7, <2>1, <2>3, <3>1 DEF counters
  <2> QED
    BY <1>11, <2>2, <2>3 DEF WorkerGet, WorkerGoto
<1>12. CASE WorkerFinish(w)
  <2>1. /\ worker[w] \in Busy /\ UNCHANGED <<counters, queue, taken>>
        /\ unfinished' = [unfinished EXCEPT ![w] = unfinished[w] - 1]
        /\ held' = [held EXCEPT ![w] = NoJob]
        /\ worker' = [worker EXCEPT ![w] = "check"]
    BY <1>12 DEF WorkerFinish, WorkerGoto, Busy
  <2>2. /\ unfinished' \in [Lanes -> Int] /\ unfinished'[w] = unfinished[w] - 1
        /\ held' \in [Lanes -> Job \cup {NoJob}]
        /\ \A v \in Lanes : v # w => /\ queue'[v] = queue[v] /\ unfinished'[v] = unfinished[v]
                                     /\ held'[v] = held[v]
    BY <1>1, <1>3, <2>1
  <2>3. Outstanding(w)' = 0
    <3>1. Outstanding(w) = 1 /\ Len(queue[w]) \in Nat /\ Evicting(w) \in Nat /\ unfinished[w] \in Nat
      BY <1>3, <1>6, <2>1
    <3>2. queue'[w] = queue[w]
      BY <2>1
    <3> QED
      BY <1>5, <2>2, <3>1, <3>2 DEF Outstanding
  <2>4. "check" \in WorkerSteps /\ "check" \notin Busy
    BY DEF WorkerSteps, Busy
  <2>5. {received, processed, failed, dropped, rejected}' \subseteq Nat
    BY <1>2, <2>1 DEF counters
  <2>6. /\ queue' \in [Lanes -> Seq(Job)] /\ taken' \in [Lanes -> Seq(Job)]
        /\ \A v \in Lanes : Len(queue'[v]) <= Capacity(v)
    BY <1>1, <2>1
  <2> QED
    BY <1>4, <2>1, <2>2, <2>3, <2>4, <2>5, <2>6, WorkerKeeps
<1> QED
  BY <1>8, <1>9, <1>10, <1>11, <1>12 DEF WorkerStep

\* Every step of the pool keeps the strengthened invariant.
LEMMA StepInv == IInv /\ [Next]_vars => IInv'
<1> SUFFICES ASSUME IInv, [Next]_vars PROVE IInv'
  OBVIOUS
<1>1. ASSUME NEW s \in Submitters, Submit(s) \/ SubmitStep(s) PROVE IInv'
  BY <1>1, SubmitterInv
<1>2. ASSUME NEW w \in Lanes, WorkerStep(w) PROVE IInv'
  BY <1>2, WorkerInv
<1>3. CASE CloseStep \/ UNCHANGED vars
  <2>1. /\ UNCHANGED <<traffic, policy, enabled, received, processed, failed, dropped, rejected,
                       queue, unfinished, worker, held, taken, lost, pc, sent, early>>
        /\ accepting' \in BOOLEAN /\ stop' \in BOOLEAN
        /\ closer' \in {"open", "draining", "drained", "stopping"}
        /\ scanned' \subseteq Lanes /\ drained' \in {"unknown", "yes", "no"}
    <3>1. CASE CloseBegin \/ CloseStop \/ UNCHANGED vars
      BY <3>1 DEF CloseBegin, CloseStop, vars, counters, lanes, submitters, closing, IInv, TypeOK
    <3>2. CASE DrainPoll
      BY <3>2 DEF DrainPoll, counters, lanes, submitters, IInv, TypeOK
    <3> QED
      BY <1>3, <3>1, <3>2 DEF CloseStep
  <2>2. TypeOK'
    BY <2>1 DEF IInv, TypeOK
  <2>3. UnfinishedExact' /\ HandsFull'
    BY <2>1 DEF IInv, UnfinishedExact, Outstanding, WorkerHolds, Evicting, EvictedFrom, MyLane,
                Mine, HandsFull
  <2> QED
    BY <2>2, <2>3 DEF IInv
<1> QED
  BY <1>1, <1>2, <1>3 DEF Next

\* The strengthened invariant holds in every reachable state of the pool.
THEOREM Invariance == Spec => []IInv
BY InitInv, StepInv, PTL DEF Spec

\* Type correctness of the pool, its counters, lanes and threads, every lane within
\* its capacity, for every number of lanes and submitting threads.
THEOREM TypeCorrect == Spec => []TypeOK
<1>1. IInv => TypeOK
  BY DEF IInv
<1> QED
  BY <1>1, Invariance, PTL

-----------------------------------------------------------------------------
(* What a step does to the jobs of a lane. *)

KnownIn(w) == Waiting(w) \cup Range(taken[w]) \cup lost[w]
Seen == early \cup UNION {KnownIn(w) : w \in Lanes}

\* Until it has put its job or given it up, a thread has placed one job fewer than it sent.
Unput == {"enqueue", "full", "evicted", "dropOldest", "retry"}
Placed(s) == IF pc[s] \in Unput THEN sent[s] - 1 ELSE sent[s]

Puts(w, j) == /\ queue' = [queue EXCEPT ![w] = Append(queue[w], j)]
              /\ UNCHANGED <<taken, lost>>
              /\ early' = IF closer = "open" THEN early \cup {j} ELSE early
Refuses(w, j) == /\ lost' = [lost EXCEPT ![w] = lost[w] \cup {j}]
                 /\ UNCHANGED <<queue, taken, early>>

\* A thread places the job it is submitting, or gives it up.
PlacesMine(s, w, j) ==
    /\ pc[s] \in Unput /\ j = Mine(s) /\ w = MyLane(s)
    /\ Puts(w, j) \/ Refuses(w, j)
    /\ Placed(s)' = sent[s] /\ \A t \in Submitters : t # s => Placed(t)' = Placed(t)
    /\ UNCHANGED <<worker, held, stop, closer, scanned, drained>>

\* A thread evicts the oldest job of a lane.
Evicts(w) ==
    /\ queue[w] # << >>
    /\ queue' = [queue EXCEPT ![w] = Tail(queue[w])]
    /\ lost' = [lost EXCEPT ![w] = lost[w] \cup {Head(queue[w])}]
    /\ \A s \in Submitters : Placed(s)' = Placed(s)
    /\ UNCHANGED <<taken, early, worker, held, stop, closer, scanned, drained>>

\* A lane's thread takes the oldest job.
Takes(w) ==
    /\ queue[w] # << >> /\ worker[w] = "get"
    /\ queue' = [queue EXCEPT ![w] = Tail(queue[w])]
    /\ taken' = [taken EXCEPT ![w] = Append(taken[w], Head(queue[w]))]
    /\ held' = [held EXCEPT ![w] = Head(queue[w])]
    /\ worker' = [worker EXCEPT ![w] = "busy"]
    /\ \A s \in Submitters : Placed(s)' = Placed(s)
    /\ UNCHANGED <<lost, early, stop, closer, scanned, drained>>

\* Nothing happens to the jobs of any lane, and no thread takes up one.
Quiet ==
    /\ UNCHANGED <<queue, taken, lost, early>>
    /\ \A s \in Submitters : Placed(s)' >= Placed(s)
    /\ \A w \in Lanes : worker'[w] \in Busy => worker[w] \in Busy /\ held'[w] = held[w]

\* There is nothing else a step can do to them.
LEMMA Effects ==
    ASSUME IInv, [Next]_vars
    PROVE  \/ \E s \in Submitters, w \in Lanes, j \in Job : PlacesMine(s, w, j)
           \/ \E w \in Lanes : Evicts(w) \/ Takes(w)
           \/ Quiet
<1>1. /\ pc \in [Submitters -> SubmitSteps] /\ sent \in [Submitters -> Nat]
      /\ worker \in [Lanes -> WorkerSteps] /\ held \in [Lanes -> Job \cup {NoJob}]
      /\ policy \in {"drop_oldest", "drop_newest", "reject_new", "block_short"}
  BY PoliciesAssumption DEF IInv, TypeOK
<1>2. ASSUME UNCHANGED <<pc, sent>>
      PROVE  \A s \in Submitters : Placed(s)' = Placed(s) /\ Placed(s)' >= Placed(s)
  BY <1>1, <1>2 DEF Placed
<1>3. ASSUME NEW s \in Submitters, NEW b, pc' = [pc EXCEPT ![s] = b], UNCHANGED sent
      PROVE  /\ \A t \in Submitters : t # s => Placed(t)' = Placed(t) /\ Placed(t)' >= Placed(t)
             /\ b \notin Unput => Placed(s)' = sent[s] /\ Placed(s)' >= Placed(s)
             /\ b \in Unput /\ pc[s] \in Unput => Placed(s)' = Placed(s) /\ Placed(s)' >= Placed(s)
  BY <1>1, <1>3 DEF Placed
<1>4. ASSUME NEW s \in Submitters, Submit(s) PROVE Quiet
  <2>1. /\ UNCHANGED <<queue, taken, lost, early, worker, held>>
        /\ pc[s] = "idle" /\ sent' = [sent EXCEPT ![s] = sent[s] + 1]
        /\ \E b : pc' = [pc EXCEPT ![s] = b]
    BY <1>4 DEF Submit, Goto, lanes, closing
  <2>2. Placed(s)' >= Placed(s)
    <3>1. Placed(s) = sent[s] /\ sent'[s] = sent[s] + 1
      BY <1>1, <2>1 DEF Placed, Unput
    <3>2. Placed(s)' \in {sent'[s], sent'[s] - 1}
      BY DEF Placed
    <3> QED
      BY <1>1, <3>1, <3>2
  <2>3. \A t \in Submitters : t # s => Placed(t)' >= Placed(t)
    BY <1>1, <2>1 DEF Placed
  <2> QED
    BY <2>1, <2>2, <2>3 DEF Quiet
<1>5. ASSUME NEW s \in Submitters,
             ProcessInline(s) \/ DropMine(s) \/ RejectMine(s) \/ DropOldest(s) \/ EvictedDone(s)
      PROVE  Quiet
  <2>1. /\ UNCHANGED <<queue, taken, lost, early, worker, held, sent>>
        /\ \E b \in {"idle", "retry", "dropOldest"} :
               pc' = [pc EXCEPT ![s] = b] /\ (b # "idle" => pc[s] \in Unput)
    BY <1>5 DEF ProcessInline, DropMine, RejectMine, DropOldest, EvictedDone, Goto, lanes, closing,
                Unput
  <2>2. PICK b \in {"idle", "retry", "dropOldest"} :
               pc' = [pc EXCEPT ![s] = b] /\ (b # "idle" => pc[s] \in Unput)
    BY <2>1
  <2>3. "idle" \notin Unput /\ "retry" \in Unput /\ "dropOldest" \in Unput
    BY DEF Unput
  <2>4. \A t \in Submitters : Placed(t)' >= Placed(t)
    BY <1>3, <2>1, <2>2, <2>3
  <2> QED
    BY <2>1, <2>4 DEF Quiet
<1>6. ASSUME NEW s \in Submitters, EvictOldest(s)
      PROVE  Quiet \/ \E w \in Lanes : Evicts(w)
  <2>1. PICK w \in Lanes : w = MyLane(s)
    BY <1>6, MineSound DEF EvictOldest
  <2>2. /\ pc[s] \in Unput /\ UNCHANGED <<taken, early, worker, held, stop, closer, scanned, drained, sent>>
    BY <1>6 DEF EvictOldest, closing, Unput
  <2>3. PICK b \in {"evicted", "retry"} : pc' = [pc EXCEPT ![s] = b]
    BY <1>6 DEF EvictOldest, Goto
  <2>4. \A t \in Submitters : Placed(t)' = Placed(t) /\ Placed(t)' >= Placed(t)
    BY <1>3, <2>2, <2>3 DEF Unput
  <2>5. \/ /\ queue[w] # << >>
           /\ queue' = [queue EXCEPT ![w] = Tail(queue[w])]
           /\ lost' = [lost EXCEPT ![w] = lost[w] \cup {Head(queue[w])}]
        \/ UNCHANGED <<queue, lost>>
    BY <1>6, <2>1 DEF EvictOldest
  <2> QED
    BY <2>2, <2>4, <2>5 DEF Evicts, Quiet
<1>7. ASSUME NEW s \in Submitters, Enqueue(s) \/ PutAgain(s)
      PROVE  Quiet \/ \E w \in Lanes, j \in Job : PlacesMine(s, w, j)
  <2>1. /\ pc[s] \in {"enqueue", "retry"} /\ pc[s] \in Unput
        /\ UNCHANGED <<taken, worker, held, stop, closer, scanned, drained, sent>>
    BY <1>7 DEF Enqueue, PutAgain, Unput
  <2>2. MyLane(s) \in Lanes /\ Mine(s) \in Job
    BY <2>1, MineSound
  <2>3. PICK w \in Lanes, j \in Job : w = MyLane(s) /\ j = Mine(s)
    BY <2>2
  <2>4. \/ /\ Puts(w, j) /\ pc' = [pc EXCEPT ![s] = "idle"]
        \/ /\ Refuses(w, j) /\ \E b \in {"drop", "reject"} : pc' = [pc EXCEPT ![s] = b]
        \/ /\ UNCHANGED <<queue, lost, early>> /\ pc' = [pc EXCEPT ![s] = "full"]
    <3>1. CASE PutJob(s) /\ UNCHANGED lost
      BY <2>1, <2>3, <3>1 DEF PutJob, PutAtTail, Goto, Puts
    <3>2. CASE Enqueue(s) /\ ~PutJob(s)
      <4>1. /\ Goto(s, WhenFull[policy])
            /\ IF policy = "drop_oldest" THEN UNCHANGED lost ELSE GiveUpMine(s)
            /\ UNCHANGED <<queue, unfinished, early>>
        BY <3>2 DEF Enqueue
      <4>2. CASE policy = "drop_oldest"
        BY <4>1, <4>2 DEF WhenFull, Goto
      <4>3. CASE policy # "drop_oldest"
        <5>1. WhenFull[policy] \in {"drop", "reject"}
          BY <1>1, <4>3 DEF WhenFull
        <5> QED
          BY <2>1, <2>3, <4>1, <4>3, <5>1 DEF Goto, GiveUpMine, Refuses
      <4> QED
        BY <4>2, <4>3
    <3>3. CASE PutAgain(s) /\ ~PutJob(s)
      BY <2>1, <2>3, <3>3 DEF PutAgain, AfterRetry, Goto, GiveUpMine, Refuses
    <3> QED
      BY <1>7, <3>1, <3>2, <3>3 DEF Enqueue, PutAgain, PutJob
  <2>5. CASE UNCHANGED <<queue, lost, early>> /\ pc' = [pc EXCEPT ![s] = "full"]
    <3>1. "full" \in Unput
      BY DEF Unput
    <3>2. \A t \in Submitters : Placed(t)' >= Placed(t)
      BY <1>3, <2>1, <2>5, <3>1
    <3> QED
      BY <2>1, <2>5, <3>2 DEF Quiet
  <2>6. ASSUME Puts(w, j) \/ Refuses(w, j), NEW b \in {"idle", "drop", "reject"},
               pc' = [pc EXCEPT ![s] = b]
        PROVE  PlacesMine(s, w, j)
    <3>1. b \notin Unput
      BY DEF Unput
    <3>2. Placed(s)' = sent[s] /\ \A t \in Submitters : t # s => Placed(t)' = Placed(t)
      BY <1>3, <2>1, <2>6, <3>1
    <3> QED
      BY <2>1, <2>3, <2>6, <3>2 DEF PlacesMine
  <2> QED
    BY <2>4, <2>5, <2>6
<1>8. ASSUME NEW w \in Lanes, WorkerStep(w) PROVE Quiet \/ Takes(w)
  <2>1. /\ UNCHANGED <<lost, early, pc, sent, stop, closer, scanned, drained>>
        /\ \A s \in Submitters : Placed(s)' = Placed(s) /\ Placed(s)' >= Placed(s)
    BY <1>2, <1>8 DEF WorkerStep, WorkerCheck, WorkerGet, WorkerProcess, WorkerComplete,
                      WorkerFinish, submitters, closing
  <2>2. ASSUME NEW b, worker' = [worker EXCEPT ![w] = b], UNCHANGED <<queue, taken>>,
               b \in Busy => worker[w] \in Busy /\ UNCHANGED held,
               \A v \in Lanes : v # w => held'[v] = held[v]
        PROVE  Quiet
    BY <1>1, <2>1, <2>2 DEF Quiet
  <2>3. CASE WorkerCheck(w)
    <3>1. /\ \E b \in {"get", "exited"} : worker' = [worker EXCEPT ![w] = b]
          /\ UNCHANGED <<queue, taken, held>>
      BY <2>3 DEF WorkerCheck, WorkerGoto
    <3> QED
      BY <2>2, <3>1 DEF Busy
  <2>4. CASE WorkerProcess(w) \/ WorkerComplete(w)
    <3>1. /\ \E b \in {"done", "finish"} : worker' = [worker EXCEPT ![w] = b]
          /\ worker[w] \in Busy /\ UNCHANGED <<queue, taken, held>>
      BY <2>4 DEF WorkerProcess, WorkerComplete, WorkerGoto, AfterFailure, Busy
    <3> QED
      BY <2>2, <3>1
  <2>5. CASE WorkerFinish(w)
    <3>1. /\ worker' = [worker EXCEPT ![w] = "check"] /\ UNCHANGED <<queue, taken>>
          /\ \A v \in Lanes : v # w => held'[v] = held[v]
      BY <1>1, <2>5 DEF WorkerFinish, WorkerGoto
    <3> QED
      BY <2>2, <3>1 DEF Busy
  <2>6. CASE WorkerGet(w)
    <3>1. CASE worker' = [worker EXCEPT ![w] = "check"] /\ UNCHANGED <<queue, held, taken>>
      BY <2>2, <3>1 DEF Busy
    <3>2. CASE /\ queue[w] # << >>
               /\ held' = [held EXCEPT ![w] = Head(queue[w])]
               /\ taken' = [taken EXCEPT ![w] = Append(taken[w], Head(queue[w]))]
               /\ queue' = [queue EXCEPT ![w] = Tail(queue[w])]
               /\ worker' = [worker EXCEPT ![w] = "busy"]
      BY <2>1, <2>6, <3>2 DEF WorkerGet, Takes
    <3> QED
      BY <2>6, <3>1, <3>2 DEF WorkerGet, WorkerGoto
  <2> QED
    BY <1>8, <2>3, <2>4, <2>5, <2>6 DEF WorkerStep
<1>9. CASE CloseStep \/ UNCHANGED vars
  <2>1. UNCHANGED <<queue, taken, lost, early, pc, sent, worker, held>>
    BY <1>9 DEF CloseStep, CloseBegin, DrainPoll, CloseStop, vars, lanes, submitters, closing
  <2> QED
    BY <1>2, <2>1 DEF Quiet
<1> QED
  BY <1>4, <1>5, <1>6, <1>7, <1>8, <1>9 DEF Next, SubmitStep

-----------------------------------------------------------------------------
(* The jobs of a lane: new, of that lane, in order. *)

\* Of the jobs of a thread only those it has placed or given up are known anywhere.
Fresh == \A j \in Seen : j.n <= Placed(j.by)

\* What is in a lane belongs there.
OwnLane == \A w \in Lanes : \A j \in KnownIn(w) : LaneOf(j.packet) = w

\* The jobs of one thread wait in the order in which it submitted them, after those
\* that were taken; what the lane's thread works on is the last that was taken.
QueueInOrder(w) ==
    \A i, k \in 1 .. Len(queue[w]) :
        i < k /\ queue[w][i].by = queue[w][k].by => queue[w][i].n < queue[w][k].n
TakenFirst(w) ==
    \A b \in Range(taken[w]), a \in Waiting(w) : a.by = b.by => b.n < a.n
HeldLast(w) ==
    worker[w] \in Busy => /\ held[w] \in Range(taken[w])
                          /\ \A b \in Range(taken[w]) : b.by = held[w].by => b.n <= held[w].n
InOrder == \A w \in Lanes : QueueInOrder(w) /\ TakenFirst(w) /\ HeldLast(w)

\* Everything known is a job.
LEMMA SeenJobs ==
    ASSUME IInv
    PROVE  /\ \A w \in Lanes : Waiting(w) \subseteq Job /\ Range(taken[w]) \subseteq Job
                               /\ lost[w] \subseteq Job /\ KnownIn(w) \subseteq Seen
           /\ Seen \subseteq Job
           /\ \A j \in Job : j.by \in Submitters /\ j.n \in Nat /\ j.packet \in Packets
<1>1. /\ queue \in [Lanes -> Seq(Job)] /\ taken \in [Lanes -> Seq(Job)]
      /\ lost \in [Lanes -> SUBSET Job] /\ early \subseteq Job
  BY DEF IInv, TypeOK
<1>2. ASSUME NEW s \in Seq(Job) PROVE Range(s) \subseteq Job
  BY ElementOfSeq, LenProperties DEF Range
<1>3. ASSUME NEW w \in Lanes
      PROVE  /\ Waiting(w) \subseteq Job /\ Range(taken[w]) \subseteq Job
             /\ lost[w] \subseteq Job /\ KnownIn(w) \subseteq Seen
  <2>1. queue[w] \in Seq(Job) /\ taken[w] \in Seq(Job)
    BY <1>1
  <2> QED
    BY <1>1, <1>2, <2>1 DEF Waiting, Seen
<1>4. Seen \subseteq Job
  BY <1>1, <1>3 DEF Seen, KnownIn
<1>5. \A j \in Job : j.by \in Submitters /\ j.n \in Nat /\ j.packet \in Packets
  BY TrafficsAssumption DEF Job
<1> QED
  BY <1>3, <1>4, <1>5

\* What putting a job and removing the oldest one do to a lane.
LEMMA PutMoves ==
    ASSUME IInv, NEW w \in Lanes, NEW j \in Job, queue' = [queue EXCEPT ![w] = Append(queue[w], j)]
    PROVE  /\ Waiting(w)' = Waiting(w) \cup {j} /\ queue'[w] = Append(queue[w], j)
           /\ \A v \in Lanes : v # w => queue'[v] = queue[v] /\ Waiting(v)' = Waiting(v)
<1>1. queue \in [Lanes -> Seq(Job)]
  BY DEF IInv, TypeOK
<1>2. queue'[w] = Append(queue[w], j) /\ \A v \in Lanes : v # w => queue'[v] = queue[v]
  BY <1>1
<1>3. Range(Append(queue[w], j)) = Range(queue[w]) \cup {j}
  BY <1>1, RangeAppend
<1> QED
  BY <1>2, <1>3 DEF Waiting

LEMMA HeadMoves ==
    ASSUME IInv, NEW w \in Lanes, queue[w] # << >>, queue' = [queue EXCEPT ![w] = Tail(queue[w])]
    PROVE  /\ Waiting(w) = {Head(queue[w])} \cup Waiting(w)' /\ queue'[w] = Tail(queue[w])
           /\ Head(queue[w]) \in Job
           /\ \A v \in Lanes : v # w => queue'[v] = queue[v] /\ Waiting(v)' = Waiting(v)
<1>1. queue \in [Lanes -> Seq(Job)]
  BY DEF IInv, TypeOK
<1>2. queue'[w] = Tail(queue[w]) /\ \A v \in Lanes : v # w => queue'[v] = queue[v]
  BY <1>1
<1>3. Range(queue[w]) = {Head(queue[w])} \cup Range(Tail(queue[w]))
  BY <1>1, RangeTail
<1> QED
  BY <1>2, <1>3, LaneHead DEF Waiting

\* A job that a thread places becomes known in its lane, and early if close() has not
\* begun; nothing else does.
LEMMA KnownMoves ==
    ASSUME IInv
    PROVE  /\ \A s \in Submitters, w \in Lanes, j \in Job : PlacesMine(s, w, j) =>
                  /\ KnownIn(w)' = KnownIn(w) \cup {j} /\ early' \subseteq early \cup {j}
                  /\ \A v \in Lanes : v # w => KnownIn(v)' = KnownIn(v)
           /\ Quiet \/ (\E w \in Lanes : Evicts(w) \/ Takes(w)) =>
                  early' = early /\ \A v \in Lanes : KnownIn(v)' = KnownIn(v)
<1>1. /\ taken \in [Lanes -> Seq(Job)] /\ lost \in [Lanes -> SUBSET Job]
  BY DEF IInv, TypeOK
<1>2. ASSUME NEW s \in Submitters, NEW w \in Lanes, NEW j \in Job, PlacesMine(s, w, j)
      PROVE  /\ KnownIn(w)' = KnownIn(w) \cup {j} /\ early' \subseteq early \cup {j}
             /\ \A v \in Lanes : v # w => KnownIn(v)' = KnownIn(v)
  <2>1. CASE Puts(w, j)
    BY <2>1, PutMoves DEF Puts, KnownIn
  <2>2. CASE Refuses(w, j)
    <3>1. /\ lost'[w] = lost[w] \cup {j} /\ \A v \in Lanes : v # w => lost'[v] = lost[v]
          /\ UNCHANGED <<queue, taken, early>>
      BY <1>1, <2>2 DEF Refuses
    <3> QED
      BY <3>1 DEF KnownIn, Waiting
  <2> QED
    BY <1>2, <2>1, <2>2 DEF PlacesMine
<1>3. ASSUME NEW w \in Lanes, Evicts(w)
      PROVE  early' = early /\ \A v \in Lanes : KnownIn(v)' = KnownIn(v)
  <2>1. /\ lost'[w] = lost[w] \cup {Head(queue[w])} /\ \A v \in Lanes : v # w => lost'[v] = lost[v]
        /\ UNCHANGED <<taken, early>>
    BY <1>1, <1>3 DEF Evicts
  <2>2. /\ Waiting(w) = {Head(queue[w])} \cup Waiting(w)'
        /\ \A v \in Lanes : v # w => Waiting(v)' = Waiting(v)
    BY <1>3, HeadMoves DEF Evicts
  <2> QED
    BY <2>1, <2>2 DEF KnownIn
<1>4. ASSUME NEW w \in Lanes, Takes(w)
      PROVE  early' = early /\ \A v \in Lanes : KnownIn(v)' = KnownIn(v)
  <2>1. /\ taken'[w] = Append(taken[w], Head(queue[w]))
        /\ \A v \in Lanes : v # w => taken'[v] = taken[v]
        /\ UNCHANGED <<lost, early>>
    BY <1>1, <1>4 DEF Takes
  <2>2. /\ Waiting(w) = {Head(queue[w])} \cup Waiting(w)' /\ Head(queue[w]) \in Job
        /\ \A v \in Lanes : v # w => Waiting(v)' = Waiting(v)
    BY <1>4, HeadMoves DEF Takes
  <2>3. Range(taken'[w]) = Range(taken[w]) \cup {Head(queue[w])}
    BY <1>1, <2>1, <2>2, RangeAppend
  <2> QED
    BY <2>1, <2>2, <2>3 DEF KnownIn
<1>5. ASSUME Quiet
      PROVE  early' = early /\ \A v \in Lanes : KnownIn(v)' = KnownIn(v)
  BY <1>5 DEF Quiet, KnownIn, Waiting
<1> QED
  BY <1>2, <1>3, <1>4, <1>5

\* The job a thread is about to place is newer than any of its jobs that is known, and
\* goes to the lane of its conversation.
LEMMA MineIsNew ==
    ASSUME IInv, Fresh, NEW s \in Submitters, NEW w \in Lanes, NEW j \in Job, PlacesMine(s, w, j)
    PROVE  /\ j.by = s /\ j.n = sent[s] /\ LaneOf(j.packet) = w
           /\ \A k \in Seen : k.by = s => k.n < j.n
           /\ j \notin Seen
<1>1. j.by = s /\ j.n = sent[s] /\ LaneOf(j.packet) = w /\ Placed(s) = sent[s] - 1 /\ sent[s] \in Nat
  BY DEF PlacesMine, Mine, MyLane, Placed, IInv, TypeOK
<1>2. ASSUME NEW k \in Seen, k.by = s PROVE k.n < j.n
  <2>1. k.n <= Placed(s) /\ k.n \in Nat
    BY <1>2, SeenJobs DEF Fresh
  <2> QED
    BY <1>1, <2>1
<1>3. j \notin Seen
  BY <1>1, <1>2
<1> QED
  BY <1>1, <1>2, <1>3

\* The known jobs stay those that were placed.
LEMMA FreshStep ==
    ASSUME IInv, Fresh, [Next]_vars
    PROVE  Fresh'
<1>1. \A s \in Submitters : Placed(s) \in Int
  BY DEF Placed, IInv, TypeOK
<1>2. ASSUME NEW s \in Submitters, NEW w \in Lanes, NEW j \in Job, PlacesMine(s, w, j)
      PROVE  Fresh'
  <2>1. Seen' \subseteq Seen \cup {j}
    BY <1>2, KnownMoves DEF Seen
  <2>2. /\ Placed(s)' = sent[s] /\ \A t \in Submitters : t # s => Placed(t)' = Placed(t)
        /\ j.by = s /\ j.n = sent[s] /\ sent[s] \in Nat
    BY <1>2, MineIsNew DEF PlacesMine, IInv, TypeOK
  <2>3. ASSUME NEW k \in Seen' PROVE k.n <= Placed(k.by)'
    <3>1. CASE k = j
      BY <2>2, <3>1
    <3>2. CASE k \in Seen /\ k.by = s
      <4>1. k.n < j.n /\ k.n \in Nat
        BY <1>2, <3>2, MineIsNew, SeenJobs
      <4> QED
        BY <2>2, <3>2, <4>1
    <3>3. CASE k \in Seen /\ k.by # s
      <4>1. Placed(k.by)' = Placed(k.by)
        BY <2>2, <3>3, SeenJobs
      <4> QED
        BY <3>3, <4>1 DEF Fresh
    <3> QED
      BY <2>1, <3>1, <3>2, <3>3
  <2> QED
    BY <2>3 DEF Fresh
<1>3. CASE Quiet \/ \E w \in Lanes : Evicts(w) \/ Takes(w)
  <2>1. Seen' = Seen
    BY <1>3, KnownMoves DEF Seen
  <2>2. \A s \in Submitters : Placed(s)' >= Placed(s) /\ Placed(s)' \in Int
    <3>1. IInv'
      BY StepInv
    <3>2. \A s \in Submitters : Placed(s)' \in Int
      BY <3>1 DEF Placed, IInv, TypeOK
    <3>3. \A s \in Submitters : Placed(s)' >= Placed(s)
      BY <1>1, <1>3 DEF Quiet, Evicts, Takes
    <3> QED
      BY <3>2, <3>3
  <2>3. ASSUME NEW k \in Seen' PROVE k.n <= Placed(k.by)'
    <3>1. k.n <= Placed(k.by) /\ k.n \in Nat /\ k.by \in Submitters
      BY <2>1, SeenJobs DEF Fresh
    <3> QED
      BY <1>1, <2>2, <3>1
  <2> QED
    BY <2>3 DEF Fresh
<1> QED
  BY <1>2, <1>3, Effects

\* They stay in the lanes of their conversations.
LEMMA OwnLaneStep ==
    ASSUME IInv, Fresh, OwnLane, [Next]_vars
    PROVE  OwnLane'
<1>1. ASSUME NEW s \in Submitters, NEW w \in Lanes, NEW j \in Job, PlacesMine(s, w, j)
      PROVE  OwnLane'
  BY <1>1, KnownMoves, MineIsNew DEF OwnLane
<1>2. CASE Quiet \/ \E w \in Lanes : Evicts(w) \/ Takes(w)
  BY <1>2, KnownMoves DEF OwnLane
<1> QED
  BY <1>1, <1>2, Effects

\* They stay in order.
LEMMA InOrderStep ==
    ASSUME IInv, Fresh, InOrder, [Next]_vars
    PROVE  InOrder'
<1>1. /\ taken \in [Lanes -> Seq(Job)] /\ queue \in [Lanes -> Seq(Job)]
      /\ worker \in [Lanes -> WorkerSteps] /\ held \in [Lanes -> Job \cup {NoJob}]
      /\ \A w \in Lanes : Len(queue[w]) \in Nat
  BY LenProperties DEF IInv, TypeOK
<1>2. ASSUME NEW s \in Submitters, NEW w \in Lanes, NEW j \in Job, PlacesMine(s, w, j)
      PROVE  InOrder'
  <2>1. UNCHANGED <<taken, worker, held>>
    BY <1>2 DEF PlacesMine, Puts, Refuses
  <2>2. CASE Puts(w, j)
    <3>1. /\ Waiting(w)' = Waiting(w) \cup {j} /\ queue'[w] = Append(queue[w], j)
          /\ \A v \in Lanes : v # w => queue'[v] = queue[v] /\ Waiting(v)' = Waiting(v)
      BY <2>2, PutMoves DEF Puts
    <3>2. \A k \in KnownIn(w) : k.by = s => k.n < j.n
      BY <1>2, MineIsNew, SeenJobs
    <3>3. j.by = s
      BY <1>2, MineIsNew
    <3>4. QueueInOrder(w)'
      <4>1. /\ Len(queue'[w]) = Len(queue[w]) + 1 /\ queue'[w][Len(queue[w]) + 1] = j
            /\ \A i \in 1 .. Len(queue[w]) : queue'[w][i] = queue[w][i]
        BY <1>1, <3>1, AppendProperties
      <4>2. \A i \in 1 .. Len(queue[w]) : queue[w][i] \in KnownIn(w)
        BY <1>1, LenProperties DEF KnownIn, Waiting, Range
      <4> SUFFICES ASSUME NEW i \in 1 .. Len(queue'[w]), NEW k \in 1 .. Len(queue'[w]),
                          i < k, queue'[w][i].by = queue'[w][k].by
                   PROVE  queue'[w][i].n < queue'[w][k].n
        BY DEF QueueInOrder
      <4>3. i \in 1 .. Len(queue[w])
        BY <1>1, <4>1
      <4>4. CASE k = Len(queue[w]) + 1
        BY <3>2, <3>3, <4>1, <4>2, <4>3, <4>4
      <4>5. CASE k \in 1 .. Len(queue[w])
        BY <4>1, <4>3, <4>5 DEF InOrder, QueueInOrder
      <4> QED
        BY <1>1, <4>1, <4>4, <4>5
    <3>5. TakenFirst(w)'
      BY <2>1, <3>1, <3>2, <3>3 DEF InOrder, TakenFirst, KnownIn
    <3>6. \A v \in Lanes : v # w => QueueInOrder(v)' /\ TakenFirst(v)'
      BY <2>1, <3>1 DEF InOrder, QueueInOrder, TakenFirst
    <3>7. \A v \in Lanes : HeldLast(v)'
      BY <2>1 DEF InOrder, HeldLast
    <3> QED
      BY <3>4, <3>5, <3>6, <3>7 DEF InOrder
  <2>3. CASE Refuses(w, j)
    BY <2>1, <2>3 DEF Refuses, InOrder, QueueInOrder, TakenFirst, HeldLast, Waiting
  <2> QED
    BY <1>2, <2>2, <2>3 DEF PlacesMine
<1>3. ASSUME NEW w \in Lanes, queue[w] # << >>, queue' = [queue EXCEPT ![w] = Tail(queue[w])]
      PROVE  \A v \in Lanes : QueueInOrder(v)'
  <2>1. queue'[w] = Tail(queue[w]) /\ \A v \in Lanes : v # w => queue'[v] = queue[v]
    BY <1>3, HeadMoves
  <2>2. /\ Len(Tail(queue[w])) = Len(queue[w]) - 1
        /\ \A i \in 1 .. Len(Tail(queue[w])) : Tail(queue[w])[i] = queue[w][i + 1]
    BY <1>1, <1>3, HeadTailProperties
  <2>3. QueueInOrder(w)'
    <3> SUFFICES ASSUME NEW i \in 1 .. Len(queue'[w]), NEW k \in 1 .. Len(queue'[w]),
                        i < k, queue'[w][i].by = queue'[w][k].by
                 PROVE  queue'[w][i].n < queue'[w][k].n
      BY DEF QueueInOrder
    <3>1. /\ i + 1 \in 1 .. Len(queue[w]) /\ k + 1 \in 1 .. Len(queue[w]) /\ i + 1 < k + 1
          /\ queue'[w][i] = queue[w][i + 1] /\ queue'[w][k] = queue[w][k + 1]
      BY <1>1, <2>1, <2>2
    <3> QED
      BY <3>1 DEF InOrder, QueueInOrder
  <2>4. \A v \in Lanes : v # w => QueueInOrder(v)'
    BY <2>1 DEF InOrder, QueueInOrder
  <2> QED
    BY <2>3, <2>4
<1>4. ASSUME NEW w \in Lanes, Evicts(w) PROVE InOrder'
  <2>1. /\ Waiting(w) = {Head(queue[w])} \cup Waiting(w)'
        /\ \A v \in Lanes : v # w => Waiting(v)' = Waiting(v)
        /\ UNCHANGED <<taken, worker, held>>
    BY <1>4, HeadMoves DEF Evicts
  <2>2. \A v \in Lanes : QueueInOrder(v)'
    BY <1>3, <1>4 DEF Evicts
  <2>3. \A v \in Lanes : TakenFirst(v)' /\ HeldLast(v)'
    BY <2>1 DEF InOrder, TakenFirst, HeldLast
  <2> QED
    BY <2>2, <2>3 DEF InOrder
<1>5. ASSUME NEW w \in Lanes, Takes(w) PROVE InOrder'
  <2> DEFINE h == Head(queue[w])
  <2>1. /\ Waiting(w) = {h} \cup Waiting(w)' /\ h \in Job /\ queue'[w] = Tail(queue[w])
        /\ \A v \in Lanes : v # w => Waiting(v)' = Waiting(v)
    BY <1>5, HeadMoves DEF Takes
  <2>2. \A v \in Lanes : QueueInOrder(v)'
    BY <1>3, <1>5 DEF Takes
  <2>3. /\ taken'[w] = Append(taken[w], h) /\ held'[w] = h
        /\ \A v \in Lanes : v # w => taken'[v] = taken[v] /\ held'[v] = held[v] /\ worker'[v] = worker[v]
    BY <1>1, <1>5 DEF Takes
  <2>4. Range(taken'[w]) = Range(taken[w]) \cup {h}
    BY <1>1, <2>1, <2>3, RangeAppend
  <2>5. \A a \in Waiting(w)' : a.by = h.by => h.n < a.n
    <3> SUFFICES ASSUME NEW i \in DOMAIN Tail(queue[w]), Tail(queue[w])[i].by = h.by
                 PROVE  h.n < Tail(queue[w])[i].n
      BY <2>1 DEF Waiting, Range
    <3>1. /\ Len(Tail(queue[w])) = Len(queue[w]) - 1 /\ Tail(queue[w]) \in Seq(Job)
          /\ \A k \in 1 .. Len(Tail(queue[w])) : Tail(queue[w])[k] = queue[w][k + 1]
      BY <1>1, <1>5, HeadTailProperties DEF Takes
    <3>2. /\ 1 \in 1 .. Len(queue[w]) /\ i + 1 \in 1 .. Len(queue[w]) /\ 1 < i + 1
          /\ h = queue[w][1] /\ Tail(queue[w])[i] = queue[w][i + 1]
      BY <1>1, <3>1, LenProperties
    <3> QED
      BY <3>2 DEF InOrder, QueueInOrder
  <2> HIDE DEF h
  <2>6. TakenFirst(w)'
    BY <2>1, <2>4, <2>5 DEF InOrder, TakenFirst
  <2>7. HeldLast(w)'
    <3>1. \A b \in Range(taken[w]) : b.by = h.by => b.n <= h.n
      <4>1. \A b \in Range(taken[w]) : b.by = h.by => b.n < h.n /\ b.n \in Nat
        BY <2>1, SeenJobs DEF InOrder, TakenFirst
      <4> QED
        BY <2>1, <4>1, SeenJobs
    <3>2. h.n <= h.n
      BY <2>1, SeenJobs
    <3> QED
      BY <2>3, <2>4, <3>1, <3>2 DEF HeldLast
  <2>8. \A v \in Lanes : v # w => TakenFirst(v)' /\ HeldLast(v)'
    BY <2>1, <2>3 DEF InOrder, TakenFirst, HeldLast
  <2> QED
    BY <2>2, <2>6, <2>7, <2>8 DEF InOrder
<1>6. CASE Quiet
  BY <1>6 DEF Quiet, InOrder, QueueInOrder, TakenFirst, HeldLast, Waiting
<1> QED
  BY <1>2, <1>4, <1>5, <1>6, Effects

\* Before the first job all of this holds.
LEMMA JobsInit == Init => Fresh /\ OwnLane /\ InOrder
<1> SUFFICES ASSUME Init PROVE Fresh /\ OwnLane /\ InOrder
  OBVIOUS
<1>1. ASSUME NEW w \in Lanes
      PROVE  /\ queue[w] = << >> /\ taken[w] = << >> /\ lost[w] = {} /\ worker[w] \notin Busy
  BY DEF Init, Busy
<1>2. early = {} /\ Range(<< >>) = {} /\ Len(<< >>) = 0
  BY EmptySeq DEF Init, Range
<1>3. Seen = {} /\ \A w \in Lanes : KnownIn(w) = {} /\ Waiting(w) = {}
  BY <1>1, <1>2 DEF Seen, KnownIn, Waiting
<1>4. ASSUME NEW w \in Lanes PROVE QueueInOrder(w) /\ TakenFirst(w) /\ HeldLast(w)
  BY <1>1, <1>2, <1>3 DEF QueueInOrder, TakenFirst, HeldLast
<1> QED
  BY <1>3, <1>4 DEF Fresh, OwnLane, InOrder

\* So the known jobs are new, in their lanes and in order in every reachable state.
LEMMA JobsInvariance == Spec => [](IInv /\ Fresh /\ OwnLane /\ InOrder)
<1>1. IInv /\ Fresh /\ OwnLane /\ InOrder /\ [Next]_vars
        => IInv' /\ Fresh' /\ OwnLane' /\ InOrder'
  BY StepInv, FreshStep, OwnLaneStep, InOrderStep
<1> QED
  BY <1>1, InitInv, JobsInit, PTL DEF Spec

\* Packets of one conversation are processed in the order in which one thread submitted
\* them, in either direction, for every number of lanes and every hash of the flow keys.
THEOREM ConversationsInOrder == Spec => []FlowOrder
<1>1. IInv /\ Fresh /\ OwnLane /\ InOrder => FlowOrder
  <2> SUFFICES ASSUME IInv, OwnLane, InOrder, NEW w \in Lanes, NEW v \in Lanes,
                      NEW b \in Range(taken[w]), NEW a \in Waiting(v) \cup Working(v),
                      a.by = b.by,
                      {a.packet.src, a.packet.dst} = {b.packet.src, b.packet.dst}
               PROVE  b.n <= a.n
    BY DEF FlowOrder
  <2>1. a \in Waiting(v) \/ (worker[v] \in Busy /\ a = held[v])
    BY DEF Working, Busy
  <2>2. a \in KnownIn(v) /\ b \in KnownIn(w)
    BY <2>1 DEF KnownIn, InOrder, HeldLast
  <2>3. w = v
    <3>1. LaneOf(a.packet) = LaneOf(b.packet)
      BY DEF LaneOf, DispatchKey
    <3> QED
      BY <2>2, <3>1 DEF OwnLane
  <2>4. CASE a \in Waiting(v)
    <3>1. b.n < a.n
      BY <2>3, <2>4 DEF InOrder, TakenFirst
    <3>2. a.n \in Nat /\ b.n \in Nat
      BY <2>2, SeenJobs
    <3> QED
      BY <3>1, <3>2
  <2>5. CASE worker[v] \in Busy /\ a = held[v]
    BY <2>3, <2>5 DEF InOrder, HeldLast
  <2> QED
    BY <2>1, <2>4, <2>5
<1> QED
  BY <1>1, JobsInvariance, PTL

-----------------------------------------------------------------------------
(* Every lane is a lossy FIFO. *)

\* A step of the pool is a step of every lane's abstract FIFO, or leaves it alone.
LEMMA LaneRefinement ==
    ASSUME IInv, Fresh, [Next]_vars, NEW v \in Lanes
    PROVE  LossyLane(v)!Next \/ UNCHANGED LossyLane(v)!vars
<1>1. /\ queue \in [Lanes -> Seq(Job)] /\ taken \in [Lanes -> Seq(Job)]
      /\ lost \in [Lanes -> SUBSET Job]
  BY DEF IInv, TypeOK
<1>2. LossyLane(v)!Known \subseteq Seen
  BY SeenJobs DEF LossyLane!Known, LossyLane!Range, Range, KnownIn, Waiting
<1>3. ASSUME NEW s \in Submitters, NEW w \in Lanes, NEW j \in Job, PlacesMine(s, w, j)
      PROVE  LossyLane(v)!Next \/ UNCHANGED LossyLane(v)!vars
  <2>1. j \notin LossyLane(v)!Known
    BY <1>2, <1>3, MineIsNew
  <2>2. CASE Puts(w, j)
    <3>1. /\ queue'[v] = IF v = w THEN Append(queue[v], j) ELSE queue[v]
          /\ taken'[v] = taken[v] /\ lost'[v] = lost[v]
      BY <1>1, <2>2 DEF Puts
    <3>2. LossyLane(v)!Send(j) \/ UNCHANGED LossyLane(v)!vars
      BY <2>1, <3>1 DEF LossyLane!Send, LossyLane!vars
    <3> QED
      BY <3>2 DEF LossyLane!Next
  <2>3. CASE Refuses(w, j)
    <3>1. /\ lost'[v] = IF v = w THEN lost[v] \cup {j} ELSE lost[v]
          /\ taken'[v] = taken[v] /\ queue'[v] = queue[v]
      BY <1>1, <2>3 DEF Refuses
    <3>2. LossyLane(v)!RefuseNewest(j) \/ UNCHANGED LossyLane(v)!vars
      BY <2>1, <3>1 DEF LossyLane!RefuseNewest, LossyLane!vars
    <3> QED
      BY <3>2 DEF LossyLane!Next
  <2> QED
    BY <1>3, <2>2, <2>3 DEF PlacesMine
<1>4. ASSUME NEW w \in Lanes, Evicts(w)
      PROVE  LossyLane(v)!LoseOldest \/ UNCHANGED LossyLane(v)!vars
  <2>1. /\ queue[w] # << >> /\ taken'[v] = taken[v]
        /\ queue'[v] = IF v = w THEN Tail(queue[v]) ELSE queue[v]
        /\ lost'[v] = IF v = w THEN lost[v] \cup {Head(queue[v])} ELSE lost[v]
    BY <1>1, <1>4 DEF Evicts
  <2> QED
    BY <2>1 DEF LossyLane!LoseOldest, LossyLane!vars
<1>5. ASSUME NEW w \in Lanes, Takes(w)
      PROVE  LossyLane(v)!Take \/ UNCHANGED LossyLane(v)!vars
  <2>1. /\ queue[w] # << >> /\ lost'[v] = lost[v]
        /\ queue'[v] = IF v = w THEN Tail(queue[v]) ELSE queue[v]
        /\ taken'[v] = IF v = w THEN Append(taken[v], Head(queue[v])) ELSE taken[v]
    BY <1>1, <1>5 DEF Takes
  <2> QED
    BY <2>1 DEF LossyLane!Take, LossyLane!vars
<1>6. CASE Quiet
  BY <1>6 DEF Quiet, LossyLane!vars
<1> QED
  BY <1>3, <1>4, <1>5, <1>6, Effects DEF LossyLane!Next

\* Whatever the overflow policy, the jobs of a lane come out once and in the order in
\* which they went in, but for the oldest one of a full lane or the one that arrives.
THEOREM LanesAreLossyFifos == Spec => ImplementsLossyFifo
<1>1. Init => \A w \in Lanes : LossyLane(w)!Init
  BY DEF Init, LossyLane!Init
<1>2. IInv /\ Fresh /\ [Next]_vars
        => [\A w \in Lanes : LossyLane(w)!Next \/ UNCHANGED LossyLane(w)!vars]_lanes
  BY LaneRefinement
<1> QED
  BY <1>1, <1>2, JobsInvariance, PTL DEF Spec, ImplementsLossyFifo

-----------------------------------------------------------------------------
(* close(): what it may say of the jobs that were put before it began. *)

\* The threads leave only after close() has stopped them, and the current poll has
\* asked the lanes from the first one on.
CloseOrder ==
    /\ stop => closer = "stopping"
    /\ \A w \in Lanes : worker[w] = "exited" => stop
    /\ closer = "open" => scanned = {}
    /\ scanned = 0 .. NextLane - 1
    /\ drained = "yes" => scanned = Lanes /\ closer \in {"drained", "stopping"}

\* A lane that was found idle has no early job any more, and gets none.
ScannedClear == \A w \in scanned : early \cap (Waiting(w) \cup Working(w)) = {}

CInv == IInv /\ Fresh /\ CloseOrder /\ ScannedClear /\ NoneLeftBehind

\* unfinished_tasks is zero only for a lane that is empty and whose thread has no job.
LEMMA IdleLane ==
    ASSUME IInv, NEW w \in Lanes, unfinished[w] = 0
    PROVE  Waiting(w) = {} /\ worker[w] \notin Busy
<1>1. queue[w] \in Seq(Job) /\ Len(queue[w]) \in Nat /\ Evicting(w) \in Nat
  BY LenProperties, SubmittersAssumption, CountNat DEF IInv, TypeOK, Evicting
<1>2. 0 - (Len(queue[w]) + Evicting(w)) = WorkerHolds(w)
  BY DEF IInv, UnfinishedExact, Outstanding
<1>3. Len(queue[w]) = 0 /\ worker[w] \notin Busy
  <2>1. WorkerHolds(w) \in {0, 1} /\ (worker[w] \in Busy => WorkerHolds(w) = 1)
    BY DEF WorkerHolds
  <2>2. Len(queue[w]) \in Nat /\ Evicting(w) \in Nat
    BY <1>1
  <2>3. Len(queue[w]) + Evicting(w) + WorkerHolds(w) = 0
    BY <1>2, <2>1, <2>2
  <2>4. WorkerHolds(w) = 0 /\ Len(queue[w]) = 0
    BY <2>1, <2>2, <2>3
  <2> QED
    BY <2>1, <2>4
<1> QED
  BY <1>1, <1>3, LenProperties DEF Waiting, Range

\* Who moves what: only close() changes where it is, and only a lane's own thread
\* leaves, when it is stopped and its lane is empty.
LEMMA CloseMoves ==
    ASSUME IInv, [Next]_vars
    PROVE  /\ CloseStep \/ UNCHANGED <<stop, closer, scanned, drained>>
           /\ \A w \in Lanes : worker'[w] = "exited" =>
                  worker[w] = "exited" \/ (stop /\ queue'[w] = << >>)
<1>1. worker \in [Lanes -> WorkerSteps]
  BY DEF IInv, TypeOK
<1>2. ASSUME NEW s \in Submitters, Submit(s) \/ SubmitStep(s)
      PROVE  UNCHANGED <<worker, stop, closer, scanned, drained>>
  BY <1>2 DEF Submit, SubmitStep, ProcessInline, Enqueue, EvictOldest, EvictedDone, DropOldest,
              PutAgain, DropMine, RejectMine, lanes, closing
<1>3. ASSUME NEW w \in Lanes, WorkerStep(w)
      PROVE  /\ UNCHANGED <<stop, closer, scanned, drained>>
             /\ \A v \in Lanes : worker'[v] = "exited" =>
                    worker[v] = "exited" \/ (stop /\ queue'[v] = << >>)
  <2>1. CASE WorkerCheck(w)
    BY <1>1, <2>1 DEF WorkerCheck, WorkerGoto, GoOn, closing
  <2>2. CASE WorkerGet(w) \/ WorkerProcess(w) \/ WorkerComplete(w) \/ WorkerFinish(w)
    <3>1. /\ UNCHANGED <<stop, closer, scanned, drained>>
          /\ \E b \in {"busy", "check", "done", "finish"} : worker' = [worker EXCEPT ![w] = b]
      BY <2>2 DEF WorkerGet, WorkerProcess, WorkerComplete, WorkerFinish, WorkerGoto,
                  AfterFailure, closing
    <3> QED
      BY <1>1, <3>1
  <2> QED
    BY <1>3, <2>1, <2>2 DEF WorkerStep
<1>4. CASE CloseStep \/ UNCHANGED vars
  BY <1>4 DEF CloseStep, CloseBegin, DrainPoll, CloseStop, vars, lanes, closing
<1> QED
  BY <1>2, <1>3, <1>4 DEF Next

\* The lane that a poll asks next is the first it has not asked.
LEMMA NextLaneSound ==
    ASSUME IInv, CloseOrder
    PROVE  /\ NextLane \in Nat /\ NextLane \notin scanned /\ IsFiniteSet(scanned)
           /\ Cardinality(scanned \cup {NextLane}) = NextLane + 1
           /\ scanned \cup {NextLane} = 0 .. NextLane
           /\ NextLane \notin Lanes => scanned = Lanes
<1>1. scanned \subseteq Lanes /\ scanned = 0 .. NextLane - 1
  BY DEF IInv, TypeOK, CloseOrder
<1>2. IsFiniteSet(scanned) /\ NextLane \in Nat
  BY <1>1, LanesSound, FS_Subset, FS_CardinalityType DEF NextLane
<1>3. NextLane \notin scanned /\ scanned \cup {NextLane} = 0 .. NextLane
  BY <1>1, <1>2
<1>4. Cardinality(scanned \cup {NextLane}) = NextLane + 1
  BY <1>2, <1>3, FS_AddElement DEF NextLane
<1>5. NextLane \notin Lanes => scanned = Lanes
  BY <1>1, <1>2, CapacityAssumption DEF Lanes
<1> QED
  BY <1>2, <1>3, <1>4, <1>5

\* What one step of close() does to its own state.
LEMMA CloseStepOrder ==
    ASSUME IInv, CloseOrder, CloseStep
    PROVE  /\ CloseOrder'
           /\ \A w \in scanned' : w \in scanned \/ unfinished[w] = 0
<1>1. UNCHANGED worker
  BY DEF CloseStep, CloseBegin, DrainPoll, CloseStop, lanes
<1>2. CASE CloseBegin \/ CloseStop
  BY <1>1, <1>2 DEF CloseBegin, CloseStop, CloseOrder, NextLane
<1>3. CASE DrainPoll
  <2>1. closer = "draining" /\ ~stop /\ drained # "yes" /\ UNCHANGED <<stop, worker>>
    BY <1>1, <1>3 DEF DrainPoll, CloseOrder
  <2>2. CASE /\ Idle(NextLane) /\ scanned' = scanned \cup {NextLane}
             /\ UNCHANGED <<closer, drained>>
    <3>1. NextLane' = NextLane + 1 /\ scanned' = 0 .. NextLane' - 1
      <4>1. NextLane' = Cardinality(scanned \cup {NextLane})
        BY <2>2 DEF NextLane
      <4>2. NextLane' = NextLane + 1 /\ NextLane \in Nat
        BY <4>1, NextLaneSound
      <4>3. NextLane' - 1 = NextLane
        BY <4>2
      <4>4. scanned' = 0 .. NextLane
        BY <2>2, NextLaneSound, Zenon
      <4> QED
        BY <4>2, <4>3, <4>4, Zenon
    <3> QED
      BY <2>1, <2>2, <3>1 DEF CloseOrder, Idle
  <2>3. CASE /\ scanned' = {}
             /\ (closer' = "drained" /\ drained' = "no") \/ UNCHANGED <<closer, drained>>
    <3>1. NextLane' = 0
      BY <2>3, FS_EmptySet DEF NextLane
    <3> QED
      BY <2>1, <2>3, <3>1 DEF CloseOrder
  <2>4. CASE NextLane \notin Lanes /\ closer' = "drained" /\ drained' = "yes" /\ UNCHANGED scanned
    BY <2>1, <2>4, NextLaneSound DEF CloseOrder, NextLane
  <2> QED
    BY <1>3, <2>2, <2>3, <2>4 DEF DrainPoll
<1> QED
  BY <1>2, <1>3 DEF CloseStep

\* A job that is placed after close() began is not an early one; the others stay away.
LEMMA CloseInvStep ==
    ASSUME CInv, [Next]_vars
    PROVE  CInv'
<1>1. IInv' /\ Fresh'
  BY StepInv, FreshStep DEF CInv
<1>2. CloseOrder' /\ \A w \in scanned' : w \in scanned \/ unfinished[w] = 0
  <2>1. CASE CloseStep
    BY <2>1, CloseStepOrder DEF CInv
  <2>2. CASE UNCHANGED <<stop, closer, scanned, drained>>
    BY <2>2, CloseMoves DEF CInv, CloseOrder, NextLane
  <2> QED
    BY <2>1, <2>2, CloseMoves DEF CInv
<1>3. scanned' \subseteq Lanes /\ scanned \subseteq Lanes /\ worker \in [Lanes -> WorkerSteps]
      /\ held \in [Lanes -> Job \cup {NoJob}]
  BY <1>1 DEF CInv, IInv, TypeOK
<1>4. ASSUME NEW s \in Submitters, NEW w \in Lanes, NEW j \in Job, PlacesMine(s, w, j)
      PROVE  /\ closer # "open" =>
                    /\ early' = early
                    /\ \A v \in Lanes : early \cap Waiting(v)' = early \cap Waiting(v)
             /\ UNCHANGED <<worker, held, stop, closer, scanned>>
  <2>1. j \notin early
    BY <1>4, MineIsNew DEF Seen, CInv
  <2>2. CASE Puts(w, j)
    <3>1. /\ Waiting(w)' = Waiting(w) \cup {j}
          /\ \A v \in Lanes : v # w => Waiting(v)' = Waiting(v)
      BY <2>2, PutMoves DEF Puts, CInv
    <3>2. \A v \in Lanes : early \cap Waiting(v)' = early \cap Waiting(v)
      BY <2>1, <3>1
    <3> QED
      BY <1>4, <2>2, <3>2 DEF Puts, PlacesMine
  <2>3. CASE Refuses(w, j)
    BY <1>4, <2>3 DEF Refuses, PlacesMine, Waiting
  <2> QED
    BY <1>4, <2>2, <2>3 DEF PlacesMine
<1>5. ASSUME NEW w \in Lanes, Evicts(w) \/ Takes(w)
      PROVE  /\ early' = early /\ UNCHANGED <<stop, closer, scanned>>
             /\ \A v \in Lanes : /\ Waiting(v)' \subseteq Waiting(v)
                                 /\ Working(v)' \subseteq Waiting(v) \cup Working(v)
  <2>1. /\ Waiting(w) = {Head(queue[w])} \cup Waiting(w)'
        /\ \A v \in Lanes : v # w => Waiting(v)' = Waiting(v)
        /\ early' = early /\ UNCHANGED <<stop, closer, scanned>>
    BY <1>5, HeadMoves DEF Evicts, Takes, CInv
  <2>2. CASE Evicts(w)
    BY <2>1, <2>2 DEF Evicts, Working
  <2>3. CASE Takes(w)
    <3>1. /\ held'[w] = Head(queue[w])
          /\ \A v \in Lanes : v # w => held'[v] = held[v] /\ worker'[v] = worker[v]
      BY <1>3, <2>3 DEF Takes
    <3> QED
      BY <2>1, <3>1 DEF Working
  <2> QED
    BY <1>5, <2>2, <2>3
<1>6. ASSUME Quiet
      PROVE  /\ early' = early
             /\ \A v \in Lanes : Waiting(v)' = Waiting(v) /\ Working(v)' \subseteq Working(v)
  BY <1>6 DEF Quiet, Waiting, Working, Busy
<1>7. ScannedClear'
  <2>1. ASSUME NEW s \in Submitters, NEW w \in Lanes, NEW j \in Job, PlacesMine(s, w, j)
        PROVE  ScannedClear'
    BY <1>3, <1>4, <2>1 DEF CInv, CloseOrder, ScannedClear, Working
  <2>2. ASSUME NEW w \in Lanes, Evicts(w) \/ Takes(w) PROVE ScannedClear'
    BY <1>3, <1>5, <2>2 DEF CInv, ScannedClear
  <2>3. CASE Quiet
    <3>1. ASSUME NEW w \in Lanes, unfinished[w] = 0 PROVE Waiting(w) = {} /\ Working(w) = {}
      BY <3>1, IdleLane DEF CInv, Working, Busy
    <3> QED
      BY <1>2, <1>3, <1>6, <2>3, <3>1 DEF CInv, ScannedClear
  <2> QED
    BY <2>1, <2>2, <2>3, Effects DEF CInv
<1>8. NoneLeftBehind'
  <2>1. \A w \in Lanes : worker'[w] = "exited" =>
            worker[w] = "exited" \/ Waiting(w)' = {}
    BY CloseMoves, EmptySeq DEF CInv, Waiting, Range
  <2>2. \A w \in Lanes : worker[w] = "exited" => closer # "open"
    BY DEF CInv, CloseOrder
  <2>3. \A w \in Lanes : worker[w] = "exited" => early' \cap Waiting(w)' = {}
    <3>1. ASSUME NEW s \in Submitters, NEW w \in Lanes, NEW j \in Job, PlacesMine(s, w, j),
                 NEW v \in Lanes, worker[v] = "exited"
          PROVE  early' \cap Waiting(v)' = {}
      BY <1>4, <2>2, <3>1 DEF CInv, NoneLeftBehind
    <3>2. CASE Quiet \/ \E w \in Lanes : Evicts(w) \/ Takes(w)
      BY <1>5, <1>6, <3>2 DEF CInv, NoneLeftBehind
    <3> QED
      BY <3>1, <3>2, Effects DEF CInv
  <2> QED
    BY <2>1, <2>3 DEF NoneLeftBehind
<1> QED
  BY <1>1, <1>2, <1>7, <1>8 DEF CInv

\* Before close() all of this holds.
LEMMA CloseInit == Init => CInv
<1> SUFFICES ASSUME Init PROVE CInv
  OBVIOUS
<1>1. IInv /\ Fresh
  BY InitInv, JobsInit
<1>2. /\ stop = FALSE /\ closer = "open" /\ scanned = {} /\ drained = "unknown" /\ early = {}
      /\ \A w \in Lanes : worker[w] # "exited"
  BY DEF Init
<1>3. NextLane = 0
  BY <1>2, FS_EmptySet DEF NextLane
<1> QED
  BY <1>1, <1>2, <1>3 DEF CInv, CloseOrder, ScannedClear, NoneLeftBehind

\* What close() relies on holds in every reachable state.
LEMMA CloseInvariance == Spec => []CInv
BY CloseInit, CloseInvStep, PTL DEF Spec

\* When close() answers True no job that was put before it began is pending, however
\* the threads of submit() and of the lanes interleave with the poll of the lanes.
THEOREM DrainSound == Spec => []DrainTrustworthy
<1>1. CInv => DrainTrustworthy
  <2> SUFFICES ASSUME CInv, drained = "yes" PROVE early \cap Pending = {}
    BY DEF DrainTrustworthy
  <2>1. scanned = Lanes
    BY DEF CInv, CloseOrder
  <2> QED
    BY <2>1 DEF CInv, ScannedClear, Pending
<1> QED
  BY <1>1, CloseInvariance, PTL

-----------------------------------------------------------------------------
(* The books of the pool. *)

\* How many jobs a submitter has in hand at a step of submit(): its own one, and from
\* the eviction until it is counted also the evicted one.
Inside == SubmitSteps \ {"idle"}
Two == {"evicted", "dropOldest"}
Carries(step) == IF step = "idle" THEN 0 ELSE IF step \in Two THEN 2 ELSE 1
InHand == HowMany(Submitters, pc, Inside) + HowMany(Submitters, pc, Two)
Carrying == {"busy", "done"}
AtWork == HowMany(Lanes, worker, Carrying)
Counted == processed + failed + dropped + rejected

\* The places are the positions of the jobs in their lanes.
LEMMA PlacesAre ==
    ASSUME queue \in [Lanes -> Seq(Job)]
    PROVE  Places = {x \in Lanes \X Nat : x[2] \in 1 .. Len(queue[x[1]])}
<1>1. \A w \in Lanes : DOMAIN queue[w] = 1 .. Len(queue[w]) /\ Len(queue[w]) \in Nat
  BY LenProperties
<1> QED
  BY <1>1 DEF Places

\* Putting a job occupies one place, removing the oldest one frees one.
LEMMA PlaceTaken ==
    ASSUME IInv, IsFiniteSet(Places), NEW w \in Lanes, NEW j \in Job,
           queue' = [queue EXCEPT ![w] = Append(queue[w], j)], queue' \in [Lanes -> Seq(Job)]
    PROVE  IsFiniteSet(Places') /\ Cardinality(Places') = Cardinality(Places) + 1
<1> DEFINE n == Len(queue[w]) + 1
<1>1. queue \in [Lanes -> Seq(Job)] /\ \A v \in Lanes : Len(queue[v]) \in Nat
  BY LenProperties DEF IInv, TypeOK
<1>2. Len(queue'[w]) = n /\ \A v \in Lanes : v # w => Len(queue'[v]) = Len(queue[v])
  <2>1. Len(Append(queue[w], j)) = n
    BY <1>1, AppendProperties
  <2> QED
    BY <1>1, <2>1
<1>3. n \in Nat /\ Len(queue[w]) = n - 1
  BY <1>1
<1> HIDE DEF n
<1>4. ASSUME NEW x \in Lanes \X Nat
      PROVE  x[2] \in 1 .. Len(queue'[x[1]])
               <=> x[2] \in 1 .. Len(queue[x[1]]) \/ x = <<w, n>>
  <2>1. PICK v \in Lanes, i \in Nat : x = <<v, i>>
    OBVIOUS
  <2>2. CASE v = w
    BY <1>2, <1>3, <2>1, <2>2
  <2>3. CASE v # w
    BY <1>2, <2>1, <2>3
  <2> QED
    BY <2>2, <2>3
<1>5. <<w, n>> \in Lanes \X Nat /\ <<w, n>> \notin Places
  BY <1>1, <1>3, PlacesAre
<1>6. Places' = {x \in Lanes \X Nat : x[2] \in 1 .. Len(queue'[x[1]])}
  <2>1. \A v \in Lanes : DOMAIN queue'[v] = 1 .. Len(queue'[v]) /\ Len(queue'[v]) \in Nat
    BY LenProperties
  <2> QED
    BY <2>1 DEF Places
<1>7. Places' = Places \cup {<<w, n>>}
  BY <1>1, <1>4, <1>5, <1>6, PlacesAre
<1> QED
  BY <1>5, <1>7, FS_AddElement

LEMMA PlaceFreed ==
    ASSUME IInv, IsFiniteSet(Places), NEW w \in Lanes, queue[w] # << >>,
           queue' = [queue EXCEPT ![w] = Tail(queue[w])], queue' \in [Lanes -> Seq(Job)]
    PROVE  IsFiniteSet(Places') /\ Cardinality(Places') = Cardinality(Places) - 1
<1> DEFINE n == Len(queue[w])
<1>1. queue \in [Lanes -> Seq(Job)] /\ \A v \in Lanes : Len(queue[v]) \in Nat
  BY LenProperties DEF IInv, TypeOK
<1>2. Len(queue'[w]) = n - 1 /\ \A v \in Lanes : v # w => Len(queue'[v]) = Len(queue[v])
  <2>1. Len(Tail(queue[w])) = n - 1
    BY LaneHead
  <2> QED
    BY <1>1, <2>1
<1>3. n \in Nat /\ n >= 1 /\ Len(queue[w]) = n
  BY <1>1, EmptySeq
<1> HIDE DEF n
<1>4. ASSUME NEW x \in Lanes \X Nat
      PROVE  x[2] \in 1 .. Len(queue'[x[1]])
               <=> x[2] \in 1 .. Len(queue[x[1]]) /\ x # <<w, n>>
  <2>1. PICK v \in Lanes, i \in Nat : x = <<v, i>>
    OBVIOUS
  <2>2. CASE v = w
    BY <1>2, <1>3, <2>1, <2>2
  <2>3. CASE v # w
    BY <1>2, <2>1, <2>3
  <2> QED
    BY <2>2, <2>3
<1>5. <<w, n>> \in Places
  BY <1>1, <1>3, PlacesAre
<1>6. Places' = {x \in Lanes \X Nat : x[2] \in 1 .. Len(queue'[x[1]])}
  <2>1. \A v \in Lanes : DOMAIN queue'[v] = 1 .. Len(queue'[v]) /\ Len(queue'[v]) \in Nat
    BY LenProperties
  <2> QED
    BY <2>1 DEF Places
<1>7. Places' = Places \ {<<w, n>>}
  BY <1>1, <1>4, <1>6, PlacesAre
<1> QED
  BY <1>5, <1>7, FS_RemoveElement

\* A thread that moves from one place of its code to another changes the count at S by
\* reaching or leaving it.
LEMMA OneMoves ==
    ASSUME NEW P, IsFiniteSet(P), NEW at, NEW after, NEW p \in P,
           \A q \in P : q # p => after[q] = at[q], NEW S
    PROVE  /\ HowMany(P, at, S) \in Nat /\ HowMany(P, after, S) \in Nat
           /\ HowMany(P, after, S) = HowMany(P, at, S)
                  + (IF after[p] \in S THEN 1 ELSE 0) - (IF at[p] \in S THEN 1 ELSE 0)
<1>1. HowMany(P, at, S) \in Nat /\ HowMany(P, after, S) \in Nat
  BY CountNat
<1>2. at[p] \notin S /\ after[p] \in S => HowMany(P, after, S) = HowMany(P, at, S) + 1
  BY CountUp
<1>3. ASSUME at[p] \in S, after[p] \notin S
      PROVE  HowMany(P, after, S) = HowMany(P, at, S) - 1
  BY <1>3, CountDown, ZenonT(60)
<1>4. (at[p] \in S <=> after[p] \in S) => HowMany(P, after, S) = HowMany(P, at, S)
  BY CountSame
<1> QED
  BY <1>1, <1>2, <1>3, <1>4

\* A submitter that goes on changes what is in the hands of the submitters by what it
\* carries there and did not carry before.
LEMMA HandsMove ==
    ASSUME NEW s \in Submitters, NEW b \in SubmitSteps, pc[s] \in SubmitSteps,
           pc'[s] = b, \A t \in Submitters : t # s => pc'[t] = pc[t]
    PROVE  /\ InHand \in Nat /\ InHand' \in Nat
           /\ InHand' = InHand + Carries(b) - Carries(pc[s])
<1>1. IsFiniteSet(Submitters)
  BY SubmittersAssumption
<1>2. /\ HowMany(Submitters, pc, Inside) \in Nat /\ HowMany(Submitters, pc', Inside) \in Nat
      /\ HowMany(Submitters, pc', Inside) = HowMany(Submitters, pc, Inside)
             + (IF pc'[s] \in Inside THEN 1 ELSE 0) - (IF pc[s] \in Inside THEN 1 ELSE 0)
  BY <1>1, OneMoves
<1>3. /\ HowMany(Submitters, pc, Two) \in Nat /\ HowMany(Submitters, pc', Two) \in Nat
      /\ HowMany(Submitters, pc', Two) = HowMany(Submitters, pc, Two)
             + (IF pc'[s] \in Two THEN 1 ELSE 0) - (IF pc[s] \in Two THEN 1 ELSE 0)
  BY <1>1, OneMoves
<1>4. /\ InHand = HowMany(Submitters, pc, Inside) + HowMany(Submitters, pc, Two)
      /\ InHand' = HowMany(Submitters, pc', Inside) + HowMany(Submitters, pc', Two)
  <2>1. Inside' = Inside /\ Two' = Two
    BY DEF Inside, Two, SubmitSteps
  <2> QED
    BY <2>1 DEF InHand
<1>5. ASSUME NEW a \in SubmitSteps
      PROVE  Carries(a) = (IF a \in Inside THEN 1 ELSE 0) + (IF a \in Two THEN 1 ELSE 0)
  BY DEF Carries, Inside, Two, SubmitSteps
<1>6. /\ Carries(b) = (IF b \in Inside THEN 1 ELSE 0) + (IF b \in Two THEN 1 ELSE 0)
      /\ Carries(pc[s]) = (IF pc[s] \in Inside THEN 1 ELSE 0) + (IF pc[s] \in Two THEN 1 ELSE 0)
  BY <1>5
<1> QED
  BY <1>2, <1>3, <1>4, <1>6

\* The books in terms of those numbers.
Books == received = Counted + Cardinality(Places) + AtWork + InHand
BInv == IsFiniteSet(Places) /\ Books

LEMMA BooksAre == JobsConserved <=> received = Counted + Cardinality(Places) + AtWork
                      + HowMany(Submitters, pc, Inside) + HowMany(Submitters, pc, Two)
<1>1. /\ Cardinality(InStep(SubmitSteps \ {"idle"})) = HowMany(Submitters, pc, Inside)
      /\ Cardinality(InStep({"evicted", "dropOldest"})) = HowMany(Submitters, pc, Two)
      /\ Cardinality({w \in Lanes : worker[w] \in {"busy", "done"}}) = AtWork
  BY DEF InStep, HowMany, Standing, Inside, Two, AtWork, Carrying
<1> QED
  BY <1>1 DEF JobsConserved, Counted

\* All of these are numbers.
LEMMA Numbers ==
    ASSUME IInv
    PROVE  /\ received \in Nat /\ processed \in Nat /\ failed \in Nat /\ dropped \in Nat
           /\ rejected \in Nat /\ Counted \in Nat
           /\ AtWork \in Nat /\ (IsFiniteSet(Places) => Cardinality(Places) \in Nat)
<1>1. {received, processed, failed, dropped, rejected} \subseteq Nat
  BY DEF IInv, TypeOK
<1>2. AtWork \in Nat
  BY LanesSound, CountNat DEF AtWork
<1> QED
  BY <1>1, <1>2, FS_CardinalityType DEF Counted

\* A step of a submitter keeps the books if what the counters and the lanes gain is what
\* leaves its hands.
LEMMA SubmitterBooks ==
    ASSUME IInv, BInv, NEW s \in Submitters, NEW b \in SubmitSteps,
           pc' = [pc EXCEPT ![s] = b], UNCHANGED worker,
           received' \in Nat, Counted' \in Nat, IsFiniteSet(Places'),
           NEW n \in Int, Cardinality(Places') = Cardinality(Places) + n,
           received' - Counted' = received - Counted + n + Carries(b) - Carries(pc[s])
    PROVE  BInv'
<1>1. /\ pc[s] \in SubmitSteps /\ pc'[s] = b
      /\ \A t \in Submitters : t # s => pc'[t] = pc[t]
  BY DEF IInv, TypeOK
<1>2. InHand \in Nat /\ InHand' \in Nat /\ InHand' = InHand + Carries(b) - Carries(pc[s])
  BY <1>1, HandsMove
<1>3. AtWork' = AtWork /\ AtWork \in Nat
  BY Numbers DEF AtWork
<1>4. Carries(b) \in Nat /\ Carries(pc[s]) \in Nat
  BY DEF Carries
<1>5. received \in Nat /\ Counted \in Nat /\ Cardinality(Places) \in Nat
      /\ received = Counted + Cardinality(Places) + AtWork + InHand
  BY Numbers DEF BInv, Books
<1>6. received' = Counted' + Cardinality(Places') + AtWork' + InHand'
  BY <1>2, <1>3, <1>4, <1>5
<1> QED
  BY <1>6 DEF BInv, Books

\* Every step of submit() keeps them.
LEMMA SubmitBooks ==
    ASSUME IInv, BInv, IInv', NEW s \in Submitters, Submit(s) \/ SubmitStep(s)
    PROVE  BInv'
<1>1. /\ queue \in [Lanes -> Seq(Job)] /\ queue' \in [Lanes -> Seq(Job)]
      /\ pc \in [Submitters -> SubmitSteps]
      /\ policy \in {"drop_oldest", "drop_newest", "reject_new", "block_short"}
  BY PoliciesAssumption DEF IInv, TypeOK
<1>2. /\ received \in Nat /\ processed \in Nat /\ failed \in Nat /\ dropped \in Nat
      /\ rejected \in Nat /\ Counted \in Nat /\ IsFiniteSet(Places) /\ Cardinality(Places) \in Nat
  BY Numbers DEF BInv
<1>3. received' \in Nat /\ Counted' \in Nat
  <2>1. {received, processed, failed, dropped, rejected}' \subseteq Nat
    BY DEF IInv, TypeOK
  <2> QED
    BY <2>1 DEF Counted
<1>4. UNCHANGED counters => received' = received /\ Counted' = Counted
  BY DEF counters, Counted
<1>5. UNCHANGED queue => Places' = Places /\ Cardinality(Places') = Cardinality(Places) + 0
  BY <1>2 DEF Places
<1>6. UNCHANGED worker
  BY DEF Submit, SubmitStep, ProcessInline, Enqueue, EvictOldest, EvictedDone, DropOldest,
         PutAgain, DropMine, RejectMine, lanes
<1>7. ASSUME NEW b \in SubmitSteps, pc' = [pc EXCEPT ![s] = b], UNCHANGED queue,
             received' - Counted' = received - Counted + Carries(b) - Carries(pc[s])
      PROVE  BInv'
  <2>1. Carries(b) \in Nat /\ Carries(pc[s]) \in Nat
    BY DEF Carries
  <2>2. received' - Counted' = received - Counted + 0 + Carries(b) - Carries(pc[s])
    BY <1>2, <1>7, <2>1
  <2>3. /\ IsFiniteSet(Places') /\ 0 \in Int
        /\ Cardinality(Places') = Cardinality(Places) + 0
    BY <1>2, <1>5, <1>7
  <2> QED
    BY <1>3, <1>6, <1>7, <2>2, <2>3, SubmitterBooks
<1>8. CASE Submit(s)
  <2>1. /\ pc[s] = "idle" /\ UNCHANGED queue /\ received' = received + 1 /\ Counted' = Counted
    BY <1>8 DEF Submit, lanes, Counted
  <2>2. PICK b \in {"reject", "enqueue", "inline"} : pc' = [pc EXCEPT ![s] = b]
    BY <1>8 DEF Submit, Goto
  <2>3. b \in SubmitSteps /\ Carries(b) = 1 /\ Carries(pc[s]) = 0
    BY <2>1, <2>2 DEF Carries, SubmitSteps, Two
  <2>4. received' - Counted' = received - Counted + Carries(b) - Carries(pc[s])
    BY <1>2, <2>1, <2>3
  <2> QED
    BY <1>7, <2>1, <2>2, <2>3, <2>4
<1>9. CASE ProcessInline(s) \/ DropMine(s) \/ RejectMine(s)
  <2>1. /\ pc[s] \in {"inline", "drop", "reject"} /\ UNCHANGED <<queue, received>>
        /\ pc' = [pc EXCEPT ![s] = "idle"]
    BY <1>9 DEF ProcessInline, DropMine, RejectMine, Goto, lanes
  <2>2. Counted' = Counted + 1
    BY <1>2, <1>9 DEF ProcessInline, DropMine, RejectMine, Counted
  <2>3. "idle" \in SubmitSteps /\ Carries("idle") = 0 /\ Carries(pc[s]) = 1
    BY <2>1 DEF Carries, SubmitSteps, Two
  <2>4. received' - Counted' = received - Counted + Carries("idle") - Carries(pc[s])
    BY <1>2, <2>1, <2>2, <2>3
  <2> QED
    BY <1>7, <2>1, <2>3, <2>4
<1>10. CASE DropOldest(s)
  <2>1. /\ pc[s] = "dropOldest" /\ UNCHANGED <<queue, received>> /\ Counted' = Counted + 1
        /\ pc' = [pc EXCEPT ![s] = "retry"]
    BY <1>2, <1>10 DEF DropOldest, Goto, lanes, Counted
  <2>2. "retry" \in SubmitSteps /\ Carries("retry") = 1 /\ Carries(pc[s]) = 2
    BY <2>1 DEF Carries, SubmitSteps, Two
  <2>3. received' - Counted' = received - Counted + Carries("retry") - Carries(pc[s])
    BY <1>2, <2>1, <2>2
  <2> QED
    BY <1>7, <2>1, <2>2, <2>3
<1>11. CASE EvictedDone(s)
  <2>1. /\ pc[s] = "evicted" /\ UNCHANGED <<queue, received>> /\ Counted' = Counted
        /\ pc' = [pc EXCEPT ![s] = "dropOldest"]
    BY <1>4, <1>11 DEF EvictedDone, Goto, counters
  <2>2. "dropOldest" \in SubmitSteps /\ Carries("dropOldest") = 2 /\ Carries(pc[s]) = 2
    BY <2>1 DEF Carries, SubmitSteps, Two
  <2>3. received' - Counted' = received - Counted + Carries("dropOldest") - Carries(pc[s])
    BY <1>2, <2>1, <2>2
  <2> QED
    BY <1>7, <2>1, <2>2, <2>3
<1>12. CASE EvictOldest(s)
  <2>1. pc[s] = "full" /\ received' = received /\ Counted' = Counted
    BY <1>4, <1>12 DEF EvictOldest
  <2>2. PICK w \in Lanes : w = MyLane(s)
    BY <2>1, MineSound
  <2>3. /\ "retry" \in SubmitSteps /\ "evicted" \in SubmitSteps /\ Carries("retry") = 1
        /\ Carries("evicted") = 2 /\ Carries(pc[s]) = 1
    BY <2>1 DEF Carries, SubmitSteps, Two
  <2>4. CASE queue[w] # << >> /\ queue' = [queue EXCEPT ![w] = Tail(queue[w])] /\ pc' = [pc EXCEPT ![s] = "evicted"]
    <3>1. IsFiniteSet(Places') /\ Cardinality(Places') = Cardinality(Places) + (-1)
      BY <1>1, <1>2, <2>4, PlaceFreed
    <3>2. received' - Counted' = received - Counted + (-1) + Carries("evicted") - Carries(pc[s])
      BY <1>2, <2>1, <2>3
    <3>3. -1 \in Int
      OBVIOUS
    <3> QED
      BY <1>3, <1>6, <2>3, <2>4, <3>1, <3>2, <3>3, SubmitterBooks
  <2>5. CASE UNCHANGED queue /\ pc' = [pc EXCEPT ![s] = "retry"]
    <3>1. received' - Counted' = received - Counted + Carries("retry") - Carries(pc[s])
      BY <1>2, <2>1, <2>3
    <3> QED
      BY <1>7, <2>3, <2>5, <3>1
  <2> QED
    BY <1>12, <2>2, <2>4, <2>5 DEF EvictOldest, Goto
<1>13. CASE Enqueue(s) \/ PutAgain(s)
  <2>1. pc[s] \in {"enqueue", "retry"} /\ received' = received /\ Counted' = Counted
    BY <1>4, <1>13 DEF Enqueue, PutAgain
  <2>2. PICK w \in Lanes, j \in Job : w = MyLane(s) /\ j = Mine(s)
    BY <2>1, MineSound
  <2>3. /\ "idle" \in SubmitSteps /\ Carries("idle") = 0 /\ Carries(pc[s]) = 1
    BY <2>1 DEF Carries, SubmitSteps, Two
  <2>4. CASE PutJob(s)
    <3>1. queue' = [queue EXCEPT ![w] = Append(queue[w], j)] /\ pc' = [pc EXCEPT ![s] = "idle"]
      BY <2>2, <2>4 DEF PutJob, PutAtTail, Goto
    <3>2. IsFiniteSet(Places') /\ Cardinality(Places') = Cardinality(Places) + 1
      BY <1>1, <1>2, <3>1, PlaceTaken
    <3>3. received' - Counted' = received - Counted + 1 + Carries("idle") - Carries(pc[s])
      BY <1>2, <2>1, <2>3
    <3>4. 1 \in Int
      OBVIOUS
    <3> QED
      BY <1>3, <1>6, <2>3, <3>1, <3>2, <3>3, <3>4, SubmitterBooks
  <2>5. CASE UNCHANGED queue /\ \E b \in {"full", "drop", "reject"} : pc' = [pc EXCEPT ![s] = b]
    <3>1. PICK b \in {"full", "drop", "reject"} : pc' = [pc EXCEPT ![s] = b]
      BY <2>5
    <3>2. b \in SubmitSteps /\ Carries(b) = 1
      BY DEF Carries, SubmitSteps, Two
    <3>3. received' - Counted' = received - Counted + Carries(b) - Carries(pc[s])
      BY <1>2, <2>1, <2>3, <3>2
    <3> QED
      BY <1>7, <2>5, <3>1, <3>2, <3>3
  <2> QED
    <3>1. WhenFull[policy] \in {"full", "drop", "reject"}
      BY <1>1 DEF WhenFull
    <3> QED
      BY <1>13, <2>4, <2>5, <3>1 DEF Enqueue, PutAgain, AfterRetry, Goto
<1> QED
  BY <1>8, <1>9, <1>10, <1>11, <1>12, <1>13 DEF SubmitStep

\* A lane's thread that goes on changes the jobs at work by reaching or leaving its two
\* places of work.
LEMMA WorkMoves ==
    ASSUME NEW w \in Lanes, \A v \in Lanes : v # w => worker'[v] = worker[v]
    PROVE  /\ AtWork \in Nat /\ AtWork' \in Nat
           /\ AtWork' = AtWork + (IF worker'[w] \in Carrying THEN 1 ELSE 0)
                               - (IF worker[w] \in Carrying THEN 1 ELSE 0)
<1>1. PICK P : P = Lanes
  OBVIOUS
<1>2. IsFiniteSet(P) /\ w \in P /\ \A v \in P : v # w => worker'[v] = worker[v]
  BY <1>1, LanesSound
<1>3. /\ HowMany(P, worker, Carrying) \in Nat /\ HowMany(P, worker', Carrying) \in Nat
      /\ HowMany(P, worker', Carrying) = HowMany(P, worker, Carrying)
             + (IF worker'[w] \in Carrying THEN 1 ELSE 0) - (IF worker[w] \in Carrying THEN 1 ELSE 0)
  <2>1. /\ HowMany(P, worker, Carrying) \in Nat /\ HowMany(P, worker', Carrying) \in Nat
    BY <1>2, CountNat
  <2>2. worker[w] \notin Carrying /\ worker'[w] \in Carrying
          => HowMany(P, worker', Carrying) = HowMany(P, worker, Carrying) + 1
    BY <1>2, CountUp
  <2>3. ASSUME worker[w] \in Carrying, worker'[w] \notin Carrying
        PROVE  HowMany(P, worker', Carrying) = HowMany(P, worker, Carrying) - 1
    BY <1>2, <2>3, CountDown
  <2>4. (worker[w] \in Carrying <=> worker'[w] \in Carrying)
          => HowMany(P, worker', Carrying) = HowMany(P, worker, Carrying)
    BY <1>2, CountSame
  <2> QED
    BY <2>1, <2>2, <2>3, <2>4
<1>4. AtWork = HowMany(P, worker, Carrying) /\ AtWork' = HowMany(P, worker', Carrying)
  BY <1>1 DEF AtWork, Carrying
<1> QED
  BY <1>3, <1>4

\* Every step of a lane's thread keeps the books.
LEMMA WorkerBooks ==
    ASSUME IInv, BInv, IInv', NEW w \in Lanes, WorkerStep(w)
    PROVE  BInv'
<1>1. /\ queue \in [Lanes -> Seq(Job)] /\ queue' \in [Lanes -> Seq(Job)]
      /\ worker \in [Lanes -> WorkerSteps]
  BY DEF IInv, TypeOK
<1>2. /\ received \in Nat /\ processed \in Nat /\ failed \in Nat /\ dropped \in Nat
      /\ rejected \in Nat /\ Counted \in Nat /\ IsFiniteSet(Places) /\ Cardinality(Places) \in Nat
      /\ received = Counted + Cardinality(Places) + AtWork + InHand
  BY Numbers DEF BInv, Books
<1>3. InHand' = InHand /\ InHand \in Nat /\ received' = received
  <2>1. UNCHANGED <<pc, received>>
    BY DEF WorkerStep, WorkerCheck, WorkerGet, WorkerProcess, WorkerComplete, WorkerFinish,
           submitters, counters
  <2> QED
    BY <2>1, SubmittersAssumption, CountNat DEF InHand, Inside, Two, SubmitSteps
<1>4. UNCHANGED counters => Counted' = Counted
  BY DEF counters, Counted
<1>5. UNCHANGED queue => Places' = Places
  BY DEF Places
<1>6. ASSUME NEW b \in WorkerSteps, worker' = [worker EXCEPT ![w] = b]
      PROVE  /\ AtWork \in Nat /\ AtWork' \in Nat
             /\ AtWork' = AtWork + (IF b \in {"busy", "done"} THEN 1 ELSE 0)
                                 - (IF worker[w] \in {"busy", "done"} THEN 1 ELSE 0)
  <2>1. worker'[w] = b /\ \A v \in Lanes : v # w => worker'[v] = worker[v]
    BY <1>1, <1>6
  <2> QED
    BY <2>1, WorkMoves DEF Carrying
<1>7. ASSUME IsFiniteSet(Places'),
             Counted' + Cardinality(Places') + AtWork' = Counted + Cardinality(Places) + AtWork,
             Counted' \in Nat, Cardinality(Places') \in Nat, AtWork' \in Nat, AtWork \in Nat
      PROVE  BInv'
  <2>1. received' = Counted' + Cardinality(Places') + AtWork' + InHand'
    BY <1>2, <1>3, <1>7
  <2> QED
    BY <1>7, <2>1 DEF BInv, Books
<1>8. CASE WorkerCheck(w)
  <2>1. PICK b \in {"get", "exited"} : worker' = [worker EXCEPT ![w] = b]
    BY <1>8 DEF WorkerCheck, WorkerGoto
  <2>2. worker[w] = "check" /\ Counted' = Counted /\ Places' = Places /\ b \in WorkerSteps
    BY <1>4, <1>5, <1>8 DEF WorkerCheck, WorkerSteps
  <2>3. AtWork' = AtWork /\ AtWork \in Nat
    <3>1. b \notin {"busy", "done"} /\ worker[w] \notin {"busy", "done"}
      BY <2>1, <2>2
    <3>2. AtWork \in Nat /\ AtWork' = AtWork + 0 - 0
      BY <1>6, <2>1, <2>2, <3>1
    <3> QED
      BY <3>2
  <2> QED
    BY <1>2, <1>7, <2>2, <2>3
<1>9. CASE WorkerProcess(w)
  <2>1. worker[w] = "busy" /\ Places' = Places
    BY <1>5, <1>9 DEF WorkerProcess
  <2>2. CASE worker' = [worker EXCEPT ![w] = "done"] /\ UNCHANGED failed
    <3>1. Counted' = Counted
      BY <1>9, <2>2 DEF WorkerProcess, Counted
    <3>2. AtWork' = AtWork /\ AtWork \in Nat
      BY <1>6, <2>1, <2>2 DEF WorkerSteps
    <3> QED
      BY <1>2, <1>7, <2>1, <3>1, <3>2
  <2>3. CASE worker' = [worker EXCEPT ![w] = "finish"] /\ failed' = failed + 1
    <3>1. Counted' = Counted + 1
      BY <1>2, <1>9, <2>3 DEF WorkerProcess, Counted
    <3>2. AtWork' = AtWork - 1 /\ AtWork \in Nat /\ AtWork' \in Nat
      BY <1>6, <2>1, <2>3 DEF WorkerSteps
    <3> QED
      BY <1>2, <1>7, <2>1, <3>1, <3>2
  <2> QED
    BY <1>9, <2>2, <2>3 DEF WorkerProcess, WorkerGoto, AfterFailure
<1>10. CASE WorkerComplete(w)
  <2>1. worker[w] = "done" /\ Places' = Places /\ worker' = [worker EXCEPT ![w] = "finish"]
    BY <1>5, <1>10 DEF WorkerComplete, WorkerGoto
  <2>2. Counted' = Counted + 1
    BY <1>2, <1>10 DEF WorkerComplete, Counted
  <2>3. AtWork' = AtWork - 1 /\ AtWork \in Nat /\ AtWork' \in Nat
    BY <1>6, <2>1 DEF WorkerSteps
  <2> QED
    BY <1>2, <1>7, <2>1, <2>2, <2>3
<1>11. CASE WorkerGet(w)
  <2>1. worker[w] = "get" /\ Counted' = Counted
    BY <1>4, <1>11 DEF WorkerGet
  <2>2. CASE /\ queue[w] # << >> /\ queue' = [queue EXCEPT ![w] = Tail(queue[w])]
             /\ worker' = [worker EXCEPT ![w] = "busy"]
    <3>1. IsFiniteSet(Places') /\ Cardinality(Places') = Cardinality(Places) - 1
      BY <1>1, <1>2, <2>2, PlaceFreed
    <3>2. Cardinality(Places') \in Nat
      BY <3>1, FS_CardinalityType
    <3>3. AtWork' = AtWork + 1 /\ AtWork \in Nat
      BY <1>6, <2>1, <2>2 DEF WorkerSteps
    <3> QED
      BY <1>2, <1>7, <2>1, <3>1, <3>2, <3>3
  <2>3. CASE worker' = [worker EXCEPT ![w] = "check"] /\ UNCHANGED queue
    <3>1. AtWork' = AtWork /\ AtWork \in Nat
      BY <1>6, <2>1, <2>3 DEF WorkerSteps
    <3> QED
      BY <1>2, <1>5, <1>7, <2>1, <2>3, <3>1
  <2> QED
    BY <1>11, <2>2, <2>3 DEF WorkerGet, WorkerGoto
<1>12. CASE WorkerFinish(w)
  <2>1. /\ worker[w] = "finish" /\ worker' = [worker EXCEPT ![w] = "check"]
        /\ Counted' = Counted /\ Places' = Places
    BY <1>4, <1>5, <1>12 DEF WorkerFinish, WorkerGoto
  <2>2. AtWork' = AtWork /\ AtWork \in Nat
    BY <1>6, <2>1 DEF WorkerSteps
  <2> QED
    BY <1>2, <1>7, <2>1, <2>2
<1> QED
  BY <1>8, <1>9, <1>10, <1>11, <1>12 DEF WorkerStep

\* So does close(), which counts nothing.
LEMMA BooksStep ==
    ASSUME IInv, BInv, [Next]_vars
    PROVE  BInv'
<1>1. IInv'
  BY StepInv
<1>2. CASE CloseStep \/ UNCHANGED vars
  <2>1. UNCHANGED <<counters, queue, worker, pc>>
    BY <1>2 DEF CloseStep, CloseBegin, DrainPoll, CloseStop, vars, lanes, submitters
  <2> QED
    BY <2>1 DEF BInv, Books, Places, Counted, AtWork, InHand, counters, Inside, Two, SubmitSteps,
                Carrying
<1> QED
  BY <1>1, <1>2, SubmitBooks, WorkerBooks DEF Next

\* The books of a new pool are empty.
LEMMA BooksInit == Init => BInv
<1> SUFFICES ASSUME Init PROVE BInv
  OBVIOUS
<1>1. /\ \A s \in Submitters : pc[s] = "idle"
      /\ \A w \in Lanes : worker[w] \in {"check", "off"} /\ queue[w] = << >>
  BY DEF Init
<1>2. /\ Standing(Submitters, pc, Inside) = {} /\ Standing(Submitters, pc, Two) = {}
      /\ Standing(Lanes, worker, Carrying) = {}
  BY <1>1 DEF Standing, Inside, Two, Carrying
<1>3. Places = {}
  BY <1>1, EmptySeq DEF Places
<1>4. Cardinality({}) = 0 /\ IsFiniteSet({})
  BY FS_EmptySet
<1>5. received = 0 /\ Counted = 0
  BY DEF Init, Counted
<1>6. AtWork = 0 /\ InHand = 0
  <2>1. /\ HowMany(Lanes, worker, Carrying) = 0
        /\ HowMany(Submitters, pc, Inside) = 0 /\ HowMany(Submitters, pc, Two) = 0
    BY <1>2, <1>4 DEF HowMany
  <2> QED
    BY <2>1 DEF AtWork, InHand
<1>7. Cardinality(Places) = 0 /\ IsFiniteSet(Places)
  BY <1>3, <1>4
<1> QED
  BY <1>5, <1>6, <1>7 DEF BInv, Books

\* Every job that was received is counted or in exactly one place, and no thread leaves
\* one behind that was put before close() began: for every number of submitting threads
\* and lanes, every capacity and every overflow policy.
THEOREM BooksClose == Spec => []JobsAccounted
<1>1. CInv /\ BInv /\ [Next]_vars => CInv' /\ BInv'
  BY CloseInvStep, BooksStep DEF CInv
<1>2. CInv /\ BInv => JobsAccounted
  <2> SUFFICES ASSUME CInv, BInv PROVE JobsConserved
    BY DEF JobsAccounted, CInv, IInv
  <2>1. AtWork \in Nat /\ Counted \in Nat /\ Cardinality(Places) \in Nat
    BY Numbers DEF CInv, BInv
  <2>2. HowMany(Submitters, pc, Inside) \in Nat /\ HowMany(Submitters, pc, Two) \in Nat
    BY SubmittersAssumption, CountNat
  <2>3. received = Counted + Cardinality(Places) + AtWork
            + HowMany(Submitters, pc, Inside) + HowMany(Submitters, pc, Two)
    BY <2>1, <2>2 DEF BInv, Books, InHand
  <2> QED
    BY <2>3, BooksAre
<1> QED
  BY <1>1, <1>2, CloseInit, BooksInit, PTL DEF Spec
=============================================================================
