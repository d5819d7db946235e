----------------------------- MODULE AnalysisProofs ----------------------------
(***************************************************************************)
(* Three results about the analysis of packets, for every number of        *)
(* workers, all traffic and every value of the limits.                     *)
(*                                                                         *)
(* DetectionPipeline: an address is blocked again within its cool-down     *)
(* only by workers that overlap or after it was dropped from the tracked   *)
(* ones.  The windows of an engine: a packet that nobody overlapped within *)
(* its window is judged on exactly the samples that are due, nothing older *)
(* is counted but what a worker with an earlier clock put back, and the    *)
(* table stays within its limit and one key more per worker.               *)
(*                                                                         *)
(* IncidentCorrelation: every signal is accounted for once; the incidents  *)
(* group the signals of one source in time, one incident at a time; none   *)
(* is downgraded.                                                          *)
(***************************************************************************)
EXTENDS DetectionPipeline, IncidentCorrelation, QueueLemmas

Sources == {traffic[p].src : p \in Packets}
Fields == {"at", "packet", "todo", "list", "i", "kept", "over"}

\* What the argument needs of the types.
Shape ==
    /\ traffic \in Traffics /\ now \in Nat /\ begun \in Nat
    /\ DOMAIN frame = Workers /\ \A w \in Workers : DOMAIN frame[w] = Fields
    /\ \A w \in Workers : frame[w].at # "idle" => frame[w].packet \in Packets \cap 1 .. begun
    /\ ran \in [Packets -> SUBSET Packets]
    /\ recent \in Seq([ip : Sources, at : Nat])
    /\ blocks \in Seq([ip : Sources, at : Nat, by : Packets])
    /\ \A i \in DOMAIN blocks : blocks[i].by \in 1 .. begun

\* Two workers that are at work have seen each other.
BusyOverlap ==
    \A v, w \in Workers :
        v # w /\ frame[v].at # "idle" /\ frame[w].at # "idle"
        => frame[w].packet \in ran[frame[v].packet]

\* Every block is in the past, and its address is tracked, once, with a time that is not
\* earlier, or was dropped.
BlocksTracked ==
    /\ \A j, k \in DOMAIN recent : recent[j].ip = recent[k].ip => j = k
    /\ \A i \in DOMAIN blocks :
        /\ blocks[i].at <= now
        /\ \/ blocks[i].ip \in forgotten
           \/ \E k \in DOMAIN recent : recent[k].ip = blocks[i].ip
                                       /\ blocks[i].at <= recent[k].at

\* Whether the i-th block does not stand in the way of one by packet p.
Harmless(i, p) ==
    \/ blocks[i].ip # traffic[p].src \/ blocks[i].ip \in forgotten
    \/ p \in ran[blocks[i].by]
    \/ blocks[i].at + Cooldown <= now

\* A worker about to block found no block of the address that was neither old enough nor by a
\* worker it overlaps, and none has been recorded since.
Justified ==
    \A w \in Workers : frame[w].at = "block"
                       => \A i \in DOMAIN blocks : Harmless(i, frame[w].packet)

IInv == Shape /\ BusyOverlap /\ BlocksTracked /\ Justified /\ RepeatsOverlap

-----------------------------------------------------------------------------
\* What a block and a tracked address consist of.
LEMMA EntriesShape ==
    ASSUME Shape
    PROVE  /\ DOMAIN blocks = 1 .. Len(blocks) /\ DOMAIN recent = 1 .. Len(recent)
           /\ Len(blocks) \in Nat /\ Len(recent) \in Nat
           /\ \A i \in DOMAIN blocks :
                blocks[i].ip \in Sources /\ blocks[i].at \in Nat /\ blocks[i].by \in Packets
           /\ \A k \in DOMAIN recent : recent[k].ip \in Sources /\ recent[k].at \in Nat
<1>1. \A i \in 1 .. Len(blocks) : blocks[i] \in [ip : Sources, at : Nat, by : Packets]
  BY ElementOfSeq DEF Shape
<1>2. \A k \in 1 .. Len(recent) : recent[k] \in [ip : Sources, at : Nat]
  BY ElementOfSeq DEF Shape
<1>3. /\ DOMAIN blocks = 1 .. Len(blocks) /\ DOMAIN recent = 1 .. Len(recent)
      /\ Len(blocks) \in Nat /\ Len(recent) \in Nat
  BY LenProperties DEF Shape
<1> QED
  BY <1>1, <1>2, <1>3

\* A step of worker w inside its analysis that neither begins it nor leads to a block.
Routine(w) ==
    /\ UNCHANGED <<traffic, now, begun, ran, recent, blocks, forgotten>>
    /\ DOMAIN frame' = Workers /\ DOMAIN frame'[w] = Fields
    /\ \A v \in Workers : v # w => frame'[v] = frame[v]
    /\ \/ frame'[w].at = "idle"
       \/ /\ frame[w].at # "idle" /\ frame'[w].packet = frame[w].packet
          /\ frame'[w].at # "block"

\* The frame of Idle has the fields.
LEMMA IdleFrame == DOMAIN Idle = Fields /\ Idle.at = "idle"
  BY DEF Idle, Fields

\* Finish, Enter and Goto touch only the worker's own frame.
LEMMA Moves ==
    ASSUME Shape, NEW w \in Workers, NEW step,
           Finish(w) \/ Enter(w, step) \/ Goto(w, step)
    PROVE  /\ DOMAIN frame' = Workers /\ DOMAIN frame'[w] = Fields
           /\ \A v \in Workers : v # w => frame'[v] = frame[v]
           /\ \/ frame'[w].at = "idle"
              \/ frame'[w].at = step /\ frame'[w].packet = frame[w].packet
<1>1. CASE Finish(w)
  BY <1>1, IdleFrame DEF Finish, Shape
<1>2. CASE Enter(w, step)
  BY <1>2 DEF Enter, Shape, Idle, Fields
<1>3. CASE Goto(w, step)
  BY <1>3 DEF Goto, Shape, Fields
<1> QED
  BY <1>1, <1>2, <1>3

\* What a step does to a worker that enters the part of the analysis its packet calls for.
LEMMA VisitMoves ==
    ASSUME Shape, NEW w \in Workers, Visit(w)
    PROVE  Finish(w) \/ Enter(w, "fetch") \/ Enter(w, "alert")
  BY DEF Visit

\* Cleaning the next list, or what follows the last, is routine.
LEMMA CleanMoves ==
    ASSUME Shape, NEW w \in Workers, NEW entries, Clean(w, entries), frame[w].at # "idle"
    PROVE  /\ DOMAIN frame' = Workers /\ DOMAIN frame'[w] = Fields
           /\ \A v \in Workers : v # w => frame'[v] = frame[v]
           /\ \/ frame'[w].at = "idle"
              \/ frame'[w].at # "block" /\ frame'[w].packet = frame[w].packet
<1>1. CASE entries # << >>
  BY <1>1 DEF Clean, Shape, Fields
<1>2. CASE entries = << >> /\ engine = "application"
  <2>1. Enter(w, "cap")
    BY <1>2 DEF Clean
  <2> QED
    BY <2>1, Moves
<1>3. CASE entries = << >> /\ engine # "application"
  <2>1. Finish(w) \/ Enter(w, "fetch") \/ Enter(w, "alert")
    BY <1>3, VisitMoves DEF Clean
  <2> QED
    BY <2>1, Moves
<1> QED
  BY <1>1, <1>2, <1>3

\* The steps that change frames through Finish, Enter and Goto, or not much else.
LEMMA CleaningIsRoutine ==
    ASSUME Shape, NEW w \in Workers, Snapshot(w) \/ Sift(w) \/ Cleaned(w)
    PROVE  Routine(w)
<1>1. CASE Snapshot(w)
  BY <1>1, CleanMoves DEF Snapshot, Routine, history, blocking
<1>2. CASE Sift(w)
  BY <1>2 DEF Sift, Routine, history, blocking, Shape, Fields
<1>3. CASE Cleaned(w)
  <2>1. \/ Clean(w, Tail(frame[w].todo)) \/ Enter(w, "alert") \/ Finish(w)
    BY <1>3 DEF Cleaned
  <2>2. /\ UNCHANGED <<traffic, now, begun, ran, recent, blocks, forgotten>>
        /\ frame[w].at # "idle"
    BY <1>3 DEF Cleaned, history, blocking
  <2> QED
    BY <2>1, <2>2, CleanMoves, Moves DEF Routine
<1> QED
  BY <1>1, <1>2, <1>3

LEMMA CappingIsRoutine ==
    ASSUME Shape, NEW w \in Workers,
           CapTest(w) \/ CapMeasure(w) \/ CapList(w) \/ CapPop(w)
    PROVE  Routine(w)
<1>1. CASE CapTest(w)
  <2>1. Goto(w, "measure") \/ Finish(w) \/ Enter(w, "fetch") \/ Enter(w, "alert")
    BY <1>1, VisitMoves DEF CapTest
  <2> QED
    BY <1>1, <2>1, Moves DEF CapTest, Routine, history, blocking
<1>2. CASE CapMeasure(w)
  BY <1>2 DEF CapMeasure, Routine, history, blocking, Shape, Fields
<1>3. CASE CapList(w)
  <2>1. PICK entries : frame' = [frame EXCEPT ![w].at = "pop", ![w].todo = entries]
    BY <1>3 DEF CapList
  <2> QED
    BY <1>3, <2>1 DEF CapList, Routine, history, blocking, Shape, Fields
<1>4. CASE CapPop(w)
  <2>1. CASE frame[w].todo = << >>
    <3>1. Finish(w) \/ Enter(w, "fetch") \/ Enter(w, "alert")
      BY <1>4, <2>1, VisitMoves DEF CapPop
    <3>2. /\ UNCHANGED <<traffic, now, begun, ran, recent, blocks, forgotten>>
          /\ frame[w].at # "idle"
      BY <1>4 DEF CapPop, history, blocking
    <3> QED
      BY <3>1, <3>2, Moves DEF Routine
  <2>2. CASE frame[w].todo # << >>
    BY <1>4, <2>2, ZenonT(60) DEF CapPop, Routine, history, blocking, Shape, Fields
  <2> QED
    BY <2>1, <2>2
<1> QED
  BY <1>1, <1>2, <1>3, <1>4

LEMMA CountingIsRoutine ==
    ASSUME Shape, NEW w \in Workers,
           \/ Fetch(w) \/ Filtered(w) \/ AppendSample(w) \/ Count(w) \/ BlockFails(w)
    PROVE  Routine(w)
<1>1. CASE Fetch(w)
  BY <1>1 DEF Fetch, Routine, history, blocking, Shape, Fields
<1>2. CASE Filtered(w)
  BY <1>2 DEF Filtered, Routine, history, blocking, Shape, Fields
<1>3. CASE AppendSample(w)
  <2>1. Goto(w, "filter") \/ Goto(w, "count")
    BY <1>3 DEF AppendSample
  <2> QED
    BY <1>3, <2>1, Moves DEF AppendSample, Routine, history, blocking
<1>4. CASE Count(w)
  <2>1. Enter(w, "alert") \/ Finish(w)
    BY <1>4 DEF Count
  <2> QED
    BY <1>4, <2>1, Moves DEF Count, Routine, blocking
<1>5. CASE BlockFails(w)
  BY <1>5, Moves DEF BlockFails, Routine, history
<1> QED
  BY <1>1, <1>2, <1>3, <1>4, <1>5

-----------------------------------------------------------------------------
(* The invariant is preserved *)

\* A routine step, and one that changes nothing the invariant is about, preserves it.
LEMMA RoutineKeeps ==
    ASSUME IInv, NEW w \in Workers, Routine(w)
    PROVE  IInv'
<1> USE DEF Routine
<1>1. Shape'
  BY ZenonT(60) DEF IInv, Shape, Sources, Packets
<1>2. BusyOverlap'
  BY DEF IInv, BusyOverlap
<1>3. BlocksTracked'
  BY DEF IInv, BlocksTracked
<1>4. Justified'
  BY DEF IInv, Justified, Harmless
<1>5. RepeatsOverlap'
  BY DEF IInv, RepeatsOverlap, Repeated
<1> QED
  BY <1>1, <1>2, <1>3, <1>4, <1>5 DEF IInv

\* Time makes nothing less harmless.
LEMMA TickKeeps == ASSUME IInv, Tick PROVE IInv'
<1> USE DEF Tick, windows, blocking, history, IInv
<1>0. now \in Nat /\ now' \in Nat /\ now <= now' /\ Cooldown \in Nat
  BY LimitsAssumption DEF Shape
<1>1. Shape'
  BY <1>0 DEF Shape, Sources, Packets
<1>2. BusyOverlap'
  BY DEF BusyOverlap
<1>6. \A i \in DOMAIN blocks : blocks[i].at \in Nat
  BY EntriesShape
<1>3. BlocksTracked'
  BY <1>0, <1>6 DEF BlocksTracked
<1>4. Justified'
  BY <1>0, <1>6 DEF Justified, Harmless
<1>5. RepeatsOverlap'
  BY DEF RepeatsOverlap, Repeated
<1> QED
  BY <1>1, <1>2, <1>3, <1>4, <1>5

\* The packet that begins overlaps those of the busy workers, and is none of them.
LEMMA BeginKeeps == ASSUME IInv, NEW w \in Workers, Begin(w) PROVE IInv'
<1> DEFINE p == begun + 1
           others == {frame[v].packet : v \in Busy}
<1> USE DEF IInv
<1>1. /\ frame[w].at = "idle" /\ p \in Packets /\ begun' = p /\ begun \in Nat
      /\ UNCHANGED <<traffic, now, recent, blocks, forgotten>>
      /\ frame' = [frame EXCEPT ![w] = [Idle EXCEPT !.at = "snapshot", !.packet = p]]
      /\ ran' = [q \in Packets |-> IF q = p THEN {p} \cup others
                                   ELSE IF q \in others THEN ran[q] \cup {p} ELSE ran[q]]
  BY DEF Begin, blocking, Shape
<1>2. others \subseteq Packets \cap 1 .. begun
  BY DEF Busy, Shape
<1>3. \A q \in Packets : ran[q] \subseteq ran'[q] \/ q = p
  BY <1>1
<1>4. /\ DOMAIN frame' = Workers /\ DOMAIN frame'[w] = Fields
      /\ frame'[w].at = "snapshot" /\ frame'[w].packet = p
      /\ \A v \in Workers : v # w => frame'[v] = frame[v]
  BY <1>1 DEF Shape, Idle, Fields
<1>5. Shape'
  <2>1. ran' \in [Packets -> SUBSET Packets]
    BY <1>1, <1>2 DEF Shape
  <2> QED
    BY <1>1, <1>4, <2>1 DEF Shape, Sources, Packets
<1>6. BusyOverlap'
  <2> SUFFICES ASSUME NEW u \in Workers, NEW v \in Workers, u # v,
                      frame'[u].at # "idle", frame'[v].at # "idle"
               PROVE  frame'[v].packet \in ran'[frame'[u].packet]
    BY DEF BusyOverlap
  <2>1. CASE u = w
    <3>1. v \in Busy /\ frame[v].packet \in others
      BY <1>4, <2>1 DEF Busy
    <3> QED
      BY <1>1, <1>4, <2>1, <3>1
  <2>2. CASE v = w
    <3>1. u \in Busy /\ frame[u].packet \in others
      BY <1>4, <2>2 DEF Busy
    <3> QED
      BY <1>1, <1>2, <1>4, <2>2, <3>1
  <2>3. CASE u # w /\ v # w
    <3>1. frame[v].packet \in ran[frame[u].packet]
      BY <1>4, <2>3 DEF BusyOverlap
    <3>2. frame[u].packet \in Packets /\ frame[u].packet # p
      BY <1>1, <1>4, <2>3 DEF Shape
    <3> QED
      BY <1>3, <1>4, <2>3, <3>1, <3>2
  <2> QED
    BY <2>1, <2>2, <2>3
<1>7. BlocksTracked'
  BY <1>1 DEF BlocksTracked
<1>8. \A i \in DOMAIN blocks : ran[blocks[i].by] \subseteq ran'[blocks[i].by]
  <2> SUFFICES ASSUME NEW i \in DOMAIN blocks
               PROVE  ran[blocks[i].by] \subseteq ran'[blocks[i].by]
    OBVIOUS
  <2>1. blocks[i].by \in Packets /\ blocks[i].by # p
    BY <1>1, EntriesShape DEF Shape
  <2> QED
    BY <1>3, <2>1
<1>9. Justified'
  <2> SUFFICES ASSUME NEW v \in Workers, frame'[v].at = "block", NEW i \in DOMAIN blocks
               PROVE  Harmless(i, frame[v].packet)' /\ v # w
    BY <1>1 DEF Justified
  <2>1. v # w /\ frame'[v] = frame[v]
    BY <1>4
  <2>2. Harmless(i, frame[v].packet)
    BY <2>1 DEF Justified
  <2>3. ran[blocks[i].by] \subseteq ran'[blocks[i].by]
    BY <1>8
  <2> QED
    BY <1>1, <2>1, <2>2, <2>3 DEF Harmless
<1>10. RepeatsOverlap'
  BY <1>1, <1>8 DEF RepeatsOverlap, Repeated
<1> QED
  BY <1>5, <1>6, <1>7, <1>9, <1>10

-----------------------------------------------------------------------------
(* Which address is tracked where, and which is dropped *)

\* Tracked finds the address, or answers 0 when it is nowhere.
LEMMA TrackedFinds ==
    ASSUME Shape, NEW ip
    PROVE  /\ Tracked(ip) = 0 => \A k \in DOMAIN recent : recent[k].ip # ip
           /\ Tracked(ip) # 0 => Tracked(ip) \in DOMAIN recent /\ recent[Tracked(ip)].ip = ip
<1> DEFINE I == {k \in 1 .. Len(recent) : recent[k].ip = ip}
<1>1. Tracked(ip) = IF I # {} THEN Min(I) ELSE 0
  BY DEF Tracked, SelectInSeq
<1>2. I \subseteq Nat /\ DOMAIN recent = 1 .. Len(recent) /\ Len(recent) \in Nat
  BY EntriesShape
<1>3. ASSUME I # {} PROVE Min(I) \in I
  BY <1>2, <1>3, Least DEF Min
<1> QED
  BY <1>1, <1>2, <1>3

\* There is an oldest entry.
LEMMA OldestIsThere ==
    ASSUME NEW entries, NEW n \in Nat \ {0}, DOMAIN entries = 1 .. n,
           \A k \in 1 .. n : entries[k].at \in Nat
    PROVE  Oldest(entries) \in 1 .. n
<1> DEFINE times == {entries[k].at : k \in 1 .. n}
<1>1. PICK t \in times : \A u \in times : t <= u
  <2>1. times \subseteq Nat /\ entries[1].at \in times
    OBVIOUS
  <2> QED
    BY <2>1, Least
<1> DEFINE those == {k \in 1 .. n : entries[k].at = t}
<1>2. PICK j \in those : \A k \in those : j <= k
  <2>1. those \subseteq Nat /\ those # {}
    BY <1>1
  <2> QED
    BY <2>1, Least
<1>3. /\ \A k \in DOMAIN entries : entries[j].at <= entries[k].at
      /\ \A k \in 1 .. j - 1 : entries[j].at < entries[k].at
  <2>1. \A k \in 1 .. n : entries[k].at \in times
    OBVIOUS
  <2>3. j \in 1 .. n /\ entries[j].at = t
    BY <1>2
  <2>2. ASSUME NEW k \in 1 .. j - 1 PROVE entries[j].at < entries[k].at
    <3>1. k \in 1 .. n /\ k \notin those
      BY <1>2, <2>3
    <3>2. entries[k].at # t /\ t <= entries[k].at
      BY <1>1, <2>1, <3>1
    <3> QED
      BY <2>3, <3>1, <3>2
  <2> QED
    BY <1>1, <2>1, <2>2, <2>3
<1> QED
  BY <1>2, <1>3 DEF Oldest

\* What is left of a sequence without its i-th entry.
LEMMA Removed ==
    ASSUME NEW S, NEW seq \in Seq(S), NEW i \in DOMAIN seq
    PROVE  /\ RemoveAt(seq, i) \in Seq(S)
           /\ Len(RemoveAt(seq, i)) = Len(seq) - 1
           /\ \A k \in 1 .. Len(seq) - 1 :
                RemoveAt(seq, i)[k] = IF k < i THEN seq[k] ELSE seq[k + 1]
  BY Spliced DEF RemoveAt

-----------------------------------------------------------------------------
(* The decision to block, and the block *)

\* A decision to block is justified by the tracked address, old enough or absent.
LEMMA ConsiderKeeps == ASSUME IInv, NEW w \in Workers, Consider(w) PROVE IInv'
<1> USE DEF IInv
<1> DEFINE ip == Mine(w).src
<1>0. /\ UNCHANGED <<traffic, now, begun, ran, recent, blocks, forgotten>>
      /\ frame[w].at = "alert"
  BY DEF Consider, history
<1>1. CASE Finish(w)
  BY <1>0, <1>1, Moves, RoutineKeeps DEF Routine
<1>2. CASE Enter(w, "block") /\ ~CoolingDown(ip)
  <2>1. /\ DOMAIN frame' = Workers /\ DOMAIN frame'[w] = Fields
        /\ frame'[w].packet = frame[w].packet /\ frame'[w].at = "block"
        /\ \A v \in Workers : v # w => frame'[v] = frame[v]
    BY <1>2 DEF Enter, Shape, Idle, Fields
  <2>2. Shape' /\ BusyOverlap' /\ BlocksTracked' /\ RepeatsOverlap'
    <3>1. Shape'
      BY <1>0, <2>1, ZenonT(60) DEF Shape, Sources, Packets
    <3>2. BusyOverlap'
      BY <1>0, <2>1 DEF BusyOverlap
    <3>3. BlocksTracked' /\ RepeatsOverlap'
      BY <1>0 DEF BlocksTracked, RepeatsOverlap, Repeated
    <3> QED
      BY <3>1, <3>2, <3>3
  <2>3. ASSUME NEW i \in DOMAIN blocks PROVE Harmless(i, frame[w].packet)
    <3> SUFFICES ASSUME blocks[i].ip = ip, blocks[i].ip \notin forgotten
                 PROVE  blocks[i].at + Cooldown <= now
      BY DEF Harmless, Mine
    <3>1. PICK k \in DOMAIN recent : recent[k].ip = ip /\ blocks[i].at <= recent[k].at
      BY DEF BlocksTracked
    <3>2. k = Tracked(ip) /\ Tracked(ip) # 0
      BY <3>1, TrackedFinds, EntriesShape DEF BlocksTracked
    <3>3. ~(now - recent[k].at < Cooldown)
      BY <1>2, <3>2 DEF CoolingDown
    <3>4. now \in Nat /\ Cooldown \in Nat /\ recent[k].at \in Nat /\ blocks[i].at \in Nat
      BY LimitsAssumption, EntriesShape DEF Shape
    <3> QED
      BY <3>1, <3>3, <3>4
  <2>4. Justified'
    <3> SUFFICES ASSUME NEW v \in Workers, frame'[v].at = "block", NEW i \in DOMAIN blocks
                 PROVE  Harmless(i, frame[v].packet)'
      BY <1>0 DEF Justified
    <3>1. frame'[v].packet = frame[v].packet /\ Harmless(i, frame[v].packet)
      BY <2>1, <2>3 DEF Justified
    <3> QED
      BY <1>0, <3>1 DEF Harmless
  <2> QED
    BY <2>2, <2>4
<1> QED
  BY <1>1, <1>2 DEF Consider

\* Whether the addresses in a sequence are different.
Distinct(entries) == \A j, k \in DOMAIN entries : entries[j].ip = entries[k].ip => j = k

\* Whether a block of an address at a time is in a sequence of tracked addresses.
Listed(entries, ip, time) ==
    \E k \in DOMAIN entries : entries[k].ip = ip /\ time <= entries[k].at

\* The tracked addresses once a block of the address is noted (noted in BlockRecorded).
Tracking(ip) == IF Tracked(ip) # 0 THEN [recent EXCEPT ![Tracked(ip)].at = now]
             ELSE Append(recent, [ip |-> ip, at |-> now])

\* Noting an address keeps the others, and no address is there twice.
LEMMA NotedRemembers ==
    ASSUME Shape, BlocksTracked, NEW ip \in Sources
    PROVE  LET noted == Tracking(ip) IN
           /\ noted \in Seq([ip : Sources, at : Nat]) /\ Len(noted) \in Nat \ {0}
           /\ DOMAIN noted = 1 .. Len(noted)
           /\ \A k \in DOMAIN noted : noted[k].ip \in Sources /\ noted[k].at \in Nat
           /\ Distinct(noted)
           /\ Listed(noted, ip, now)
           /\ \A i \in DOMAIN blocks : \/ blocks[i].ip \in forgotten
                                       \/ Listed(noted, blocks[i].ip, blocks[i].at)
<1> DEFINE noted == Tracking(ip)
           E == [ip : Sources, at : Nat]
           n == Len(recent)
           entry == [ip |-> ip, at |-> now]
<1>1. /\ recent \in Seq(E) /\ now \in Nat /\ n \in Nat /\ DOMAIN recent = 1 .. n
      /\ \A k \in DOMAIN recent : recent[k] \in E
  BY EntriesShape, ElementOfSeq DEF Shape
<1>0. entry \in E /\ entry.ip = ip /\ entry.at = now
  BY <1>1
<1>2. CASE Tracked(ip) # 0
  <2> DEFINE t == Tracked(ip)
  <2>1. t \in 1 .. n /\ recent[t].ip = ip
    BY <1>1, <1>2, TrackedFinds
  <2>2. [recent[t] EXCEPT !.at = now] = entry
    BY <1>1, <2>1
  <2>3. noted = [recent EXCEPT ![t] = entry]
    BY <1>1, <1>2, <2>1, <2>2 DEF Tracking
  <2> HIDE DEF noted, E, entry, t, n
  <2>4. /\ noted \in Seq(E) /\ Len(noted) = n
        /\ \A k \in 1 .. n : noted[k] = IF k = t THEN entry ELSE recent[k]
    BY <1>1, <1>0, <2>1, <2>3, ExceptSeq DEF n
  <2>5. DOMAIN noted = 1 .. n /\ \A k \in 1 .. n : noted[k].ip = recent[k].ip
    BY <1>0, <2>1, <2>4, LenProperties
  <2>6. Distinct(noted)
    BY <1>1, <2>5 DEF BlocksTracked, Distinct
  <2>9. Listed(noted, ip, now)
    BY <1>1, <1>0, <2>1, <2>4, <2>5 DEF Listed
  <2>7. ASSUME NEW i \in DOMAIN blocks, blocks[i].ip \notin forgotten
        PROVE  Listed(noted, blocks[i].ip, blocks[i].at)
    <3>1. PICK k \in 1 .. n : recent[k].ip = blocks[i].ip /\ blocks[i].at <= recent[k].at
      BY <1>1, <2>7 DEF BlocksTracked
    <3>2. blocks[i].at <= noted[k].at
      BY <1>0, <2>4, <3>1 DEF BlocksTracked
    <3> QED
      BY <2>5, <3>1, <3>2 DEF Listed
  <2>8. \A k \in DOMAIN noted : noted[k] \in E
    BY <1>1, <1>0, <2>4, <2>5
  <2> QED
    BY <1>1, <2>1, <2>4, <2>5, <2>6, <2>7, <2>8, <2>9 DEF E, noted
<1>3. CASE Tracked(ip) = 0
  <2>1. noted = Append(recent, entry)
    BY <1>3 DEF Tracking
  <2> HIDE DEF noted, E, entry, n
  <2>2. /\ noted \in Seq(E) /\ Len(noted) = n + 1
        /\ \A k \in 1 .. n : noted[k] = recent[k]
        /\ noted[n + 1] = entry
    BY <1>1, <1>0, <2>1, AppendProperties DEF n
  <2>3. DOMAIN noted = 1 .. n + 1
    BY <2>2, LenProperties
  <2>4. \A k \in 1 .. n : noted[k].ip # ip
    BY <1>1, <1>3, <2>2, TrackedFinds
  <2>5. Distinct(noted)
    BY <1>1, <1>0, <2>2, <2>3, <2>4 DEF BlocksTracked, Distinct
  <2>8. Listed(noted, ip, now)
    BY <1>1, <1>0, <2>2, <2>3 DEF Listed
  <2>6. ASSUME NEW i \in DOMAIN blocks, blocks[i].ip \notin forgotten
        PROVE  Listed(noted, blocks[i].ip, blocks[i].at)
    <3>1. PICK k \in 1 .. n : recent[k].ip = blocks[i].ip /\ blocks[i].at <= recent[k].at
      BY <1>1, <2>6 DEF BlocksTracked
    <3> QED
      BY <1>1, <2>2, <2>3, <3>1 DEF Listed
  <2>7. \A k \in DOMAIN noted : noted[k] \in E
    BY <1>1, <1>0, <2>2, <2>3
  <2> QED
    BY <1>1, <2>2, <2>3, <2>5, <2>6, <2>7, <2>8 DEF E, noted
<1> QED
  BY <1>2, <1>3

\* What the tracked addresses are after a block, whether one had to be dropped or not.
LEMMA RecentAfterBlock ==
    ASSUME IInv, NEW w \in Workers, BlockRecorded(w), Mine(w).src \in Sources
    PROVE  /\ recent' \in Seq([ip : Sources, at : Nat])
           /\ forgotten \subseteq forgotten'
           /\ Distinct(recent')
           /\ Mine(w).src \in forgotten' \/ Listed(recent', Mine(w).src, now)
           /\ \A i \in DOMAIN blocks : \/ blocks[i].ip \in forgotten'
                                       \/ Listed(recent', blocks[i].ip, blocks[i].at)
<1> DEFINE ip == Mine(w).src
           noted == Tracking(ip)
           o == Oldest(noted)
           n == Len(noted)
<1>1. /\ noted \in Seq([ip : Sources, at : Nat]) /\ n \in Nat \ {0}
      /\ DOMAIN noted = 1 .. n
      /\ \A k \in DOMAIN noted : noted[k].ip \in Sources /\ noted[k].at \in Nat
      /\ Distinct(noted)
      /\ Listed(noted, ip, now)
      /\ \A i \in DOMAIN blocks : \/ blocks[i].ip \in forgotten
                                  \/ Listed(noted, blocks[i].ip, blocks[i].at)
  BY NotedRemembers DEF IInv
<1>2. /\ recent' = IF n > MaxTracked THEN RemoveAt(noted, o) ELSE noted
      /\ forgotten' = forgotten \cup (IF n > MaxTracked THEN {noted[o].ip} ELSE {})
  BY DEF BlockRecorded, Tracking
<1> HIDE DEF noted, o, n
<1>3. CASE ~ n > MaxTracked
  BY <1>1, <1>2, <1>3 DEF ip
<1>4. CASE n > MaxTracked
  <2>1. o \in 1 .. n
    BY <1>1, OldestIsThere, SMTT(40) DEF o
  <2>2. /\ recent' \in Seq([ip : Sources, at : Nat])
        /\ Len(recent') = n - 1
        /\ \A k \in 1 .. n - 1 : recent'[k] = IF k < o THEN noted[k] ELSE noted[k + 1]
    <3>1. o \in DOMAIN noted /\ recent' = RemoveAt(noted, o)
      BY <1>1, <1>2, <1>4, <2>1
    <3> QED
      BY <1>1, <3>1, Removed, Zenon DEF n
  <2>3. DOMAIN recent' = 1 .. n - 1
    BY <2>2, LenProperties
  <2>4. Distinct(recent')
    <3> SUFFICES ASSUME NEW j \in 1 .. n - 1, NEW k \in 1 .. n - 1,
                        recent'[j].ip = recent'[k].ip
                 PROVE  j = k
      BY <2>3 DEF Distinct
    <3>1. PICK j1 \in 1 .. n : recent'[j] = noted[j1] /\ j1 = IF j < o THEN j ELSE j + 1
      BY <1>1, <2>2, SMTT(40)
    <3>2. PICK k1 \in 1 .. n : recent'[k] = noted[k1] /\ k1 = IF k < o THEN k ELSE k + 1
      BY <1>1, <2>2, SMTT(40)
    <3>3. j1 = k1
      BY <1>1, <3>1, <3>2 DEF Distinct
    <3> QED
      BY <2>1, <3>1, <3>2, <3>3
  <2>5. ASSUME NEW a, NEW time, Listed(noted, a, time)
        PROVE  a \in forgotten' \/ Listed(recent', a, time)
    <3>1. PICK k \in 1 .. n : noted[k].ip = a /\ time <= noted[k].at
      BY <1>1, <2>5 DEF Listed
    <3>2. CASE k = o
      BY <1>2, <1>4, <3>1, <3>2
    <3>3. CASE k < o
      <4>1. k \in 1 .. n - 1 /\ recent'[k] = noted[k]
        BY <1>1, <2>1, <2>2, <3>3
      <4> QED
        BY <2>3, <3>1, <4>1 DEF Listed
    <3>4. CASE k > o
      <4>1. k - 1 \in 1 .. n - 1 /\ ~ k - 1 < o /\ k - 1 + 1 = k
        BY <1>1, <2>1, <3>4
      <4>2. recent'[k - 1] = noted[k]
        BY <2>2, <4>1
      <4> QED
        BY <2>3, <3>1, <4>1, <4>2 DEF Listed
    <3> QED
      BY <1>1, <2>1, <3>2, <3>3, <3>4
  <2>6. forgotten \subseteq forgotten'
    BY <1>2
  <2>7. \A i \in DOMAIN blocks : \/ blocks[i].ip \in forgotten'
                                 \/ Listed(recent', blocks[i].ip, blocks[i].at)
    BY <1>1, <2>5, <2>6
  <2> QED
    BY <1>1, <2>2, <2>4, <2>5, <2>6, <2>7
<1> QED
  BY <1>3, <1>4

\* A block is justified, and every worker that may still block overlaps the one that did.
LEMMA BlockRecordedKeeps == ASSUME IInv, NEW w \in Workers, BlockRecorded(w) PROVE IInv'
<1> USE DEF IInv
<1> DEFINE p == frame[w].packet
           ip == Mine(w).src
           n == Len(blocks)
           block == [ip |-> ip, at |-> now, by |-> p]
<1>1. /\ UNCHANGED <<traffic, now, begun, ran>>
      /\ frame[w].at = "block" /\ Finish(w) /\ blocks' = Append(blocks, block)
  BY DEF BlockRecorded, history
<1>2. p \in Packets \cap 1 .. begun /\ ip = traffic[p].src /\ ip \in Sources
  BY <1>1 DEF Shape, Mine, Sources
<1>3. /\ DOMAIN frame' = Workers /\ DOMAIN frame'[w] = Fields /\ frame'[w].at = "idle"
      /\ \A v \in Workers : v # w => frame'[v] = frame[v]
  BY <1>1, IdleFrame DEF Finish, Shape
<1>4. /\ recent' \in Seq([ip : Sources, at : Nat])
      /\ forgotten \subseteq forgotten'
      /\ Distinct(recent')
      /\ ip \in forgotten' \/ Listed(recent', ip, now)
      /\ \A i \in DOMAIN blocks : \/ blocks[i].ip \in forgotten'
                                  \/ Listed(recent', blocks[i].ip, blocks[i].at)
  BY <1>2, RecentAfterBlock
<1>5. /\ blocks' \in Seq([ip : Sources, at : Nat, by : Packets])
      /\ n \in Nat /\ DOMAIN blocks = 1 .. n /\ DOMAIN blocks' = 1 .. n + 1
      /\ \A i \in 1 .. n : blocks'[i] = blocks[i]
      /\ blocks'[n + 1] = block
  <2>1. blocks \in Seq([ip : Sources, at : Nat, by : Packets])
        /\ block \in [ip : Sources, at : Nat, by : Packets]
    BY <1>2 DEF Shape
  <2> HIDE DEF block
  <2>2. /\ blocks' \in Seq([ip : Sources, at : Nat, by : Packets])
        /\ Len(blocks') = n + 1
        /\ \A i \in 1 .. n : blocks'[i] = blocks[i]
        /\ blocks'[n + 1] = block
    BY <1>1, <2>1, AppendProperties
  <2> QED
    BY <2>1, <2>2, LenProperties
<1> HIDE DEF n
<1>6. Shape'
  <2>1. ASSUME NEW i \in 1 .. n + 1 PROVE blocks'[i].by \in 1 .. begun
    <3>1. CASE i \in 1 .. n
      BY <1>5, <3>1 DEF Shape
    <3>2. CASE i = n + 1
      BY <1>2, <1>5, <3>2
    <3> QED
      BY <1>5, <3>1, <3>2
  <2>2. \A v \in Workers : /\ DOMAIN frame'[v] = Fields
                            /\ frame'[v].at # "idle" =>
                                 frame'[v].packet \in Packets \cap 1 .. begun
    BY <1>3 DEF Shape
  <2>3. Packets' = Packets /\ Sources' = Sources
    BY <1>1 DEF Sources, Packets
  <2>4. DOMAIN blocks' = 1 .. n + 1
    BY <1>5
  <2>5. \A i \in DOMAIN blocks' : blocks'[i].by \in 1 .. begun'
    BY <1>1, <2>1, <2>4
  <2>6. blocks' \in Seq([ip : Sources', at : Nat, by : Packets'])
        /\ recent' \in Seq([ip : Sources', at : Nat])
    BY <1>4, <1>5, <2>3
  <2>7. /\ traffic' \in Traffics /\ now' \in Nat /\ begun' \in Nat
        /\ ran' \in [Packets' -> SUBSET Packets'] /\ begun' = begun
    BY <1>1, <2>3 DEF Shape
  <2> HIDE DEF block, p, ip
  <2> QED
    BY <1>3, <2>2, <2>3, <2>5, <2>6, <2>7 DEF Shape
<1>7. BusyOverlap'
  BY <1>1, <1>3 DEF BusyOverlap
<1>8. BlocksTracked'
  <2>1. \A j, k \in DOMAIN recent' : recent'[j].ip = recent'[k].ip => j = k
    BY <1>4 DEF Distinct
  <2>2. ASSUME NEW i \in 1 .. n + 1
        PROVE  /\ blocks'[i].at <= now
               /\ \/ blocks'[i].ip \in forgotten'
                  \/ Listed(recent', blocks'[i].ip, blocks'[i].at)
    <3>1. CASE i \in 1 .. n
      BY <1>4, <1>5, <3>1 DEF BlocksTracked
    <3>2. CASE i = n + 1
      BY <1>4, <1>5, <3>2 DEF Shape
    <3> QED
      BY <1>5, <3>1, <3>2
  <2> QED
    BY <1>1, <1>5, <2>1, <2>2 DEF BlocksTracked, Listed
<1>9. Justified'
  <2> SUFFICES ASSUME NEW v \in Workers, frame'[v].at = "block", NEW i \in 1 .. n + 1
               PROVE  Harmless(i, frame[v].packet)'
    BY <1>5 DEF Justified
  <2>1. v # w /\ frame'[v] = frame[v]
    BY <1>3
  <2>2. CASE i \in 1 .. n
    <3>1. Harmless(i, frame[v].packet)
      BY <1>5, <2>1, <2>2 DEF Justified
    <3> QED
      BY <1>1, <1>4, <1>5, <2>1, <2>2, <3>1 DEF Harmless
  <2>3. CASE i = n + 1
    <3>1. frame[v].packet \in ran[p]
      BY <1>1, <2>1 DEF BusyOverlap
    <3> QED
      BY <1>1, <1>5, <2>1, <2>3, <3>1 DEF Harmless
  <2> QED
    BY <1>5, <2>2, <2>3
<1>10. RepeatsOverlap'
  <2> SUFFICES ASSUME NEW i \in 1 .. n + 1, NEW j \in 1 .. n + 1, Repeated(i, j)'
               PROVE  blocks'[j].by \in ran'[blocks'[i].by] \/ blocks'[i].ip \in forgotten'
    BY <1>5 DEF RepeatsOverlap
  <2>1. i < j /\ blocks'[i].ip = blocks'[j].ip /\ blocks'[j].at < blocks'[i].at + Cooldown
    BY DEF Repeated
  <2>2. i \in 1 .. n /\ blocks'[i] = blocks[i]
    BY <1>5, <2>1
  <2>3. CASE j \in 1 .. n
    <3>1. Repeated(i, j)
      BY <1>5, <2>1, <2>2, <2>3 DEF Repeated
    <3> QED
      BY <1>1, <1>4, <1>5, <2>2, <2>3, <3>1 DEF RepeatsOverlap
  <2>4. CASE j = n + 1
    <3>1. Harmless(i, p)
      BY <1>1, <1>5, <2>2 DEF Justified
    <3>2. blocks[i].ip = ip /\ now < blocks[i].at + Cooldown
      BY <1>5, <2>1, <2>2, <2>4
    <3>3. now \in Nat /\ blocks[i].at \in Nat /\ Cooldown \in Nat
      BY <1>5, <2>2, LimitsAssumption, EntriesShape DEF Shape
    <3>4. blocks[i].ip \in forgotten \/ p \in ran[blocks[i].by]
      BY <1>2, <3>1, <3>2, <3>3 DEF Harmless
    <3> QED
      BY <1>1, <1>4, <1>5, <2>2, <2>4, <3>4
  <2> QED
    BY <1>5, <2>3, <2>4
<1> QED
  BY <1>6, <1>7, <1>8, <1>9, <1>10

-----------------------------------------------------------------------------
(* The theorem *)

LEMMA InitInv == Init => IInv
<1> SUFFICES ASSUME Init PROVE IInv
  OBVIOUS
<1> USE DEF Init
<1>1. Shape
  <2>1. recent \in Seq([ip : Sources, at : Nat])
        /\ blocks \in Seq([ip : Sources, at : Nat, by : Packets])
        /\ DOMAIN blocks = {}
    OBVIOUS
  <2>2. DOMAIN frame = Workers
        /\ \A w \in Workers : DOMAIN frame[w] = Fields /\ frame[w].at = "idle"
    BY IdleFrame
  <2> QED
    BY <2>1, <2>2 DEF Shape
<1>2. BusyOverlap /\ Justified
  BY IdleFrame DEF BusyOverlap, Justified
<1>3. BlocksTracked /\ RepeatsOverlap
  BY DEF BlocksTracked, RepeatsOverlap
<1> QED
  BY <1>1, <1>2, <1>3 DEF IInv

LEMMA NextKeeps == IInv /\ [Next]_vars => IInv'
<1> SUFFICES ASSUME IInv, [Next]_vars PROVE IInv'
  OBVIOUS
<1>1. CASE Tick
  BY <1>1, TickKeeps
<1>2. ASSUME NEW w \in Workers, WorkerStep(w) PROVE IInv'
  <2>1. CASE Begin(w)
    BY <2>1, BeginKeeps
  <2>2. CASE Consider(w)
    BY <2>2, ConsiderKeeps
  <2>3. CASE BlockRecorded(w)
    BY <2>3, BlockRecordedKeeps
  <2>4. CASE Snapshot(w) \/ Sift(w) \/ Cleaned(w)
    BY <2>4, CleaningIsRoutine, RoutineKeeps DEF IInv
  <2>5. CASE CapTest(w) \/ CapMeasure(w) \/ CapList(w) \/ CapPop(w)
    BY <2>5, CappingIsRoutine, RoutineKeeps DEF IInv
  <2>6. CASE Fetch(w) \/ Filtered(w) \/ AppendSample(w) \/ Count(w) \/ BlockFails(w)
    BY <2>6, CountingIsRoutine, RoutineKeeps DEF IInv
  <2> QED
    BY <1>2, <2>1, <2>2, <2>3, <2>4, <2>5, <2>6 DEF WorkerStep
<1>3. CASE UNCHANGED vars
  <2>1. UNCHANGED <<traffic, now, begun, frame, ran, recent, blocks, forgotten>>
    BY <1>3 DEF vars, blocking, history
  <2> QED
    BY <2>1 DEF IInv, Shape, Sources, Packets, BusyOverlap, BlocksTracked, Justified,
                Harmless, RepeatsOverlap, Repeated
<1> QED
  BY <1>1, <1>2, <1>3 DEF Next

\* An address is blocked again within its cool-down only by workers that considered it at the
\* same time, or after it was dropped from the tracked ones (_maybe_auto_block).
THEOREM BlocksRepeatOnlyByOverlap == Spec => []RepeatsOverlap
<1>1. IInv => RepeatsOverlap
  BY DEF IInv
<1> QED
  BY InitInv, NextKeeps, <1>1, PTL DEF Spec

-----------------------------------------------------------------------------
(* Sums of sequences *)

\* A total is the last of the sums so far.
LEMMA TotalIs ==
    ASSUME NEW s \in Seq(Int)
    PROVE  \E f \in [0 .. Len(s) -> Int] :
              /\ f[0] = 0 /\ \A k \in 1 .. Len(s) : f[k] = f[k - 1] + s[k]
              /\ Total(s) = f[Len(s)]
<1>0. Len(s) \in Nat /\ \A k \in 1 .. Len(s) : s[k] \in Int
  OBVIOUS
<1> DEFINE step == [p \in (1 .. Len(s)) \X Int |-> p[2] + s[p[1]]]
<1>1. step \in [(1 .. Len(s)) \X Int -> Int]
  BY <1>0
<1>8. \E f : Iterates(Len(s), Int, 0, step, f)
  <2>1. 0 \in Int /\ step \in StepFunctions(Len(s), Int)
    BY <1>1 DEF StepFunctions
  <2> HIDE DEF step
  <2> QED
    BY <1>0, <2>1, Recursion
<1>2. PICK f \in [0 .. Len(s) -> Int] :
        f[0] = 0 /\ \A k \in 1 .. Len(s) : f[k] = step[<<k, f[k - 1]>>]
  BY <1>8 DEF Iterates
<1>3. ASSUME NEW k \in 1 .. Len(s) PROVE f[k] = f[k - 1] + s[k]
  <2>3. k - 1 \in 0 .. Len(s)
    BY <1>0
  <2>1. f[k - 1] \in Int /\ <<k, f[k - 1]>> \in (1 .. Len(s)) \X Int
    BY <1>2, <2>3
  <2>2. step[<<k, f[k - 1]>>] = f[k - 1] + s[k]
    BY <2>1
  <2> QED
    BY <1>2, <2>2
<1>4. f = [k \in 0 .. Len(s) |-> IF k = 0 THEN 0 ELSE f[k - 1] + s[k]]
  BY <1>2, <1>3
<1> DEFINE sum == CHOOSE g : g = [k \in 0 .. Len(s) |-> IF k = 0 THEN 0 ELSE g[k - 1] + s[k]]
<1>5. sum = [k \in 0 .. Len(s) |-> IF k = 0 THEN 0 ELSE sum[k - 1] + s[k]]
  BY <1>4
<1>6. Total(s) = sum[Len(s)]
  BY DEF Total
<1>7. \A k \in 0 .. Len(s) : sum[k] = f[k]
  <2>1. sum[0] = f[0] /\ \A k \in 1 .. Len(s) : sum[k - 1] = f[k - 1] => sum[k] = f[k]
    <3> HIDE DEF sum
    <3>3. \A k \in 0 .. Len(s) : sum[k] = IF k = 0 THEN 0 ELSE sum[k - 1] + s[k]
      BY <1>5
    <3>1. sum[0] = 0
      BY <1>0, <3>3
    <3>2. \A k \in 1 .. Len(s) : sum[k] = sum[k - 1] + s[k]
      BY <1>0, <3>3
    <3> QED
      BY <1>2, <1>3, <3>1, <3>2
  <2> HIDE DEF sum
  <2>2. Alike(Len(s), sum, f)
    BY <2>1 DEF Alike
  <2> QED
    BY <1>0, <2>2, SameRecursion DEF Agree
<1>9. Len(s) \in 0 .. Len(s)
  BY <1>0
<1>10. Total(s) = f[Len(s)]
  <2> HIDE DEF sum
  <2> QED
    BY <1>6, <1>7, <1>9
<1> HIDE DEF sum, step
<1> QED
  BY <1>2, <1>3, <1>10

Adds(s, g) == \A k \in 1 .. Len(s) : g[k] = g[k - 1] + s[k]

\* Whatever adds up the numbers of a sequence ends with their total.
LEMMA AddsUp ==
    ASSUME NEW s \in Seq(Int), NEW c \in Int, NEW g, g[0] = c, Adds(s, g)
    PROVE  g[Len(s)] = c + Total(s) /\ Total(s) \in Int
<1>0. Len(s) \in Nat /\ \A k \in 1 .. Len(s) : s[k] \in Int
  OBVIOUS
<1>1. PICK f \in [0 .. Len(s) -> Int] : /\ f[0] = 0
                                        /\ \A k \in 1 .. Len(s) : f[k] = f[k - 1] + s[k]
                                        /\ Total(s) = f[Len(s)]
  BY TotalIs
<1> DEFINE h == [k \in 0 .. Len(s) |-> c + f[k]]
<1>2. h[0] = g[0] /\ \A k \in 1 .. Len(s) : h[k - 1] = g[k - 1] => h[k] = g[k]
  <2>1. h[0] = c
    BY <1>0, <1>1
  <2>2. ASSUME NEW k \in 1 .. Len(s), h[k - 1] = g[k - 1] PROVE h[k] = g[k]
    <3>1. k - 1 \in 0 .. Len(s) /\ k \in 0 .. Len(s)
      BY <1>0
    <3>2. f[k - 1] \in Int /\ f[k] = f[k - 1] + s[k] /\ s[k] \in Int
      BY <1>0, <1>1, <3>1
    <3>3. g[k] = g[k - 1] + s[k]
      BY DEF Adds
    <3> QED
      BY <2>2, <3>1, <3>2, <3>3
  <2> QED
    BY <2>1, <2>2
<1>3. \A k \in 0 .. Len(s) : h[k] = g[k]
  <2> HIDE DEF h
  <2>1. Alike(Len(s), h, g)
    BY <1>2 DEF Alike
  <2> QED
    BY <1>0, <2>1, SameRecursion DEF Agree
<1> QED
  BY <1>0, <1>1, <1>3

\* The total of two sequences one after the other, of one number, of none, of one more.
LEMMA TotalConcat ==
    ASSUME NEW s \in Seq(Int), NEW t \in Seq(Int)
    PROVE  Total(s \o t) = Total(s) + Total(t) /\ Total(s) \in Int /\ Total(t) \in Int
<1>0. /\ Len(s) \in Nat /\ Len(t) \in Nat /\ s \o t \in Seq(Int) /\ Len(s \o t) = Len(s) + Len(t)
      /\ \A k \in 1 .. Len(s) : (s \o t)[k] = s[k]
      /\ \A k \in 1 .. Len(t) : (s \o t)[Len(s) + k] = t[k]
  OBVIOUS
<1> DEFINE u == s \o t
<1>1. PICK f \in [0 .. Len(u) -> Int] : /\ f[0] = 0
                                        /\ \A k \in 1 .. Len(u) : f[k] = f[k - 1] + u[k]
                                        /\ Total(u) = f[Len(u)]
  BY <1>0, TotalIs
<1> HIDE DEF u
<1>2. f[Len(s)] = 0 + Total(s) /\ Total(s) \in Int
  <2>1. Adds(s, f)
    BY <1>0, <1>1 DEF u, Adds
  <2>2. 0 \in Int /\ f[0] = 0
    BY <1>1
  <2> QED
    BY <2>1, <2>2, AddsUp
<1> DEFINE g == [k \in 0 .. Len(t) |-> f[Len(s) + k]]
<1>3. g[0] = Total(s) /\ \A k \in 1 .. Len(t) : g[k] = g[k - 1] + t[k]
  <2>1. g[0] = Total(s)
    BY <1>0, <1>2
  <2>2. ASSUME NEW k \in 1 .. Len(t) PROVE g[k] = g[k - 1] + t[k]
    <3>1. k \in 0 .. Len(t) /\ k - 1 \in 0 .. Len(t) /\ Len(s) + k \in 1 .. Len(u)
          /\ u[Len(s) + k] = t[k] /\ Len(s) + (k - 1) = (Len(s) + k) - 1
      BY <1>0 DEF u
    <3>2. f[Len(s) + k] = f[(Len(s) + k) - 1] + t[k]
      BY <1>1, <3>1
    <3> QED
      BY <3>1, <3>2
  <2> QED
    BY <2>1, <2>2
<1>4. g[Len(t)] = Total(s) + Total(t) /\ Total(t) \in Int
  <2> HIDE DEF g
  <2>1. Adds(t, g)
    BY <1>3 DEF Adds
  <2> QED
    BY <1>2, <1>3, <2>1, AddsUp
<1> QED
  BY <1>0, <1>1, <1>2, <1>4 DEF u

LEMMA TotalOne ==
    ASSUME NEW x \in Int
    PROVE  Total(<<x>>) = x
<1>1. PICK f \in [0 .. Len(<<x>>) -> Int] : /\ f[0] = 0
                                  /\ \A k \in 1 .. Len(<<x>>) : f[k] = f[k - 1] + <<x>>[k]
                                        /\ Total(<<x>>) = f[Len(<<x>>)]
  <2>1. <<x>> \in Seq(Int)
    OBVIOUS
  <2> QED
    BY <2>1, TotalIs
<1> QED
  BY <1>1

LEMMA TotalNone == Total(<< >>) = 0
<1>1. PICK f \in [0 .. Len(<< >>) -> Int] : f[0] = 0 /\ Total(<< >>) = f[Len(<< >>)]
  <2>1. << >> \in Seq(Int)
    OBVIOUS
  <2> QED
    BY <2>1, TotalIs
<1> QED
  BY <1>1

\* Leaving out one number.
LEMMA TotalWithout ==
    ASSUME NEW s \in Seq(Int), NEW n \in 1 .. Len(s)
    PROVE  Total(s) = Total(RemoveAt(s, n)) + s[n] /\ Total(RemoveAt(s, n)) \in Int
<1> DEFINE r == RemoveAt(s, n)
           m == Len(s)
<1>0. n \in 1 .. m /\ n \in DOMAIN s /\ m \in Nat /\ \A k \in 1 .. m : s[k] \in Int
  OBVIOUS
<1>1. /\ r \in Seq(Int) /\ Len(r) = m - 1
      /\ \A k \in 1 .. m - 1 : r[k] = IF k < n THEN s[k] ELSE s[k + 1]
  BY <1>0, Removed
<1>7. \E f \in [0 .. m -> Int] :
        f[0] = 0 /\ (\A k \in 1 .. m : f[k] = f[k - 1] + s[k]) /\ Total(s) = f[m]
  BY TotalIs
<1>2. PICK f \in [0 .. m -> Int] :
        f[0] = 0 /\ (\A k \in 1 .. m : f[k] = f[k - 1] + s[k]) /\ Total(s) = f[m]
  BY <1>7
<1> DEFINE g == [k \in 0 .. m - 1 |-> IF k < n THEN f[k] ELSE f[k + 1] - s[n]]
<1> HIDE DEF r, m
<1>3. g[0] = 0 /\ g[m - 1] = f[m] - s[n]
  <2>1. 0 \in 0 .. m - 1 /\ 0 < n /\ m - 1 \in 0 .. m - 1 /\ (m - 1) + 1 = m
    BY <1>0
  <2>2. CASE m - 1 < n
    <3>1. m = n /\ f[m] = f[m - 1] + s[m] /\ f[m - 1] \in Int /\ s[m] \in Int
      BY <1>0, <1>2, <2>2
    <3> QED
      BY <1>2, <2>1, <2>2, <3>1
  <2>3. CASE ~ (m - 1 < n)
    BY <1>2, <2>1, <2>3
  <2> QED
    BY <2>2, <2>3
<1>4. ASSUME NEW k \in 1 .. m - 1 PROVE g[k] = g[k - 1] + r[k]
  <2>1. /\ k \in 0 .. m - 1 /\ k - 1 \in 0 .. m - 1 /\ k \in 1 .. m /\ k + 1 \in 1 .. m
        /\ (k + 1) - 1 = k /\ k - 1 \in 0 .. m
    BY <1>0
  <2>2. f[k] = f[k - 1] + s[k] /\ f[k + 1] = f[k] + s[k + 1]
    BY <1>2, <2>1
  <2>3. f[k] \in Int /\ f[k - 1] \in Int /\ s[k] \in Int /\ s[k + 1] \in Int /\ s[n] \in Int
    <3>1. s[k] \in Int /\ s[k + 1] \in Int /\ s[n] \in Int
      BY <1>0, <2>1
    <3>2. k \in 0 .. m
      BY <1>0, <2>1
    <3>3. f[k] \in Int /\ f[k - 1] \in Int
      BY <1>2, <2>1, <3>2
    <3> QED
      BY <3>1, <3>3
  <2>4. g[k] = (IF k < n THEN f[k] ELSE f[k + 1] - s[n])
        /\ g[k - 1] = (IF k - 1 < n THEN f[k - 1] ELSE f[(k - 1) + 1] - s[n])
    BY <2>1
  <2>5. r[k] = IF k < n THEN s[k] ELSE s[k + 1]
    BY <1>1
  <2> HIDE DEF g
  <2>6. CASE k < n
    <3>1. k - 1 < n
      BY <1>0, <2>6
    <3> QED
      BY <2>2, <2>4, <2>5, <2>6, <3>1
  <2>7. CASE k = n
    <3>1. k - 1 < n /\ ~ (k < n)
      BY <1>0, <2>7
    <3> QED
      BY <2>2, <2>3, <2>4, <2>5, <2>7, <3>1, SMTT(40)
  <2>8. CASE k > n
    <3>1. ~ (k < n) /\ ~ (k - 1 < n) /\ (k - 1) + 1 = k
      BY <1>0, <2>8
    <3> QED
      BY <2>2, <2>3, <2>4, <2>5, <3>1, SMTT(40)
  <2> QED
    BY <1>0, <2>6, <2>7, <2>8
<1>5. g[m - 1] = Total(r) /\ Total(r) \in Int
  <2>1. 0 \in Int /\ g[0] = 0 /\ Adds(r, g)
    <3> HIDE DEF g
    <3> QED
      BY <1>1, <1>3, <1>4 DEF Adds
  <2>2. g[Len(r)] = 0 + Total(r) /\ Total(r) \in Int
    <3> HIDE DEF g
    <3> QED
      BY <1>1, <2>1, AddsUp
  <2> HIDE DEF g
  <2> QED
    BY <1>1, <2>2
<1> HIDE DEF g
<1>6. s[n] \in Int /\ f[m] = Total(r) + s[n]
  <2>1. f[m] \in Int /\ s[n] \in Int
    BY <1>0, <1>2
  <2> QED
    BY <1>3, <1>5, <2>1
<1> QED
  BY <1>2, <1>5, <1>6 DEF r

-----------------------------------------------------------------------------
(* Parts of sequences *)

\* t is what s has at some of the given places, in the order of s; e says where.
Thins(t, s, m, places, e) ==
    /\ e \in [1 .. Len(t) -> (1 .. m) \cap places]
    /\ \A i, j \in 1 .. Len(t) : i < j => e[i] < e[j]
    /\ \A i \in 1 .. Len(t) : t[i] = s[e[i]]

\* What is picked from a sequence comes from it, in its order.
LEMMA PickedThins ==
    ASSUME NEW T, NEW s \in Seq(T), NEW places
    PROVE  Picked(s, places) \in Seq(T)
           /\ \E e : Thins(Picked(s, places), s, Len(s), places, e)
<1>0. Len(s) \in Nat /\ \A k \in 1 .. Len(s) : s[k] \in T
  OBVIOUS
<1> DEFINE step == [p \in (1 .. Len(s)) \X Seq(T) |-> IF p[1] \in places
                                                      THEN Append(p[2], s[p[1]]) ELSE p[2]]
<1>1. \E f : Iterates(Len(s), Seq(T), << >>, step, f)
  <2>1. << >> \in Seq(T) /\ step \in StepFunctions(Len(s), Seq(T))
    BY <1>0 DEF StepFunctions
  <2> HIDE DEF step
  <2> QED
    BY <1>0, <2>1, Recursion
<1>2. PICK f : /\ f \in [0 .. Len(s) -> Seq(T)] /\ f[0] = << >>
               /\ \A k \in 1 .. Len(s) : f[k] = step[<<k, f[k - 1]>>]
  BY <1>1 DEF Iterates
<1>3. ASSUME NEW k \in 1 .. Len(s)
      PROVE  f[k] = (IF k \in places THEN Append(f[k - 1], s[k]) ELSE f[k - 1])
             /\ f[k - 1] \in Seq(T) /\ s[k] \in T
  <2>1. k - 1 \in 0 .. Len(s)
    BY <1>0
  <2>2. f[k - 1] \in Seq(T) /\ <<k, f[k - 1]>> \in (1 .. Len(s)) \X Seq(T)
    BY <1>2, <2>1
  <2>3. step[<<k, f[k - 1]>>] = IF k \in places THEN Append(f[k - 1], s[k]) ELSE f[k - 1]
    BY <2>2
  <2> HIDE DEF step
  <2> QED
    BY <1>0, <1>2, <2>2, <2>3
<1> HIDE DEF step
<1>4. f = [k \in 0 .. Len(s) |-> IF k = 0 THEN << >>
                                 ELSE IF k \in places THEN Append(f[k - 1], s[k])
                                 ELSE f[k - 1]]
  <2>1. ASSUME NEW k \in 0 .. Len(s)
        PROVE  f[k] = IF k = 0 THEN << >> ELSE IF k \in places THEN Append(f[k - 1], s[k])
                                          ELSE f[k - 1]
    <3>1. CASE k = 0
      BY <1>2, <3>1
    <3>2. CASE k # 0
      <4>1. k \in 1 .. Len(s)
        BY <1>0, <3>2
      <4> QED
        BY <1>3, <3>2, <4>1
    <3> QED
      BY <3>1, <3>2
  <2>2. DOMAIN f = 0 .. Len(s) /\ f = [k \in DOMAIN f |-> f[k]]
    BY <1>2, SMTT(40)
  <2> QED
    BY <2>1, <2>2
<1> DEFINE upTo == CHOOSE g : g = [k \in 0 .. Len(s) |->
                                      IF k = 0 THEN << >>
                                      ELSE IF k \in places THEN Append(g[k - 1], s[k])
                                      ELSE g[k - 1]]
<1>5. upTo = [k \in 0 .. Len(s) |-> IF k = 0 THEN << >>
                                    ELSE IF k \in places THEN Append(upTo[k - 1], s[k])
                                    ELSE upTo[k - 1]]
  BY <1>4, Zenon
<1>6. Picked(s, places) = upTo[Len(s)]
  BY DEF Picked
<1>7. Agree(Len(s), upTo, f)
  <2> HIDE DEF upTo
  <2>1. upTo[0] = << >>
    BY <1>0, <1>5
  <2>2. \A k \in 1 .. Len(s) : upTo[k] = IF k \in places THEN Append(upTo[k - 1], s[k])
                                         ELSE upTo[k - 1]
    <3>1. \A k \in 0 .. Len(s) :
            upTo[k] = IF k = 0 THEN << >> ELSE IF k \in places THEN Append(upTo[k - 1], s[k])
                                          ELSE upTo[k - 1]
      BY <1>5
    <3>2. \A k \in 1 .. Len(s) : k \in 0 .. Len(s) /\ k # 0
      BY <1>0
    <3> QED
      BY <3>1, <3>2
  <2>3. Alike(Len(s), upTo, f)
    BY <1>2, <1>3, <2>1, <2>2 DEF Alike
  <2> QED
    BY <1>0, <2>3, SameRecursion
<1>8. Picked(s, places) = f[Len(s)]
  <2>1. Len(s) \in 0 .. Len(s)
    BY <1>0
  <2> HIDE DEF upTo
  <2> QED
    BY <1>6, <1>7, <2>1 DEF Agree
<1> HIDE DEF upTo
<1> DEFINE Bad == {k \in 0 .. Len(s) : ~ \E e : Thins(f[k], s, k, places, e)}
<1>9. Bad = {}
  <2>1. SUFFICES ASSUME Bad # {} PROVE FALSE
    OBVIOUS
  <2>2. \E m \in Bad : \A k \in Bad : m <= k
    <3>1. Bad \subseteq Nat
      BY <1>0
    <3> HIDE DEF Bad
    <3> QED
      BY <2>1, <3>1, Least
  <2>3. PICK m \in Bad : \A k \in Bad : m <= k
    BY <2>2
  <2>4. m # 0
    <3>1. Thins(f[0], s, 0, places, << >>)
      BY <1>2 DEF Thins
    <3> QED
      BY <3>1
  <2>5. m \in 1 .. Len(s) /\ m - 1 \in 0 .. Len(s) /\ m - 1 \notin Bad /\ m - 1 < m
    BY <1>0, <2>3, <2>4
  <2>6. PICK e : Thins(f[m - 1], s, m - 1, places, e)
    BY <2>5
  <2> DEFINE t == f[m - 1]
             n == Len(t)
  <2>7. t \in Seq(T) /\ n \in Nat /\ s[m] \in T
        /\ f[m] = IF m \in places THEN Append(t, s[m]) ELSE t
    BY <1>3, <2>5
  <2> HIDE DEF t
  <2>8. /\ e \in [1 .. n -> (1 .. m - 1) \cap places]
        /\ \A i, j \in 1 .. n : i < j => e[i] < e[j]
        /\ \A i \in 1 .. n : t[i] = s[e[i]]
    BY <2>6 DEF Thins, t
  <2> HIDE DEF n
  <2>9. CASE m \notin places
    <3>1. f[m] = t /\ (1 .. m - 1) \subseteq 1 .. m
      BY <2>5, <2>7, <2>9
    <3>2. Thins(f[m], s, m, places, e)
      BY <2>8, <3>1 DEF Thins, n
    <3> QED
      BY <3>2
  <2>10. CASE m \in places
    <3> DEFINE u == Append(t, s[m])
               d == [i \in 1 .. n + 1 |-> IF i = n + 1 THEN m ELSE e[i]]
    <3>1. /\ Len(u) = n + 1 /\ u[n + 1] = s[m]
          /\ \A i \in 1 .. n : u[i] = t[i]
      BY <2>7 DEF n
    <3> HIDE DEF u
    <3>2. \A i \in 1 .. n + 1 : i = n + 1 \/ i \in 1 .. n
      BY <2>7
    <3>3. \A i \in 1 .. n : e[i] \in 1 .. m /\ e[i] < m /\ e[i] \in places /\ i # n + 1
      BY <2>5, <2>7, <2>8
    <3>4. d \in [1 .. n + 1 -> (1 .. m) \cap places]
      BY <2>5, <2>10, <3>2, <3>3
    <3>5. n + 1 \in 1 .. n + 1 /\ d[n + 1] = m
      BY <2>7
    <3>6. \A i \in 1 .. n : i \in 1 .. n + 1 /\ d[i] = e[i]
      BY <2>7, <3>3
    <3> HIDE DEF d
    <3>7. \A i, j \in 1 .. n + 1 : i < j => d[i] < d[j]
      <4>1. ASSUME NEW i \in 1 .. n + 1, NEW j \in 1 .. n + 1, i < j PROVE d[i] < d[j]
        <5>1. i \in 1 .. n /\ d[i] = e[i] /\ e[i] < m
          BY <2>7, <3>2, <3>3, <3>6, <4>1
        <5>2. CASE j = n + 1
          BY <3>5, <5>1, <5>2
        <5>3. CASE j \in 1 .. n
          BY <2>8, <3>6, <4>1, <5>1, <5>3
        <5> QED
          BY <3>2, <5>2, <5>3
      <4> QED
        BY <4>1
    <3>8. \A i \in 1 .. n + 1 : u[i] = s[d[i]]
      BY <2>8, <3>1, <3>2, <3>5, <3>6
    <3>9. Thins(u, s, m, places, d)
      BY <3>1, <3>4, <3>7, <3>8 DEF Thins
    <3>10. f[m] = u
      BY <2>7, <2>10 DEF u
    <3> QED
      BY <3>9, <3>10
  <2> QED
    BY <2>9, <2>10
<1>10. \E e : Thins(f[Len(s)], s, Len(s), places, e)
  <2>1. Len(s) \in 0 .. Len(s) /\ Len(s) \notin Bad
    BY <1>0, <1>9
  <2> QED
    BY <2>1
<1>11. f[Len(s)] \in Seq(T)
  BY <1>0, <1>2
<1> QED
  BY <1>8, <1>10, <1>11

\* What f says of each element of a sequence.
Each(s, f) == [k \in DOMAIN s |-> f[s[k]]]

Weighs(f, T) == f \in [T -> Int]
IsEach(b, s, f) == b \in Seq(Int) /\ Len(b) = Len(s) /\ \A k \in 1 .. Len(s) : b[k] = f[s[k]]

\* What each element of a sequence weighs.
LEMMA EachSeq ==
    ASSUME NEW T, NEW f, Weighs(f, T), NEW s \in Seq(T)
    PROVE  IsEach(Each(s, f), s, f)
<1>1. DOMAIN s = 1 .. Len(s) /\ Len(s) \in Nat /\ \A k \in 1 .. Len(s) : s[k] \in T
  OBVIOUS
<1>2. Each(s, f) = [k \in 1 .. Len(s) |-> f[s[k]]] /\ \A k \in 1 .. Len(s) : f[s[k]] \in Int
  BY <1>1 DEF Each, Weighs
<1> QED
  BY <1>1, <1>2 DEF IsEach

\* It adds up: over two sequences, with one more element, with one less.
LEMMA EachConcat ==
    ASSUME NEW T, NEW f, Weighs(f, T), NEW s \in Seq(T), NEW t \in Seq(T)
    PROVE  Total(Each(s \o t, f)) = Total(Each(s, f)) + Total(Each(t, f))
           /\ Total(Each(s, f)) \in Int /\ Total(Each(t, f)) \in Int
<1> DEFINE u == s \o t
           a == Each(s, f)
           b == Each(t, f)
<1>1. /\ u \in Seq(T) /\ Len(u) = Len(s) + Len(t) /\ Len(s) \in Nat /\ Len(t) \in Nat
      /\ \A k \in 1 .. Len(s) : u[k] = s[k]
      /\ \A k \in 1 .. Len(t) : u[Len(s) + k] = t[k]
  OBVIOUS
<1>2. /\ Each(u, f) \in Seq(Int) /\ Len(Each(u, f)) = Len(u)
      /\ \A k \in 1 .. Len(u) : Each(u, f)[k] = f[u[k]]
  <2> HIDE DEF u
  <2>1. IsEach(Each(u, f), u, f)
    BY <1>1, EachSeq
  <2> QED
    BY <2>1 DEF IsEach
<1>3. /\ a \in Seq(Int) /\ Len(a) = Len(s) /\ \A k \in 1 .. Len(s) : a[k] = f[s[k]]
      /\ b \in Seq(Int) /\ Len(b) = Len(t) /\ \A k \in 1 .. Len(t) : b[k] = f[t[k]]
  <2>1. IsEach(a, s, f) /\ IsEach(b, t, f)
    BY EachSeq
  <2> HIDE DEF a, b
  <2> QED
    BY <2>1 DEF IsEach
<1> HIDE DEF u, a, b
<1>4. /\ a \o b \in Seq(Int) /\ Len(a \o b) = Len(s) + Len(t)
      /\ \A k \in 1 .. Len(s) : (a \o b)[k] = a[k]
      /\ \A k \in 1 .. Len(t) : (a \o b)[Len(s) + k] = b[k]
  <2>1. /\ a \o b \in Seq(Int) /\ Len(a \o b) = Len(a) + Len(b)
        /\ \A k \in 1 .. Len(a) : (a \o b)[k] = a[k]
        /\ \A k \in 1 .. Len(b) : (a \o b)[Len(a) + k] = b[k]
    <3>1. a \in Seq(Int) /\ b \in Seq(Int)
      BY <1>3
    <3> QED
      BY <3>1
  <2> QED
    BY <1>3, <2>1
<1>5. ASSUME NEW k \in 1 .. Len(u) PROVE Each(u, f)[k] = (a \o b)[k]
  <2>1. CASE k <= Len(s)
    <3>1. k \in 1 .. Len(s)
      BY <1>1, <2>1
    <3>2. u[k] = s[k] /\ (a \o b)[k] = a[k] /\ a[k] = f[s[k]]
      BY <1>1, <1>3, <1>4, <3>1
    <3> QED
      BY <1>2, <3>2
  <2>2. CASE k > Len(s)
    <3>1. k - Len(s) \in 1 .. Len(t) /\ Len(s) + (k - Len(s)) = k
      BY <1>1, <2>2
    <3>2. u[k] = t[k - Len(s)] /\ (a \o b)[k] = b[k - Len(s)]
      BY <1>1, <1>4, <3>1
    <3> QED
      BY <1>2, <1>3, <3>1, <3>2
  <2>3. k <= Len(s) \/ k > Len(s)
    BY <1>1
  <2> QED
    BY <2>1, <2>2, <2>3
<1>6. Each(u, f) = a \o b
  <2> DEFINE c == Each(u, f)
             d == a \o b
  <2>1. c \in Seq(Int) /\ d \in Seq(Int) /\ Len(c) = Len(d) /\ \A k \in 1 .. Len(c) : c[k] = d[k]
    BY <1>1, <1>2, <1>4, <1>5
  <2> HIDE DEF c, d
  <2>2. c = d
    BY <2>1, SeqEqual
  <2> QED
    BY <2>2 DEF c, d
<1>7. Total(a \o b) = Total(a) + Total(b) /\ Total(a) \in Int /\ Total(b) \in Int
  BY <1>3, TotalConcat
<1> QED
  BY <1>6, <1>7 DEF u, a, b

LEMMA EachAppend ==
    ASSUME NEW T, NEW f, Weighs(f, T), NEW s \in Seq(T), NEW x \in T
    PROVE  Total(Each(Append(s, x), f)) = Total(Each(s, f)) + f[x]
           /\ Total(Each(s, f)) \in Int /\ f[x] \in Int
<1>1. <<x>> \in Seq(T) /\ Append(s, x) = s \o <<x>> /\ f[x] \in Int
  <2>1. f[x] \in Int
    BY DEF Weighs
  <2>2. <<x>> \in Seq(T) /\ Append(s, x) = s \o <<x>>
    OBVIOUS
  <2> QED
    BY <2>1, <2>2
<1>2. Total(Each(s \o <<x>>, f)) = Total(Each(s, f)) + Total(Each(<<x>>, f))
      /\ Total(Each(s, f)) \in Int
  BY <1>1, EachConcat
<1>3. Each(<<x>>, f) = <<f[x]>>
  BY DEF Each
<1> QED
  BY <1>1, <1>2, <1>3, TotalOne

LEMMA EachWithout ==
    ASSUME NEW T, NEW f, Weighs(f, T), NEW s \in Seq(T), NEW n \in 1 .. Len(s)
    PROVE  Total(Each(s, f)) = Total(Each(RemoveAt(s, n), f)) + f[s[n]]
           /\ Total(Each(RemoveAt(s, n), f)) \in Int /\ f[s[n]] \in Int
<1> DEFINE r == RemoveAt(s, n)
           a == Each(s, f)
           b == Each(r, f)
<1>1. Len(s) \in Nat /\ n \in DOMAIN s /\ s[n] \in T
  OBVIOUS
<1>2. /\ r \in Seq(T) /\ Len(r) = Len(s) - 1
      /\ \A k \in 1 .. Len(s) - 1 : r[k] = IF k < n THEN s[k] ELSE s[k + 1]
  BY <1>1, Removed
<1>3. a \in Seq(Int) /\ Len(a) = Len(s) /\ \A k \in 1 .. Len(s) : a[k] = f[s[k]]
  <2>1. IsEach(a, s, f)
    BY EachSeq
  <2> HIDE DEF a
  <2> QED
    BY <2>1 DEF IsEach
<1>4. b \in Seq(Int) /\ Len(b) = Len(r) /\ \A k \in 1 .. Len(r) : b[k] = f[r[k]]
  <2> HIDE DEF r
  <2>1. IsEach(b, r, f)
    BY <1>2, EachSeq
  <2> HIDE DEF b
  <2> QED
    BY <2>1 DEF IsEach
<1> HIDE DEF r, a, b
<1>5. /\ RemoveAt(a, n) \in Seq(Int) /\ Len(RemoveAt(a, n)) = Len(a) - 1
      /\ \A k \in 1 .. Len(a) - 1 : RemoveAt(a, n)[k] = IF k < n THEN a[k] ELSE a[k + 1]
  <2>1. n \in DOMAIN a
    BY <1>1, <1>3
  <2> QED
    BY <1>3, <2>1, Removed
<1>6. ASSUME NEW k \in 1 .. Len(b) PROVE b[k] = RemoveAt(a, n)[k]
  <2>1. k \in 1 .. Len(s) - 1 /\ k \in 1 .. Len(s) /\ k + 1 \in 1 .. Len(s) /\ k \in 1 .. Len(r)
    BY <1>1, <1>2, <1>4
  <2>2. b[k] = f[r[k]] /\ r[k] = IF k < n THEN s[k] ELSE s[k + 1]
    BY <1>2, <1>4, <2>1
  <2>3. RemoveAt(a, n)[k] = IF k < n THEN a[k] ELSE a[k + 1]
    BY <1>3, <1>5, <2>1
  <2>4. a[k] = f[s[k]] /\ a[k + 1] = f[s[k + 1]]
    BY <1>3, <2>1
  <2> QED
    BY <2>2, <2>3, <2>4
<1>7. b = RemoveAt(a, n)
  <2> DEFINE c == RemoveAt(a, n)
  <2>1. c \in Seq(Int) /\ Len(b) = Len(c) /\ \A k \in 1 .. Len(b) : b[k] = c[k]
    BY <1>2, <1>3, <1>4, <1>5, <1>6
  <2> HIDE DEF c
  <2>2. b = c
    BY <1>4, <2>1, SeqEqual
  <2> QED
    BY <2>2 DEF c
<1>8. n \in 1 .. Len(a) /\ a[n] = f[s[n]] /\ f[s[n]] \in Int
  BY <1>1, <1>3 DEF Weighs
<1>9. Total(a) = Total(RemoveAt(a, n)) + a[n] /\ Total(RemoveAt(a, n)) \in Int
  BY <1>3, <1>8, TotalWithout
<1> QED
  BY <1>7, <1>8, <1>9 DEF a, b, r

LEMMA EachInt ==
    ASSUME NEW T, NEW f, Weighs(f, T), NEW s \in Seq(T)
    PROVE  Total(Each(s, f)) \in Int
<1>1. Each(s, f) \in Seq(Int)
  BY EachSeq DEF IsEach
<1> QED
  BY <1>1, TotalConcat

-----------------------------------------------------------------------------
(* Incidents: what the argument needs of the types *)

Kind == {Types[n] : n \in DOMAIN Types}
Hosts == {packet.host : packet \in Evidence}
Contexts == {packet.context : packet \in Evidence}
Signals == [type : Kind, host : Hosts, context : Contexts,
            origin : {"alert", "flow", "expert_info"}, severity : Severity, time : Nat]
Entries == [time : Nat, severity : Severity]
Incident == [id : Nat, type : Kind, hosts : SUBSET Hosts, contexts : SUBSET Contexts,
             last : Nat, count : Nat, timeline : Seq(Entries), severity : Severity]
Waiters == [key : Kind \X (Hosts \cup Contexts), signals : Seq(Signals)]

\* What the argument needs of the types.
IncidentShape ==
    /\ instant \in Nat /\ todo \in [Correlators -> Seq(Signals)]
    /\ incidents \in Seq(Incident) /\ pending \in Seq(Waiters)
    /\ created \in Nat /\ received \in Nat /\ correlated \in Nat /\ ignored \in Nat
    /\ dropped \in Int /\ expired \in Int /\ evicted \in Seq(Nat)

CountOf == [i \in Incident |-> i.count]
LengthOf == [p \in Waiters |-> Len(p.signals)]

\* Signals are counted per incident, and per deque.
LEMMA Weights == Weighs(CountOf, Incident) /\ Weighs(LengthOf, Waiters)
<1>1. \A i \in Incident : i.count \in Int
  BY DEF Incident
<1>2. \A p \in Waiters : Len(p.signals) \in Int
  <2>1. ASSUME NEW p \in Waiters PROVE Len(p.signals) \in Int
    <3>1. p.signals \in Seq(Signals)
      BY DEF Waiters
    <3> QED
      BY <3>1, LenProperties
  <2> QED
    BY <2>1
<1> QED
  BY <1>1, <1>2 DEF Weighs, CountOf, LengthOf

LEMMA CountsAreEach ==
    ASSUME NEW is \in Seq(Incident)
    PROVE  SignalCounts(is) = Each(is, CountOf)
<1>1. \A k \in DOMAIN is : is[k] \in Incident
  OBVIOUS
<1> QED
  BY <1>1 DEF SignalCounts, Each, CountOf

LEMMA WaitingIsEach ==
    ASSUME NEW ps \in Seq(Waiters)
    PROVE  Waiting(ps) = Each(ps, LengthOf)
<1>1. \A k \in DOMAIN ps : ps[k] \in Waiters
  OBVIOUS
<1> QED
  BY <1>1 DEF Waiting, Each, LengthOf

\* l is what s has after its first m elements: the last n.
Ends(l, n, s, m) ==
    /\ m \in 0 .. Len(s) /\ m = IF Len(s) <= n THEN 0 ELSE Len(s) - n
    /\ Len(l) = Len(s) - m /\ l = SubSeq(s, m + 1, Len(s)) /\ s = SubSeq(s, 1, m) \o l
    /\ \A k \in 1 .. Len(s) - m : l[k] = s[m + k]

\* The last n of a sequence.
LEMMA LastOfIs ==
    ASSUME NEW T, NEW s \in Seq(T), NEW n \in Nat
    PROVE  LastOf(n, s) \in Seq(T) /\ \E m : Ends(LastOf(n, s), n, s, m)
<1>1. Len(s) \in Nat /\ \A k \in 1 .. Len(s) : s[k] \in T
  OBVIOUS
<1> DEFINE m == IF Len(s) <= n THEN 0 ELSE Len(s) - n
           a == SubSeq(s, 1, m)
           b == SubSeq(s, m + 1, Len(s))
<1>2. m \in 0 .. Len(s) /\ m + 1 \in Int
  BY <1>1
<1>3. /\ b \in Seq(T) /\ Len(b) = Len(s) - m
      /\ \A k \in 1 .. Len(s) - m : b[k] = s[m + k]
  <2> HIDE DEF m
  <2>1. \A k \in m + 1 .. Len(s) : s[k] \in T
    BY <1>1, <1>2
  <2>2. /\ b \in Seq(T)
        /\ Len(b) = IF m + 1 <= Len(s) THEN Len(s) - (m + 1) + 1 ELSE 0
        /\ \A k \in 1 .. Len(s) - (m + 1) + 1 : b[k] = s[m + 1 + k - 1]
    BY <1>1, <1>2, <2>1, SubSeqProperties
  <2> HIDE DEF b
  <2>3. Len(b) = Len(s) - m /\ Len(s) - (m + 1) + 1 = Len(s) - m
    BY <1>1, <1>2, <2>2
  <2>4. \A k \in 1 .. Len(s) - m : m + 1 + k - 1 = m + k
    BY <1>1, <1>2
  <2> QED
    BY <2>2, <2>3, <2>4
<1>4. /\ a \in Seq(T) /\ Len(a) = m /\ \A k \in 1 .. m : a[k] = s[k]
  <2> HIDE DEF m
  <2>1. \A k \in 1 .. m : s[k] \in T
    BY <1>1, <1>2
  <2>2. /\ a \in Seq(T) /\ Len(a) = IF 1 <= m THEN m - 1 + 1 ELSE 0
        /\ \A k \in 1 .. m - 1 + 1 : a[k] = s[1 + k - 1]
    BY <1>1, <1>2, <2>1, SubSeqProperties
  <2> HIDE DEF a
  <2> QED
    BY <1>2, <2>2
<1> HIDE DEF a, b
<1>5. s = a \o b
  <2> HIDE DEF m
  <2> DEFINE c == a \o b
  <2>1. /\ c \in Seq(T) /\ Len(c) = Len(a) + Len(b)
        /\ \A k \in 1 .. Len(a) + Len(b) : c[k] = IF k <= Len(a) THEN a[k] ELSE b[k - Len(a)]
    BY <1>3, <1>4, ConcatProperties
  <2> HIDE DEF c
  <2>2. ASSUME NEW k \in 1 .. Len(s) PROVE s[k] = c[k]
    <3>1. k \in 1 .. Len(a) + Len(b)
      BY <1>1, <1>2, <1>3, <1>4
    <3>2. CASE k <= m
      <4>1. k \in 1 .. m
        BY <1>2, <3>2
      <4> QED
        BY <1>4, <2>1, <3>1, <3>2, <4>1
    <3>3. CASE ~ k <= m
      <4>1. k - m \in 1 .. Len(s) - m /\ m + (k - m) = k
        BY <1>1, <1>2, <3>3
      <4> QED
        BY <1>3, <1>4, <2>1, <3>1, <3>3, <4>1
    <3> QED
      BY <3>2, <3>3
  <2>3. s = c
    BY <1>1, <1>2, <1>3, <1>4, <2>1, <2>2, SeqEqual
  <2> QED
    BY <2>3 DEF c
<1>6. LastOf(n, s) = b
  <2>1. CASE Len(s) <= n
    <3>1. m = 0 /\ LastOf(n, s) = s
      BY <2>1 DEF LastOf
    <3>2. Len(b) = Len(s) /\ \A k \in 1 .. Len(s) : b[k] = s[k]
      BY <1>1, <1>3, <3>1
    <3>3. b = s
      BY <1>3, <3>2, SeqEqual
    <3> QED
      BY <3>1, <3>3
  <2>2. CASE ~ Len(s) <= n
    <3>1. m = Len(s) - n /\ Len(s) - n + 1 = m + 1
      BY <2>2
    <3> QED
      BY <2>2, <3>1 DEF LastOf, b
  <2> QED
    BY <2>1, <2>2
<1> QED
  BY <1>2, <1>3, <1>5, <1>6 DEF a, b, Ends

\* What ageing leaves of a deque: what comes after some place, where the first is not stale.
LEMMA NotStaleIs ==
    ASSUME NEW s \in Seq(Signals)
    PROVE  \E m \in 0 .. Len(s) :
              /\ NotStale(s) \in Seq(Signals) /\ Len(NotStale(s)) = Len(s) - m
              /\ \A k \in 1 .. Len(s) - m : NotStale(s)[k] = s[m + k]
              /\ m < Len(s) => s[m + 1].time + Together >= instant
<1>1. Len(s) \in Nat /\ DOMAIN s = 1 .. Len(s) /\ \A k \in 1 .. Len(s) : s[k] \in Signals
  OBVIOUS
<1> DEFINE kept == {k \in DOMAIN s : s[k].time + Together >= instant}
<1>2. CASE kept = {}
  <2>1. NotStale(s) = << >>
    BY <1>2 DEF NotStale
  <2>2. << >> \in Seq(Signals) /\ Len(<< >>) = 0
    OBVIOUS
  <2>3. /\ Len(s) \in 0 .. Len(s) /\ Len(s) - Len(s) = 0 /\ ~ (Len(s) < Len(s))
        /\ 1 .. 0 = {}
    BY <1>1
  <2> DEFINE m == Len(s)
  <2>4. /\ NotStale(s) \in Seq(Signals) /\ Len(NotStale(s)) = Len(s) - m
        /\ \A k \in 1 .. Len(s) - m : NotStale(s)[k] = s[m + k]
        /\ m < Len(s) => s[m + 1].time + Together >= instant
    BY <2>1, <2>2, <2>3
  <2> QED
    BY <2>3, <2>4
<1>3. CASE kept # {}
  <2> DEFINE c == CHOOSE k \in kept : \A j \in kept : k <= j
  <2>1. c \in kept
    <3>1. kept \subseteq Nat
      BY <1>1
    <3> HIDE DEF kept
    <3>2. \E k \in kept : \A j \in kept : k <= j
      BY <1>3, <3>1, Least
    <3> QED
      BY <3>2
  <2>2. NotStale(s) = SubSeq(s, c, Len(s))
    BY <1>3 DEF NotStale
  <2>3. c \in 1 .. Len(s) /\ s[c].time + Together >= instant
    BY <1>1, <2>1
  <2> HIDE DEF c, kept
  <2> DEFINE b == SubSeq(s, c, Len(s))
  <2>4. /\ b \in Seq(Signals) /\ Len(b) = IF c <= Len(s) THEN Len(s) - c + 1 ELSE 0
        /\ \A k \in 1 .. Len(s) - c + 1 : b[k] = s[c + k - 1]
    <3>1. \A k \in c .. Len(s) : s[k] \in Signals
      BY <1>1, <2>3
    <3> QED
      BY <1>1, <2>3, <3>1, SubSeqProperties
  <2> HIDE DEF b
  <2>5. /\ c - 1 \in 0 .. Len(s) /\ c - 1 < Len(s) /\ Len(s) - (c - 1) = Len(s) - c + 1
        /\ Len(b) = Len(s) - (c - 1) /\ (c - 1) + 1 = c
        /\ \A k \in 1 .. Len(s) - (c - 1) : c + k - 1 = (c - 1) + k
    BY <1>1, <2>3, <2>4, SMTT(40)
  <2>6. \A k \in 1 .. Len(s) - (c - 1) : b[k] = s[(c - 1) + k]
    BY <2>4, <2>5
  <2>7. NotStale(s) = b
    BY <2>2 DEF b
  <2> QED
    BY <2>3, <2>4, <2>5, <2>6, <2>7
<1> QED
  BY <1>2, <1>3

\* What the clean-up leaves.
LEMMA KeptShape ==
    ASSUME IncidentShape
    PROVE  /\ KeptIncidents \in Seq(Incident) /\ KeptPending \in Seq(Waiters)
           /\ Aged \in Seq(Waiters) /\ Len(Aged) = Len(pending)
           /\ \A k \in 1 .. Len(pending) :
                Aged[k] = [key |-> pending[k].key, signals |-> NotStale(pending[k].signals)]
<1>1. DOMAIN pending = 1 .. Len(pending) /\ Len(pending) \in Nat
  BY DEF IncidentShape
<1>2. ASSUME NEW k \in DOMAIN pending
      PROVE  /\ [pending[k] EXCEPT !.signals = NotStale(@)] \in Waiters
             /\ [pending[k] EXCEPT !.signals = NotStale(@)]
                  = [key |-> pending[k].key, signals |-> NotStale(pending[k].signals)]
  <2>1. pending[k] \in Waiters
    BY <1>1 DEF IncidentShape
  <2>2. pending[k].signals \in Seq(Signals)
    BY <2>1 DEF Waiters
  <2>3. NotStale(pending[k].signals) \in Seq(Signals)
    BY <2>2, NotStaleIs
  <2> QED
    BY <2>1, <2>3 DEF Waiters
<1>3. /\ Aged \in Seq(Waiters) /\ Len(Aged) = Len(pending)
      /\ \A k \in 1 .. Len(pending) :
            Aged[k] = [key |-> pending[k].key, signals |-> NotStale(pending[k].signals)]
  <2>1. Aged = [k \in 1 .. Len(pending) |-> [pending[k] EXCEPT !.signals = NotStale(@)]]
    BY <1>1 DEF Aged
  <2>2. \A k \in 1 .. Len(pending) : Aged[k] = [pending[k] EXCEPT !.signals = NotStale(@)]
    BY <2>1
  <2>3. \A k \in 1 .. Len(pending) : Aged[k] \in Waiters
    BY <1>1, <1>2, <2>2, ZenonT(60)
  <2>4. DOMAIN Aged = 1 .. Len(pending) /\ Aged = [k \in 1 .. Len(pending) |-> Aged[k]]
    BY <2>1, <2>2
  <2>5. Aged \in [1 .. Len(pending) -> Waiters]
    BY <2>3, <2>4
  <2>6. Aged \in Seq(Waiters) /\ Len(Aged) = Len(pending)
    <3> HIDE DEF Aged
    <3> QED
      BY <1>1, <2>4, <2>5
  <2> QED
    BY <1>1, <1>2, <2>2, <2>6
<1>4. incidents \in Seq(Incident)
  BY DEF IncidentShape
<1> QED
  BY <1>3, <1>4, PickedThins DEF KeptIncidents, KeptPending

-----------------------------------------------------------------------------
(* Grades, deques and new incidents *)

\* A set of places has a last one.
LEMMA Greatest ==
    ASSUME NEW n \in Nat, NEW T, T \subseteq 0 .. n, T # {}
    PROVE  \E x \in T : \A y \in T : y <= x
<1> DEFINE U == {n - x : x \in T}
<1>1. U \subseteq Nat /\ U # {}
  <2>1. \A x \in 0 .. n : n - x \in Nat
    OBVIOUS
  <2> QED
    BY <2>1
<1>2. \E u \in U : \A v \in U : u <= v
  <2> HIDE DEF U
  <2> QED
    BY <1>1, Least
<1>3. PICK x \in T : \A v \in U : n - x <= v
  BY <1>2
<1>4. ASSUME NEW y \in T PROVE y <= x
  <2>1. n - x <= n - y
    BY <1>3
  <2>2. x \in 0 .. n /\ y \in 0 .. n
    OBVIOUS
  <2> QED
    BY <2>1, <2>2
<1> QED
  BY <1>4

\* The grades that may be given, and the one that is: the highest of them.
Grades(c, t) ==
    {MinSeverity} \cup {n \in 1 .. 4 : \/ c >= SignalsFor[n]
                                      \/ \E severity \in Remembered(t) : severity >= n}

\* The grade is one that may be given, and the highest.
LEMMA GradedIs ==
    ASSUME NEW c, NEW t
    PROVE  /\ Graded(c, t) \in Grades(c, t) /\ Grades(c, t) \subseteq 0 .. 4
           /\ \A n \in Grades(c, t) : n <= Graded(c, t)
<1> DEFINE G == Grades(c, t)
<1>1. G \subseteq 0 .. 4 /\ G # {}
  BY TunablesAssumption DEF Grades, Severity
<1>2. Graded(c, t) = Max(G)
  BY DEF Graded, Grades
<1> HIDE DEF G
<1>3. \E n \in G : \A m \in G : m <= n
  BY <1>1, Greatest
<1>4. \E n \in G : \A m \in G : n >= m
  BY <1>1, <1>3
<1>5. Max(G) \in G /\ \A m \in G : Max(G) >= m
  BY <1>4 DEF Max
<1>6. \A m \in G : m <= Max(G)
  BY <1>1, <1>5
<1> QED
  BY <1>1, <1>2, <1>5, <1>6 DEF G

LEMMA GradedShape == ASSUME NEW c, NEW t PROVE Graded(c, t) \in Severity
  BY GradedIs DEF Severity

Entry(s) == [time |-> s.time, severity |-> s.severity]

\* An incident that takes a signal, field by field.
LEMMA ApplyIs ==
    ASSUME NEW i \in Incident, NEW s \in Signals
    PROVE  /\ Apply(i, s) \in Incident
           /\ Apply(i, s) =
                [id |-> i.id, type |-> i.type, hosts |-> i.hosts \cup Named(s.host),
                 contexts |-> i.contexts \cup {s.context}, last |-> s.time,
                 count |-> i.count + 1, timeline |-> KeepNewest(Append(i.timeline, Entry(s))),
                 severity |-> Graded(i.count + 1, KeepNewest(Append(i.timeline, Entry(s))))]
<1> DEFINE t == KeepNewest(Append(i.timeline, Entry(s)))
<1>1. /\ i.id \in Nat /\ i.type \in Kind /\ i.hosts \subseteq Hosts /\ i.contexts \subseteq Contexts
      /\ i.count \in Nat /\ i.timeline \in Seq(Entries)
      /\ i = [id |-> i.id, type |-> i.type, hosts |-> i.hosts, contexts |-> i.contexts,
              last |-> i.last, count |-> i.count, timeline |-> i.timeline,
              severity |-> i.severity]
  BY DEF Incident
<1>2. /\ s.host \in Hosts /\ s.context \in Contexts /\ s.time \in Nat /\ s.severity \in Severity
  BY DEF Signals
<1>3. Entry(s) \in Entries
  BY <1>2 DEF Entry, Entries
<1>4. Append(i.timeline, Entry(s)) \in Seq(Entries)
  BY <1>1, <1>3, AppendProperties
<1>5. t \in Seq(Entries)
  BY <1>4, LastOfIs, TunablesAssumption DEF KeepNewest
<1>6. Graded(i.count + 1, t) \in Severity
  BY GradedShape
<1>7. Apply(i, s) = [i EXCEPT !.count = i.count + 1, !.timeline = t, !.last = s.time,
                      !.hosts = @ \cup Named(s.host), !.contexts = @ \cup {s.context},
                      !.severity = Graded(i.count + 1, t)]
  BY DEF Apply, Entry
<1> HIDE DEF t
<1>8. Apply(i, s) =
        [id |-> i.id, type |-> i.type, hosts |-> i.hosts \cup Named(s.host),
         contexts |-> i.contexts \cup {s.context}, last |-> s.time,
         count |-> i.count + 1, timeline |-> t, severity |-> Graded(i.count + 1, t)]
  BY <1>1, <1>7
<1>9. i.hosts \cup Named(s.host) \subseteq Hosts /\ i.contexts \cup {s.context} \subseteq Contexts
  BY <1>1, <1>2 DEF Named
<1> QED
  BY <1>1, <1>2, <1>5, <1>6, <1>8, <1>9 DEF Incident, t

\* The place of a key, the other keys, and the deque with the signal that arrives.
LEMMA DequeShape ==
    ASSUME IncidentShape, NEW s \in Signals
    PROVE  /\ PlaceOf(s) \in 0 .. Len(KeptPending)
           /\ PlaceOf(s) # 0 => KeptPending[PlaceOf(s)].key = PendingKey(s)
           /\ Others(s) \in Seq(Waiters) /\ Earlier(s) \in Seq(Signals)
           /\ Deque(s) \in Seq(Signals) /\ Len(Deque(s)) \in 1 .. MaxSignals
           /\ Deque(s)[Len(Deque(s))] = s
           /\ OthersKept(s) \in Seq(Waiters)
           /\ PendingKey(s) \in Kind \X (Hosts \cup Contexts)
<1>1. KeptPending \in Seq(Waiters)
  BY KeptShape
<1> DEFINE ps == KeptPending
           n == PlaceOf(s)
<1>2. DOMAIN ps = 1 .. Len(ps) /\ Len(ps) \in Nat
  BY <1>1, LenProperties
<1>3. n \in 0 .. Len(ps) /\ (n # 0 => ps[n].key = PendingKey(s))
  <2> DEFINE I == {k \in 1 .. Len(ps) : ps[k].key = PendingKey(s)}
  <2>1. n = IF I # {} THEN Min(I) ELSE 0
    BY <1>2 DEF PlaceOf, SelectInSeq
  <2>2. CASE I # {}
    <3>1. Min(I) \in I
      <4>1. I \subseteq Nat
        BY <1>2
      <4> HIDE DEF I
      <4>2. \E k \in I : \A j \in I : k <= j
        BY <2>2, <4>1, Least
      <4> QED
        BY <4>2 DEF Min
    <3> HIDE DEF n, ps
    <3> QED
      BY <2>1, <2>2, <3>1
  <2>3. CASE I = {}
    BY <1>2, <2>1, <2>3
  <2> QED
    BY <2>2, <2>3
<1>4. n # 0 => ps[n] \in Waiters /\ n \in DOMAIN ps
  BY <1>1, <1>2, <1>3
<1> HIDE DEF ps, n
<1>5. Others(s) \in Seq(Waiters)
  BY <1>1, <1>4, Removed DEF Others, ps, n
<1>6. Earlier(s) \in Seq(Signals)
  BY <1>4 DEF Earlier, Waiters, ps, n
<1>7. /\ Append(Earlier(s), s) \in Seq(Signals)
      /\ Len(Append(Earlier(s), s)) = Len(Earlier(s)) + 1 /\ Len(Earlier(s)) \in Nat
      /\ Append(Earlier(s), s)[Len(Earlier(s)) + 1] = s
  BY <1>6, AppendProperties, LenProperties
<1>8. MaxSignals \in Nat /\ MaxSignals >= 2 /\ MaxOpen \in Nat /\ MaxOpen >= 1
  BY TunablesAssumption
<1>9. /\ Deque(s) \in Seq(Signals) /\ Len(Deque(s)) \in 1 .. MaxSignals
      /\ Deque(s)[Len(Deque(s))] = s
  <2> DEFINE a == Append(Earlier(s), s)
  <2>1. PICK m : Ends(LastOf(MaxSignals, a), MaxSignals, a, m)
    <3> HIDE DEF a
    <3>1. a \in Seq(Signals)
      BY <1>7 DEF a
    <3> QED
      BY <1>8, <3>1, LastOfIs
  <2>5. LastOf(MaxSignals, a) \in Seq(Signals)
    <3> HIDE DEF a
    <3>1. a \in Seq(Signals)
      BY <1>7 DEF a
    <3> QED
      BY <1>8, <3>1, LastOfIs
  <2>2. Deque(s) = LastOf(MaxSignals, a)
    BY DEF Deque
  <2>3. Len(a) \in Nat /\ Len(a) >= 1 /\ a[Len(a)] = s
    BY <1>7
  <2> HIDE DEF a
  <2>4. Len(Deque(s)) = Len(a) - m /\ Len(a) - m \in 1 .. MaxSignals /\ m + (Len(a) - m) = Len(a)
        /\ Len(a) - m \in 1 .. Len(a) - m
    <3>1. /\ m \in 0 .. Len(a) /\ Len(Deque(s)) = Len(a) - m
          /\ m = IF Len(a) <= MaxSignals THEN 0 ELSE Len(a) - MaxSignals
      BY <2>1, <2>2 DEF Ends
    <3> DEFINE x == Len(a)
               y == MaxSignals
    <3>2. x \in Nat /\ x >= 1 /\ y \in Nat /\ y >= 2
      BY <1>8, <2>3
    <3>3. m \in 0 .. x /\ m = IF x <= y THEN 0 ELSE x - y
      BY <3>1
    <3> HIDE DEF x, y
    <3>4. x - m \in 1 .. y /\ m + (x - m) = x /\ x - m \in 1 .. x - m
      BY <3>2, <3>3
    <3> QED
      BY <3>1, <3>4 DEF x, y
  <2> QED
    BY <2>1, <2>2, <2>3, <2>4, <2>5 DEF Ends
<1>10. OthersKept(s) \in Seq(Waiters)
  <2>1. MaxOpen * 2 - 1 \in Nat
    BY <1>8
  <2> QED
    BY <1>5, <2>1, LastOfIs DEF OthersKept
<1>11. PendingKey(s) \in Kind \X (Hosts \cup Contexts)
  BY DEF PendingKey, Signals
<1> QED
  BY <1>3, <1>5, <1>6, <1>9, <1>10, <1>11 DEF ps, n

\* The signals applied in turn to a new incident leave one of all of them.
Made(id, d, k) ==
    LET timeline == [j \in 1 .. k |-> Entry(d[j])]
    IN  [id |-> id, type |-> d[1].type, hosts |-> UNION {Named(d[j].host) : j \in 1 .. k},
         contexts |-> {d[j].context : j \in 1 .. k}, last |-> IF k = 0 THEN 0 ELSE d[k].time,
         count |-> k, timeline |-> timeline,
         severity |-> IF k = 0 THEN 1 ELSE Graded(k, timeline)]

\* What the first k signals of a deque make is an incident, and grows signal by signal.
LEMMA MadeShape ==
    ASSUME NEW id \in Nat, NEW d \in Seq(Signals), Len(d) >= 1, NEW k \in 0 .. Len(d)
    PROVE  Made(id, d, k) \in Incident
<1>1. Len(d) \in Nat /\ \A j \in 1 .. Len(d) : d[j] \in Signals
  BY ElementOfSeq, LenProperties
<1>2. \A j \in 1 .. k : j \in 1 .. Len(d)
  BY <1>1
<1>3. \A j \in 1 .. Len(d) : d[j].type \in Kind /\ d[j].host \in Hosts /\ d[j].context \in Contexts
                             /\ d[j].time \in Nat /\ Entry(d[j]) \in Entries
  BY <1>1 DEF Signals, Entry, Entries
<1> DEFINE t == [j \in 1 .. k |-> Entry(d[j])]
<1>4. t \in Seq(Entries)
  BY <1>1, <1>2, <1>3
<1>5. Graded(k, t) \in Severity /\ 1 \in Severity
  BY GradedShape DEF Severity
<1>6. UNION {Named(d[j].host) : j \in 1 .. k} \subseteq Hosts
      /\ {d[j].context : j \in 1 .. k} \subseteq Contexts
  BY <1>2, <1>3 DEF Named
<1>7. d[1].type \in Kind /\ (k # 0 => d[k].time \in Nat)
  BY <1>1, <1>3
<1> DEFINE severity == IF k = 0 THEN 1 ELSE Graded(k, t)
           last == IF k = 0 THEN 0 ELSE d[k].time
<1>8. severity \in Severity /\ last \in Nat
  BY <1>5, <1>7
<1>9. Made(id, d, k) =
        [id |-> id, type |-> d[1].type, hosts |-> UNION {Named(d[j].host) : j \in 1 .. k},
         contexts |-> {d[j].context : j \in 1 .. k}, last |-> last,
         count |-> k, timeline |-> t, severity |-> severity]
  BY DEF Made
<1> HIDE DEF t, severity, last
<1>10. k \in Nat
  BY <1>1
<1> QED
  BY <1>4, <1>6, <1>7, <1>8, <1>9, <1>10 DEF Incident

LEMMA MadeGrows ==
    ASSUME NEW id \in Nat, NEW d \in Seq(Signals), Len(d) \in 1 .. MaxSignals, NEW k \in 1 .. Len(d)
    PROVE  Made(id, d, k) = Apply(Made(id, d, k - 1), d[k])
<1>1. Len(d) \in Nat /\ d[k] \in Signals /\ k - 1 \in 0 .. Len(d) /\ k \in Nat /\ k <= MaxSignals
      /\ MaxSignals \in Nat /\ (k - 1) + 1 = k /\ k # 0
  BY ElementOfSeq, LenProperties, TunablesAssumption
<1> DEFINE i == Made(id, d, k - 1)
           s == d[k]
           t == [j \in 1 .. k |-> Entry(d[j])]
           u == [j \in 1 .. k - 1 |-> Entry(d[j])]
<1>2. i \in Incident
  BY <1>1, MadeShape
<1>3. i.id = id /\ i.type = d[1].type /\ i.count = k - 1 /\ i.timeline = u
      /\ i.hosts = UNION {Named(d[j].host) : j \in 1 .. k - 1}
      /\ i.contexts = {d[j].context : j \in 1 .. k - 1}
  BY DEF Made
<1>4. Append(u, Entry(s)) = t
  <2> DEFINE a == Append(u, Entry(s))
  <2>1. u \in Seq(Entries) /\ Entry(s) \in Entries /\ Len(u) = k - 1
    <3>1. u \in Seq(Entries)
      BY <1>2, <1>3 DEF Incident
    <3> QED
      BY <1>1, <3>1 DEF Entry, Entries, Signals
  <2>2. /\ a \in Seq(Entries) /\ Len(a) = k /\ \A j \in 1 .. k - 1 : a[j] = u[j]
        /\ a[k] = Entry(s)
    <3> HIDE DEF u, s
    <3>1. /\ a \in Seq(Entries) /\ Len(a) = Len(u) + 1 /\ \A j \in 1 .. Len(u) : a[j] = u[j]
          /\ a[Len(u) + 1] = Entry(s)
      BY <2>1, AppendProperties
    <3> HIDE DEF a
    <3> QED
      BY <1>1, <2>1, <3>1
  <2> HIDE DEF a
  <2>3. ASSUME NEW j \in 1 .. k PROVE a[j] = Entry(d[j])
    <3>1. CASE j = k
      BY <2>2, <3>1
    <3>2. CASE j # k
      <4>1. j \in 1 .. k - 1
        BY <1>1, <3>2
      <4> QED
        BY <2>2, <4>1
    <3> QED
      BY <3>1, <3>2
  <2>4. DOMAIN a = 1 .. k /\ a = [j \in DOMAIN a |-> a[j]]
    BY <2>2, LenProperties
  <2>5. a = t
    BY <2>3, <2>4
  <2> QED
    BY <2>5 DEF a
<1>5. KeepNewest(t) = t
  <2>1. Len(t) = k
    BY <1>1
  <2> HIDE DEF t
  <2> QED
    BY <1>1, <2>1 DEF KeepNewest, LastOf
<1>6. 1 .. k = (1 .. k - 1) \cup {k}
  BY <1>1
<1>7. i.hosts \cup Named(s.host) = UNION {Named(d[j].host) : j \in 1 .. k}
      /\ i.contexts \cup {s.context} = {d[j].context : j \in 1 .. k}
  <2>1. i.hosts \cup Named(s.host) = UNION {Named(d[j].host) : j \in 1 .. k}
    BY <1>3, <1>6
  <2>2. i.contexts \cup {s.context} = {d[j].context : j \in 1 .. k}
    BY <1>3, <1>6
  <2> QED
    BY <2>1, <2>2
<1>8. Made(id, d, k) =
        [id |-> id, type |-> d[1].type, hosts |-> UNION {Named(d[j].host) : j \in 1 .. k},
         contexts |-> {d[j].context : j \in 1 .. k}, last |-> s.time,
         count |-> k, timeline |-> t, severity |-> Graded(k, t)]
  BY <1>1 DEF Made
<1> HIDE DEF t, i, s, u
<1>9. s \in Signals
  BY <1>1 DEF s
<1>10. Apply(i, s) =
         [id |-> i.id, type |-> i.type, hosts |-> i.hosts \cup Named(s.host),
          contexts |-> i.contexts \cup {s.context}, last |-> s.time,
          count |-> i.count + 1, timeline |-> KeepNewest(Append(i.timeline, Entry(s))),
          severity |-> Graded(i.count + 1, KeepNewest(Append(i.timeline, Entry(s))))]
  BY <1>2, <1>9, ApplyIs
<1>11. KeepNewest(Append(i.timeline, Entry(s))) = t /\ i.count + 1 = k
  BY <1>1, <1>3, <1>4, <1>5
<1>12. Made(id, d, k) = Apply(i, s)
  BY <1>3, <1>7, <1>8, <1>10, <1>11
<1> QED
  BY <1>12 DEF i, s

\* A new incident is what its deque makes.
LEMMA OpenedIs ==
    ASSUME NEW d \in Seq(Signals), Len(d) \in 1 .. MaxSignals, created \in Nat
    PROVE  Opened(d) = Made(created + 1, d, Len(d)) /\ Opened(d) \in Incident
<1>1. Len(d) \in Nat /\ Len(d) >= 1 /\ created + 1 \in Nat
  BY LenProperties
<1> DEFINE made == [k \in 0 .. Len(d) |-> Made(created + 1, d, k)]
           applied == CHOOSE g : g = [k \in 0 .. Len(d) |-> IF k = 0 THEN Blank(d[1].type)
                                                             ELSE Apply(g[k - 1], d[k])]
<1>2. made[0] = Blank(d[1].type)
  <2>1. 0 \in 0 .. Len(d) /\ 1 .. 0 = {}
    BY <1>1
  <2>2. [j \in 1 .. 0 |-> Entry(d[j])] = << >>
    BY <2>1
  <2>3. {Named(d[j].host) : j \in 1 .. 0} = {} /\ {d[j].context : j \in 1 .. 0} = {}
    BY <2>1
  <2>4. UNION {Named(d[j].host) : j \in 1 .. 0} = {}
    BY <2>3
  <2> QED
    BY <2>1, <2>2, <2>3, <2>4 DEF Made, Blank
<1>3. ASSUME NEW k \in 1 .. Len(d) PROVE made[k] = Apply(made[k - 1], d[k])
  <2>1. k \in 0 .. Len(d) /\ k - 1 \in 0 .. Len(d)
    BY <1>1
  <2>2. Made(created + 1, d, k) = Apply(Made(created + 1, d, k - 1), d[k])
    BY <1>1, MadeGrows
  <2> QED
    BY <2>1, <2>2
<1>4. made = [k \in 0 .. Len(d) |-> IF k = 0 THEN Blank(d[1].type) ELSE Apply(made[k - 1], d[k])]
  <2>1. DOMAIN made = 0 .. Len(d) /\ made = [k \in DOMAIN made |-> made[k]]
    OBVIOUS
  <2>2. ASSUME NEW k \in 0 .. Len(d)
        PROVE  made[k] = IF k = 0 THEN Blank(d[1].type) ELSE Apply(made[k - 1], d[k])
    <3> HIDE DEF made
    <3>1. CASE k = 0
      BY <1>2, <3>1
    <3>2. CASE k # 0
      <4>1. k \in 1 .. Len(d)
        BY <1>1, <3>2
      <4> QED
        BY <1>3, <3>2, <4>1
    <3> QED
      BY <3>1, <3>2
  <2> HIDE DEF made
  <2> QED
    BY <2>1, <2>2
<1> HIDE DEF made
<1>5. applied = [k \in 0 .. Len(d) |-> IF k = 0 THEN Blank(d[1].type)
                                      ELSE Apply(applied[k - 1], d[k])]
  BY <1>4
<1>6. Opened(d) = applied[Len(d)]
  BY DEF Opened
<1>7. Agree(Len(d), applied, made)
  <2> HIDE DEF applied
  <2>1. \A k \in 0 .. Len(d) : applied[k] = IF k = 0 THEN Blank(d[1].type)
                                             ELSE Apply(applied[k - 1], d[k])
    BY <1>5
  <2>2. applied[0] = made[0]
    BY <1>1, <1>2, <2>1
  <2>3. \A k \in 1 .. Len(d) : applied[k - 1] = made[k - 1] => applied[k] = made[k]
    <3>1. \A k \in 1 .. Len(d) : k \in 0 .. Len(d) /\ k # 0
      BY <1>1
    <3> QED
      BY <1>3, <2>1, <3>1
  <2>4. Alike(Len(d), applied, made)
    BY <2>2, <2>3 DEF Alike
  <2> QED
    BY <1>1, <2>4, SameRecursion
<1>8. Opened(d) = made[Len(d)]
  <2>1. Len(d) \in 0 .. Len(d)
    BY <1>1
  <2> HIDE DEF applied
  <2> QED
    BY <1>6, <1>7, <2>1 DEF Agree
<1>9. made[Len(d)] = Made(created + 1, d, Len(d)) /\ Made(created + 1, d, Len(d)) \in Incident
  <2>1. Len(d) \in 0 .. Len(d)
    BY <1>1
  <2> QED
    BY <1>1, <2>1, MadeShape DEF made
<1> QED
  BY <1>8, <1>9

-----------------------------------------------------------------------------
(* Counting signals *)

\* The signals of incidents, and those that wait, when there is one more or one less.
LEMMA CountsChange ==
    ASSUME NEW is \in Seq(Incident)
    PROVE  /\ Total(SignalCounts(is)) \in Int /\ SignalCounts(is) \in Seq(Nat)
           /\ \A i \in Incident : Total(SignalCounts(Append(is, i)))
                                    = Total(SignalCounts(is)) + i.count
           /\ \A n \in 1 .. Len(is) : Total(SignalCounts(is))
                                        = Total(SignalCounts(RemoveAt(is, n))) + is[n].count
           /\ \A s, t \in Seq(Incident) : is = s \o t =>
                Total(SignalCounts(is)) = Total(SignalCounts(s)) + Total(SignalCounts(t))
<1>1. SignalCounts(is) = Each(is, CountOf) /\ Weighs(CountOf, Incident)
  BY CountsAreEach, Weights
<1>2. Total(SignalCounts(is)) \in Int
  BY <1>1, EachInt
<1>3. ASSUME NEW i \in Incident
      PROVE  Total(SignalCounts(Append(is, i))) = Total(SignalCounts(is)) + i.count
  <2>1. Append(is, i) \in Seq(Incident) /\ CountOf[i] = i.count
    BY AppendProperties DEF CountOf
  <2>2. Total(Each(Append(is, i), CountOf)) = Total(Each(is, CountOf)) + CountOf[i]
    BY <1>1, EachAppend
  <2> QED
    BY <1>1, <2>1, <2>2, CountsAreEach
<1>4. ASSUME NEW n \in 1 .. Len(is)
      PROVE  Total(SignalCounts(is)) = Total(SignalCounts(RemoveAt(is, n))) + is[n].count
  <2>1. is[n] \in Incident /\ n \in DOMAIN is
    BY LenProperties, ElementOfSeq
  <2>2. RemoveAt(is, n) \in Seq(Incident) /\ CountOf[is[n]] = is[n].count
    BY <2>1, Removed DEF CountOf
  <2>3. Total(Each(is, CountOf)) = Total(Each(RemoveAt(is, n), CountOf)) + CountOf[is[n]]
    BY <1>1, EachWithout
  <2> QED
    BY <1>1, <2>2, <2>3, CountsAreEach
<1>5. ASSUME NEW s \in Seq(Incident), NEW t \in Seq(Incident), is = s \o t
      PROVE  Total(SignalCounts(is)) = Total(SignalCounts(s)) + Total(SignalCounts(t))
  <2>1. Total(Each(s \o t, CountOf)) = Total(Each(s, CountOf)) + Total(Each(t, CountOf))
    BY <1>1, EachConcat
  <2> QED
    BY <1>1, <1>5, <2>1, CountsAreEach
<1>6. SignalCounts(is) \in Seq(Nat)
  <2>1. DOMAIN is = 1 .. Len(is) /\ Len(is) \in Nat /\ \A k \in 1 .. Len(is) : is[k] \in Incident
    BY LenProperties, ElementOfSeq
  <2>2. \A k \in 1 .. Len(is) : is[k].count \in Nat
    BY <2>1 DEF Incident
  <2>3. SignalCounts(is) = [k \in 1 .. Len(is) |-> is[k].count]
    BY <2>1 DEF SignalCounts
  <2> QED
    BY <2>1, <2>2, <2>3
<1> QED
  BY <1>2, <1>3, <1>4, <1>5, <1>6

LEMMA WaitsChange ==
    ASSUME NEW ps \in Seq(Waiters)
    PROVE  /\ Total(Waiting(ps)) \in Int
           /\ \A p \in Waiters : Total(Waiting(Append(ps, p)))
                                    = Total(Waiting(ps)) + Len(p.signals)
           /\ \A n \in 1 .. Len(ps) : Total(Waiting(ps))
                                        = Total(Waiting(RemoveAt(ps, n))) + Len(ps[n].signals)
<1>1. Waiting(ps) = Each(ps, LengthOf) /\ Weighs(LengthOf, Waiters)
  BY WaitingIsEach, Weights
<1>2. Total(Waiting(ps)) \in Int
  BY <1>1, EachInt
<1>3. ASSUME NEW p \in Waiters
      PROVE  Total(Waiting(Append(ps, p))) = Total(Waiting(ps)) + Len(p.signals)
  <2>1. Append(ps, p) \in Seq(Waiters) /\ LengthOf[p] = Len(p.signals)
    BY AppendProperties DEF LengthOf
  <2>2. Total(Each(Append(ps, p), LengthOf)) = Total(Each(ps, LengthOf)) + LengthOf[p]
    BY <1>1, EachAppend
  <2> QED
    BY <1>1, <2>1, <2>2, WaitingIsEach
<1>4. ASSUME NEW n \in 1 .. Len(ps)
      PROVE  Total(Waiting(ps)) = Total(Waiting(RemoveAt(ps, n))) + Len(ps[n].signals)
  <2>1. ps[n] \in Waiters /\ n \in DOMAIN ps
    BY LenProperties, ElementOfSeq
  <2>2. RemoveAt(ps, n) \in Seq(Waiters) /\ LengthOf[ps[n]] = Len(ps[n].signals)
    BY <2>1, Removed DEF LengthOf
  <2>3. Total(Each(ps, LengthOf)) = Total(Each(RemoveAt(ps, n), LengthOf)) + LengthOf[ps[n]]
    BY <1>1, EachWithout
  <2> QED
    BY <1>1, <2>2, <2>3, WaitingIsEach
<1> QED
  BY <1>2, <1>3, <1>4

\* What waits is what waits under the other keys and what the deque of the key holds.
LEMMA WaitsSplit ==
    ASSUME IncidentShape, NEW s \in Signals
    PROVE  /\ Total(Waiting(KeptPending)) = Total(Waiting(Others(s))) + Len(Earlier(s))
           /\ Total(Waiting(Others(s))) \in Int /\ Len(Earlier(s)) \in Nat
<1>1. KeptPending \in Seq(Waiters)
  BY KeptShape
<1>2. /\ PlaceOf(s) \in 0 .. Len(KeptPending) /\ Others(s) \in Seq(Waiters)
      /\ Earlier(s) \in Seq(Signals)
  BY DequeShape
<1>3. Total(Waiting(Others(s))) \in Int /\ Len(Earlier(s)) \in Nat
  BY <1>2, WaitsChange, LenProperties
<1>4. CASE PlaceOf(s) = 0
  <2>1. Others(s) = KeptPending /\ Earlier(s) = << >> /\ Len(<< >>) = 0
    BY <1>4 DEF Others, Earlier
  <2> QED
    BY <1>3, <2>1
<1>5. CASE PlaceOf(s) # 0
  <2> DEFINE n == PlaceOf(s)
             ps == KeptPending
  <2>1. Others(s) = RemoveAt(ps, n) /\ Earlier(s) = ps[n].signals
    BY <1>5 DEF Others, Earlier
  <2>2. n \in 1 .. Len(ps)
    BY <1>2, <1>5
  <2> HIDE DEF n, ps
  <2>3. Total(Waiting(ps)) = Total(Waiting(RemoveAt(ps, n))) + Len(ps[n].signals)
    BY <1>1, <2>2, WaitsChange DEF ps
  <2> QED
    BY <1>3, <2>1, <2>3 DEF ps
<1> QED
  BY <1>3, <1>4, <1>5

\* The counts of the evicted incidents, with more of them.
LEMMA EvictedGrows ==
    ASSUME NEW s \in Seq(Nat), NEW t \in Seq(Nat)
    PROVE  /\ s \o t \in Seq(Nat) /\ Len(s \o t) = Len(s) + Len(t)
           /\ Len(s) \in Nat /\ Len(t) \in Nat
           /\ Total(s \o t) = Total(s) + Total(t) /\ Total(s) \in Int /\ Total(t) \in Int
<1>1. s \in Seq(Int) /\ t \in Seq(Int)
  OBVIOUS
<1>2. s \o t \in Seq(Nat) /\ Len(s \o t) = Len(s) + Len(t) /\ Len(s) \in Nat /\ Len(t) \in Nat
  OBVIOUS
<1> QED
  BY <1>1, <1>2, TotalConcat

\* The first signal of a worker, when it is ingested.
LEMMA ArrivesShape ==
    ASSUME IncidentShape, NEW w \in Correlators, todo[w] # << >>
    PROVE  /\ Arrives(todo[w][1]) \in Signals /\ Arrives(todo[w][1]).time = instant
           /\ [todo EXCEPT ![w] = Tail(@)] \in [Correlators -> Seq(Signals)]
<1>1. todo[w] \in Seq(Signals) /\ instant \in Nat
  BY DEF IncidentShape
<1>2. todo[w][1] \in Signals /\ Tail(todo[w]) \in Seq(Signals)
  BY <1>1, HeadTailProperties, LenProperties, EmptySeq, ElementOfSeq
<1>3. Arrives(todo[w][1]) \in Signals /\ Arrives(todo[w][1]).time = instant
  BY <1>1, <1>2 DEF Arrives, Signals
<1>4. [todo EXCEPT ![w] = Tail(@)] \in [Correlators -> Seq(Signals)]
  BY <1>2 DEF IncidentShape
<1> QED
  BY <1>3, <1>4

\* All the totals are numbers.
LEMMA TotalsShape ==
    ASSUME IncidentShape
    PROVE  /\ Total(SignalCounts(incidents)) \in Int /\ Total(Waiting(pending)) \in Int
           /\ Total(SignalCounts(KeptIncidents)) \in Int /\ Total(Waiting(KeptPending)) \in Int
           /\ Total(evicted) \in Int /\ Len(evicted) \in Nat
<1>1. incidents \in Seq(Incident) /\ pending \in Seq(Waiters) /\ evicted \in Seq(Nat)
  BY DEF IncidentShape
<1>2. KeptIncidents \in Seq(Incident) /\ KeptPending \in Seq(Waiters)
  BY KeptShape
<1> QED
  BY <1>1, <1>2, CountsChange, WaitsChange, EvictedGrows

\* The incident that a signal joins is among those it may join.
JoinedAt(s) == CHOOSE k \in Joinable(s) : \A j \in Joinable(s) : j <= k

LEMMA JoinsOne ==
    ASSUME IncidentShape, NEW s, Joinable(s) # {}
    PROVE  /\ JoinedAt(s) \in Joinable(s) /\ JoinedAt(s) \in 1 .. Len(KeptIncidents)
           /\ \A j \in Joinable(s) : j <= JoinedAt(s)
<1>1. KeptIncidents \in Seq(Incident)
  BY KeptShape
<1>2. Joinable(s) \subseteq 1 .. Len(KeptIncidents) /\ Len(KeptIncidents) \in Nat
  BY <1>1, LenProperties DEF Joinable
<1>3. \E k \in Joinable(s) : \A j \in Joinable(s) : j <= k
  <2> DEFINE n == Len(KeptIncidents)
             J == Joinable(s)
  <2>1. n \in Nat /\ J \subseteq 0 .. n /\ J # {}
    BY <1>2
  <2> HIDE DEF n, J
  <2>2. \E k \in J : \A j \in J : j <= k
    BY <2>1, Greatest
  <2> QED
    BY <2>2 DEF J
<1> QED
  BY <1>2, <1>3 DEF JoinedAt

-----------------------------------------------------------------------------
(* Every signal is accounted for *)

\* The types, and the counters.
Counted == IncidentShape /\ SignalsAccounted

\* What a step has to keep: n signals arrive, a stays in incidents and b waits of what there was.
Balance(n, a, b) ==
    /\ todo' \in [Correlators -> Seq(Signals)]
    /\ incidents' \in Seq(Incident) /\ pending' \in Seq(Waiters)
    /\ instant' \in Nat /\ created' \in Nat /\ dropped' \in Int /\ evicted' \in Seq(Nat)
    /\ correlated' \in Nat /\ ignored' \in Nat
    /\ received' = received + n /\ correlated' + ignored' = correlated + ignored + n
    /\ expired' = expired + (Total(SignalCounts(incidents)) - a) + (Total(Waiting(pending)) - b)
    /\ Total(SignalCounts(incidents')) + Total(Waiting(pending'))
         + Total(evicted') + (dropped' - Len(evicted'))
       = a + b + n + Total(evicted) + (dropped - Len(evicted))

\* A step that keeps the balance accounts for every signal.
LEMMA Balanced ==
    ASSUME Counted, NEW n \in Nat, NEW a \in Int, NEW b \in Int, Balance(n, a, b)
    PROVE  Counted'
<1> DEFINE i == Total(SignalCounts(incidents))
           p == Total(Waiting(pending))
           v == Total(evicted)
           l == Len(evicted)
           j == Total(SignalCounts(incidents'))
           q == Total(Waiting(pending'))
           y == Total(evicted')
           m == Len(evicted')
<1>1. i \in Int /\ p \in Int /\ v \in Int /\ l \in Nat
  BY TotalsShape DEF Counted
<1>2. j \in Int /\ q \in Int /\ y \in Int /\ m \in Nat
  <2>1. incidents' \in Seq(Incident) /\ pending' \in Seq(Waiters) /\ evicted' \in Seq(Nat)
    BY DEF Balance
  <2> QED
    BY <2>1, CountsChange, WaitsChange, EvictedGrows
<1>3. /\ received \in Nat /\ correlated \in Nat /\ ignored \in Nat /\ dropped \in Int
      /\ expired \in Int /\ received = correlated + ignored
      /\ received = i + p + expired + v + (dropped - l)
  BY DEF Counted, IncidentShape, SignalsAccounted
<1>4. /\ received' = received + n /\ correlated' + ignored' = correlated + ignored + n
      /\ expired' = expired + (i - a) + (p - b) /\ dropped' \in Int
      /\ j + q + y + (dropped' - m) = a + b + n + v + (dropped - l)
      /\ correlated' \in Nat /\ ignored' \in Nat
  BY DEF Balance
<1> HIDE DEF i, p, v, l, j, q, y, m
<1>5. received' \in Nat /\ expired' \in Int /\ received' = correlated' + ignored'
  <2>1. received + n \in Nat
    BY <1>3
  <2>2. (i - a) + (p - b) \in Int /\ i - a \in Int /\ p - b \in Int
    BY <1>1
  <2>3. expired + (i - a) + (p - b) \in Int
    BY <1>3, <2>2
  <2>4. received + n = correlated + ignored + n
    BY <1>3
  <2> QED
    BY <1>4, <2>1, <2>3, <2>4
<1>6. received' = j + q + expired' + y + (dropped' - m)
  <2> DEFINE e == expired'
             d == dropped'
  <2>1. e \in Int /\ d \in Int /\ e = expired + (i - a) + (p - b)
        /\ j + q + y + (d - m) = a + b + n + v + (dropped - l)
    BY <1>4, <1>5
  <2> HIDE DEF e, d
  <2>2. j + q + e + y + (d - m) = e + (a + b + n + v + (dropped - l))
    BY <1>2, <2>1
  <2>3. e + a + b = expired + i + p
    BY <1>1, <1>3, <2>1
  <2>4. e + (a + b + n + v + (dropped - l)) = received + n
    BY <1>1, <1>3, <2>1, <2>3
  <2> QED
    BY <1>4, <2>2, <2>4 DEF e, d
<1>7. IncidentShape'
  BY <1>4, <1>5 DEF IncidentShape, Balance
<1>8. SignalsAccounted'
  BY <1>5, <1>6 DEF SignalsAccounted, j, q, y, m
<1> QED
  BY <1>7, <1>8 DEF Counted

\* A signal that joins an incident is counted in it.
LEMMA JoinCounts ==
    ASSUME Counted, NEW w \in Correlators, todo[w] # << >>, NEW s \in Signals, Join(w, s)
    PROVE  Counted'
<1> DEFINE K == KeptIncidents
           k == JoinedAt(s)
           r == RemoveAt(K, k)
           i == Apply(K[k], s)
<1>1. /\ K \in Seq(Incident) /\ KeptPending \in Seq(Waiters) /\ k \in 1 .. Len(K)
  BY JoinsOne, KeptShape DEF Join, Counted
<1>2. K[k] \in Incident /\ k \in DOMAIN K
  BY <1>1, ElementOfSeq, LenProperties
<1>3. /\ incidents' = Append(r, i) /\ pending' = KeptPending
      /\ todo' = [todo EXCEPT ![w] = Tail(@)] /\ received' = received + 1
      /\ correlated' = correlated + 1 /\ instant' = instant /\ created' = created
      /\ ignored' = ignored /\ dropped' = dropped /\ evicted' = evicted /\ Expire
  BY DEF Join, Receive, JoinedAt
<1>4. i \in Incident /\ i.count = K[k].count + 1 /\ K[k].count \in Nat
  <2> HIDE DEF K, k
  <2> QED
    BY <1>2, ApplyIs DEF Incident
<1>5. r \in Seq(Incident)
  <2> HIDE DEF K, k
  <2> QED
    BY <1>1, <1>2, Removed
<1> HIDE DEF i, r, k
<1>6. incidents' \in Seq(Incident)
  BY <1>3, <1>4, <1>5, AppendProperties
<1>7. Total(SignalCounts(incidents')) = Total(SignalCounts(K)) + 1 /\ Total(SignalCounts(K)) \in Int
  <2> HIDE DEF K
  <2>1. Total(SignalCounts(Append(r, i))) = Total(SignalCounts(r)) + i.count
        /\ Total(SignalCounts(r)) \in Int
    BY <1>4, <1>5, CountsChange
  <2>2. Total(SignalCounts(K)) = Total(SignalCounts(r)) + K[k].count
    BY <1>1, CountsChange DEF r
  <2> QED
    BY <1>3, <1>4, <2>1, <2>2
<1>8. /\ Total(SignalCounts(incidents)) \in Int /\ Total(Waiting(pending)) \in Int
      /\ Total(Waiting(KeptPending)) \in Int /\ Total(evicted) \in Int /\ Len(evicted) \in Nat
  BY TotalsShape DEF Counted
<1>9. expired' = expired + (Total(SignalCounts(incidents)) - Total(SignalCounts(K)))
                 + (Total(Waiting(pending)) - Total(Waiting(KeptPending)))
  BY <1>3 DEF Expire
<1> DEFINE a == Total(SignalCounts(K))
           b == Total(Waiting(KeptPending))
<1>10. /\ [todo EXCEPT ![w] = Tail(@)] \in [Correlators -> Seq(Signals)]
       /\ created \in Nat /\ correlated \in Nat /\ ignored \in Nat /\ dropped \in Int
       /\ evicted \in Seq(Nat) /\ instant \in Nat
  BY ArrivesShape DEF IncidentShape, Counted
<1>11. correlated' \in Nat /\ correlated' + ignored' = correlated + ignored + 1
  BY <1>3, <1>10
<1>12. Total(SignalCounts(incidents')) = a + 1 /\ Total(Waiting(pending')) = b
  BY <1>3, <1>7
<1>13. a \in Int /\ b \in Int
  BY <1>7, <1>8
<1>14. Total(SignalCounts(incidents')) + Total(Waiting(pending'))
         + Total(evicted') + (dropped' - Len(evicted'))
       = a + b + 1 + Total(evicted) + (dropped - Len(evicted))
  <2> HIDE DEF a, b
  <2>1. Total(evicted') = Total(evicted) /\ Len(evicted') = Len(evicted) /\ dropped' = dropped
    BY <1>3
  <2> QED
    BY <1>8, <1>10, <1>12, <1>13, <2>1
<1>15. Balance(1, a, b)
  <2>1. expired' = expired + (Total(SignalCounts(incidents)) - a) + (Total(Waiting(pending)) - b)
    BY <1>9
  <2> HIDE DEF a, b, K
  <2> QED
    BY <1>1, <1>3, <1>6, <1>10, <1>11, <1>14, <2>1 DEF Balance
<1> HIDE DEF a, b
<1> QED
  BY <1>13, <1>15, Balanced

\* What waits after a signal has been put in its deque: q is what of the deque stays.
LEMMA WaitsAfter ==
    ASSUME IncidentShape, NEW s \in Signals, NEW q \in Seq(Signals)
    PROVE  LET ps == Append(OthersKept(s), [key |-> PendingKey(s), signals |-> q])
           IN  /\ ps \in Seq(Waiters)
               /\ Total(Waiting(ps)) \in Int
               /\ Total(Waiting(ps)) + DroppedWithKey(s) + DroppedFromDeque(s)
                    = Total(Waiting(KeptPending)) + 1 + (Len(q) - Len(Deque(s)))
               /\ DroppedWithKey(s) \in Int /\ DroppedFromDeque(s) \in Int
               /\ Len(Deque(s)) \in Nat /\ Len(q) \in Nat
<1> DEFINE p == [key |-> PendingKey(s), signals |-> q]
           ps == Append(OthersKept(s), p)
<1>1. /\ OthersKept(s) \in Seq(Waiters) /\ PendingKey(s) \in Kind \X (Hosts \cup Contexts)
      /\ Len(Deque(s)) \in Nat
  <2>1. Len(Deque(s)) \in 1 .. MaxSignals /\ MaxSignals \in Nat
    BY DequeShape, TunablesAssumption
  <2> QED
    BY <2>1, DequeShape
<1>2. p \in Waiters /\ p.signals = q /\ Len(q) \in Nat
  <2>1. Len(q) \in Nat
    BY LenProperties
  <2> QED
    BY <1>1, <2>1 DEF Waiters
<1> HIDE DEF p
<1>3. ps \in Seq(Waiters)
  BY <1>1, <1>2, AppendProperties
<1>4. /\ Total(Waiting(ps)) = Total(Waiting(OthersKept(s))) + Len(q)
      /\ Total(Waiting(OthersKept(s))) \in Int
  BY <1>1, <1>2, WaitsChange
<1>5. /\ Total(Waiting(KeptPending)) = Total(Waiting(Others(s))) + Len(Earlier(s))
      /\ Total(Waiting(Others(s))) \in Int /\ Len(Earlier(s)) \in Nat
  BY WaitsSplit
<1>6. /\ DroppedWithKey(s) = Total(Waiting(Others(s))) - Total(Waiting(OthersKept(s)))
      /\ DroppedFromDeque(s) = Len(Earlier(s)) + 1 - Len(Deque(s))
  BY DEF DroppedWithKey, DroppedFromDeque
<1> DEFINE x == Total(Waiting(ps))
           k == Total(Waiting(KeptPending))
           o == Total(Waiting(Others(s)))
           t == Total(Waiting(OthersKept(s)))
           e == Len(Earlier(s))
           d == Len(Deque(s))
           u == Len(q)
<1> HIDE DEF ps, x, k, o, t, e, d, u
<1>8. /\ x = t + u /\ t \in Int /\ k = o + e /\ o \in Int /\ e \in Nat /\ d \in Nat /\ u \in Nat
      /\ DroppedWithKey(s) = o - t /\ DroppedFromDeque(s) = e + 1 - d
  BY <1>1, <1>2, <1>4, <1>5, <1>6 DEF x, k, o, t, e, d, u
<1>9. /\ x + DroppedWithKey(s) + DroppedFromDeque(s) = k + 1 + (u - d)
      /\ DroppedWithKey(s) \in Int /\ DroppedFromDeque(s) \in Int /\ x \in Int
  BY <1>8
<1>7. /\ Total(Waiting(ps)) + DroppedWithKey(s) + DroppedFromDeque(s)
            = Total(Waiting(KeptPending)) + 1 + (Len(q) - Len(Deque(s)))
      /\ DroppedWithKey(s) \in Int /\ DroppedFromDeque(s) \in Int /\ Total(Waiting(ps)) \in Int
  BY <1>9 DEF x, k, d, u
<1> QED
  BY <1>1, <1>2, <1>3, <1>7 DEF ps, p

\* A signal that waits is counted in its deque, or with what was dropped for it.
LEMMA WaitCounts ==
    ASSUME Counted, NEW w \in Correlators, todo[w] # << >>, NEW s \in Signals, Wait(w, s)
    PROVE  Counted'
<1> DEFINE ps == Append(OthersKept(s), [key |-> PendingKey(s), signals |-> Deque(s)])
<1>1. /\ incidents' = KeptIncidents /\ pending' = ps
      /\ todo' = [todo EXCEPT ![w] = Tail(@)] /\ received' = received + 1
      /\ correlated' = correlated /\ instant' = instant /\ created' = created
      /\ ignored' = ignored + 1 /\ evicted' = evicted
      /\ dropped' = dropped + DroppedWithKey(s) + DroppedFromDeque(s)
      /\ expired' = expired + (Total(SignalCounts(incidents)) - Total(SignalCounts(KeptIncidents)))
                    + (Total(Waiting(pending)) - Total(Waiting(KeptPending)))
  BY DEF Wait, Receive, Expire
<1>2. /\ ps \in Seq(Waiters) /\ Total(Waiting(ps)) \in Int
      /\ Total(Waiting(ps)) + DroppedWithKey(s) + DroppedFromDeque(s)
            = Total(Waiting(KeptPending)) + 1 + (Len(Deque(s)) - Len(Deque(s)))
      /\ DroppedWithKey(s) \in Int /\ DroppedFromDeque(s) \in Int /\ Len(Deque(s)) \in Nat
  BY DequeShape, WaitsAfter DEF Counted
<1>3. /\ Total(SignalCounts(incidents)) \in Int /\ Total(Waiting(pending)) \in Int
      /\ Total(SignalCounts(KeptIncidents)) \in Int
      /\ Total(Waiting(KeptPending)) \in Int /\ Total(evicted) \in Int /\ Len(evicted) \in Nat
  BY TotalsShape DEF Counted
<1> HIDE DEF ps
<1> DEFINE a == Total(SignalCounts(KeptIncidents))
           b == Total(Waiting(KeptPending))
           x == Total(Waiting(ps))
           y == DroppedWithKey(s)
           z == DroppedFromDeque(s)
           v == Total(evicted)
           l == Len(evicted)
<1>4. /\ [todo EXCEPT ![w] = Tail(@)] \in [Correlators -> Seq(Signals)]
      /\ created \in Nat /\ correlated \in Nat /\ ignored \in Nat /\ dropped \in Int
      /\ evicted \in Seq(Nat) /\ instant \in Nat /\ KeptIncidents \in Seq(Incident)
  BY ArrivesShape, KeptShape DEF IncidentShape, Counted
<1>5. /\ a \in Int /\ b \in Int /\ x \in Int /\ y \in Int /\ z \in Int /\ v \in Int /\ l \in Nat
      /\ dropped' = dropped + y + z /\ x + y + z = b + 1
      /\ Total(SignalCounts(incidents')) = a /\ Total(Waiting(pending')) = x
      /\ Total(evicted') = v /\ Len(evicted') = l
  BY <1>1, <1>2, <1>3
<1>6. expired' = expired + (Total(SignalCounts(incidents)) - a) + (Total(Waiting(pending)) - b)
  BY <1>1
<1> HIDE DEF a, b, x, y, z, v, l
<1>7. /\ a + x + v + (dropped' - l) = a + b + 1 + v + (dropped - l) /\ dropped' \in Int
      /\ ignored' \in Nat /\ correlated' + ignored' = correlated + ignored + 1
  BY <1>1, <1>4, <1>5, SMTT(40)
<1>8. Balance(1, a, b)
  <2>1. Total(SignalCounts(incidents')) + Total(Waiting(pending'))
          + Total(evicted') + (dropped' - Len(evicted'))
        = a + b + 1 + Total(evicted) + (dropped - Len(evicted))
    BY <1>5, <1>7 DEF v, l
  <2> QED
    BY <1>1, <1>2, <1>4, <1>6, <1>7, <2>1 DEF Balance
<1> QED
  BY <1>5, <1>8, Balanced

\* The incidents that stay when one is opened, and those evicted.
Room == LastOf(MaxOpen - 1, KeptIncidents)
Gone == SubSeq(KeptIncidents, 1, Len(KeptIncidents) - Len(Room))

LEMMA RoomIs ==
    ASSUME IncidentShape
    PROVE  /\ Room \in Seq(Incident) /\ Gone \in Seq(Incident) /\ KeptIncidents = Gone \o Room
           /\ \E m : Ends(Room, MaxOpen - 1, KeptIncidents, m)
<1>1. KeptIncidents \in Seq(Incident) /\ MaxOpen - 1 \in Nat
  BY KeptShape, TunablesAssumption
<1>2. Room \in Seq(Incident) /\ \E m : Ends(Room, MaxOpen - 1, KeptIncidents, m)
  BY <1>1, LastOfIs DEF Room
<1>3. PICK m : Ends(Room, MaxOpen - 1, KeptIncidents, m)
  BY <1>2
<1> DEFINE K == KeptIncidents
<1>4. /\ Len(K) \in Nat /\ m \in 0 .. Len(K) /\ Len(Room) = Len(K) - m
      /\ K = SubSeq(K, 1, m) \o Room
  BY <1>1, <1>3, LenProperties DEF Ends
<1>5. Len(K) - Len(Room) = m
  BY <1>4
<1>6. Gone = SubSeq(K, 1, m)
  BY <1>5 DEF Gone
<1>7. SubSeq(K, 1, m) \in Seq(Incident)
  <2>1. \A j \in 1 .. m : K[j] \in Incident
    BY <1>1, <1>4, ElementOfSeq
  <2> QED
    BY <1>4, <2>1, SubSeqProperties
<1> QED
  BY <1>2, <1>4, <1>6, <1>7

\* The signals of the deque are counted in the new incident, those evicted for it apart.
LEMMA OpenCounts ==
    ASSUME Counted, NEW w \in Correlators, todo[w] # << >>, NEW s \in Signals, Open(w, s)
    PROVE  Counted'
<1> DEFINE ps == Append(OthersKept(s), [key |-> PendingKey(s), signals |-> << >>])
           i == Opened(Deque(s))
<1>1. /\ incidents' = Append(Room, i) /\ pending' = ps
      /\ todo' = [todo EXCEPT ![w] = Tail(@)] /\ received' = received + 1
      /\ correlated' = correlated + 1 /\ instant' = instant /\ created' = created + 1
      /\ ignored' = ignored /\ evicted' = evicted \o SignalCounts(Gone)
      /\ dropped' = dropped + DroppedWithKey(s) + DroppedFromDeque(s) + Len(Gone)
      /\ expired' = expired + (Total(SignalCounts(incidents)) - Total(SignalCounts(KeptIncidents)))
                    + (Total(Waiting(pending)) - Total(Waiting(KeptPending)))
  BY DEF Open, Receive, Expire, Emptied, Room, Gone
<1>2. /\ ps \in Seq(Waiters) /\ Total(Waiting(ps)) \in Int
      /\ Total(Waiting(ps)) + DroppedWithKey(s) + DroppedFromDeque(s)
            = Total(Waiting(KeptPending)) + 1 + (Len(<< >>) - Len(Deque(s)))
      /\ DroppedWithKey(s) \in Int /\ DroppedFromDeque(s) \in Int /\ Len(Deque(s)) \in Nat
  <2>1. << >> \in Seq(Signals)
    OBVIOUS
  <2> QED
    BY <2>1, WaitsAfter DEF Counted
<1>3. /\ Total(SignalCounts(incidents)) \in Int /\ Total(Waiting(pending)) \in Int
      /\ Total(Waiting(KeptPending)) \in Int /\ Total(evicted) \in Int /\ Len(evicted) \in Nat
  BY TotalsShape DEF Counted
<1>4. /\ i \in Incident /\ i.count = Len(Deque(s))
  <2>1. Deque(s) \in Seq(Signals) /\ Len(Deque(s)) \in 1 .. MaxSignals /\ created \in Nat
    BY DequeShape DEF Counted, IncidentShape
  <2>2. i = Made(created + 1, Deque(s), Len(Deque(s))) /\ i \in Incident
    BY <2>1, OpenedIs
  <2> HIDE DEF i
  <2> QED
    BY <2>2 DEF Made
<1> HIDE DEF i, ps
<1>5. /\ Room \in Seq(Incident) /\ Gone \in Seq(Incident) /\ KeptIncidents = Gone \o Room
      /\ KeptIncidents \in Seq(Incident)
  BY RoomIs, KeptShape DEF Counted
<1>6. /\ Total(SignalCounts(incidents')) = Total(SignalCounts(Room)) + Len(Deque(s))
      /\ Total(SignalCounts(KeptIncidents)) = Total(SignalCounts(Gone)) + Total(SignalCounts(Room))
      /\ Total(SignalCounts(Room)) \in Int /\ SignalCounts(Gone) \in Seq(Nat)
      /\ incidents' \in Seq(Incident)
  <2>1. Total(SignalCounts(Append(Room, i))) = Total(SignalCounts(Room)) + i.count
        /\ Total(SignalCounts(Room)) \in Int
    BY <1>4, <1>5, CountsChange
  <2>2. Total(SignalCounts(KeptIncidents)) = Total(SignalCounts(Gone)) + Total(SignalCounts(Room))
    <3> DEFINE K == KeptIncidents
               g == Gone
               h == Room
    <3>1. K \in Seq(Incident) /\ g \in Seq(Incident) /\ h \in Seq(Incident) /\ K = g \o h
      BY <1>5
    <3> HIDE DEF K, g, h
    <3>2. Total(SignalCounts(K)) = Total(SignalCounts(g)) + Total(SignalCounts(h))
      BY <3>1, CountsChange, ZenonT(60)
    <3> QED
      BY <3>2 DEF K, g, h
  <2>3. SignalCounts(Gone) \in Seq(Nat)
    BY <1>5, CountsChange
  <2>4. incidents' \in Seq(Incident)
    BY <1>1, <1>4, <1>5, AppendProperties
  <2> QED
    BY <1>1, <1>4, <2>1, <2>2, <2>3, <2>4
<1>7. Len(SignalCounts(Gone)) = Len(Gone)
  <2>1. IsEach(SignalCounts(Gone), Gone, CountOf)
    BY <1>5, CountsAreEach, Weights, EachSeq
  <2> QED
    BY <2>1 DEF IsEach
<1>8. /\ evicted' \in Seq(Nat) /\ Len(evicted') = Len(evicted) + Len(Gone) /\ Len(Gone) \in Nat
      /\ Total(evicted') = Total(evicted) + Total(SignalCounts(Gone))
      /\ Total(SignalCounts(Gone)) \in Int
  <2>1. evicted \in Seq(Nat)
    BY DEF Counted, IncidentShape
  <2> QED
    BY <1>1, <1>6, <1>7, <2>1, EvictedGrows
<1> DEFINE a == Total(SignalCounts(KeptIncidents))
           b == Total(Waiting(KeptPending))
           x == Total(Waiting(ps))
           y == DroppedWithKey(s)
           z == DroppedFromDeque(s)
           v == Total(evicted)
           l == Len(evicted)
           d == Len(Deque(s))
           r == Total(SignalCounts(Room))
           g == Total(SignalCounts(Gone))
           n == Len(Gone)
<1>9. /\ [todo EXCEPT ![w] = Tail(@)] \in [Correlators -> Seq(Signals)]
      /\ created \in Nat /\ correlated \in Nat /\ ignored \in Nat /\ dropped \in Int
      /\ instant \in Nat
  BY ArrivesShape DEF IncidentShape, Counted
<1>10. /\ b \in Int /\ x \in Int /\ y \in Int /\ z \in Int /\ v \in Int /\ l \in Nat
       /\ d \in Nat /\ r \in Int /\ g \in Int /\ n \in Nat
       /\ dropped' = dropped + y + z + n /\ x + y + z = b + 1 + (0 - d) /\ a = g + r
       /\ Total(SignalCounts(incidents')) = r + d /\ Total(Waiting(pending')) = x
       /\ Total(evicted') = v + g /\ Len(evicted') = l + n
  BY <1>1, <1>2, <1>3, <1>6, <1>8
<1>11. expired' = expired + (Total(SignalCounts(incidents)) - a) + (Total(Waiting(pending)) - b)
  BY <1>1
<1> HIDE DEF a, b, x, y, z, v, l, d, r, g, n
<1>12. /\ (r + d) + x + (v + g) + (dropped' - (l + n)) = a + b + 1 + v + (dropped - l)
       /\ dropped' \in Int /\ a \in Int
       /\ correlated' \in Nat /\ correlated' + ignored' = correlated + ignored + 1
       /\ created' \in Nat
  <2>1. dropped' \in Int /\ a \in Int
    BY <1>9, <1>10
  <2>2. correlated' \in Nat /\ correlated' + ignored' = correlated + ignored + 1 /\ created' \in Nat
    BY <1>1, <1>9
  <2> DEFINE t == dropped + y + z + n
  <2>3. t \in Int /\ x + t = dropped + n + b + 1 - d
    BY <1>9, <1>10
  <2>4. (r + d) + x + (v + g) + (t - (l + n)) = (x + t) + d + r + g + v - l - n
    <3> HIDE DEF t
    <3> QED
      BY <1>10, <2>3
  <2>5. (x + t) + d + r + g + v - l - n = a + b + 1 + v + (dropped - l)
    <3> HIDE DEF t
    <3> QED
      BY <1>9, <1>10, <2>3
  <2> QED
    BY <1>10, <2>1, <2>2, <2>4, <2>5
<1>13. Balance(1, a, b)
  <2>1. Total(SignalCounts(incidents')) + Total(Waiting(pending'))
          + Total(evicted') + (dropped' - Len(evicted'))
        = a + b + 1 + Total(evicted) + (dropped - Len(evicted))
    BY <1>10, <1>12 DEF v, l
  <2> QED
    BY <1>1, <1>2, <1>6, <1>8, <1>9, <1>11, <1>12, <2>1 DEF Balance
<1> QED
  BY <1>10, <1>12, <1>13, Balanced

Item == [origin : {"alert", "flow", "expert_info"}, about : SUBSET STRING, severity : Severity]
Remark == [about : SUBSET STRING, severity : Severity]

\* What is noted of a packet.
LEMMA NotedShape ==
    ASSUME NEW origin \in {"alert", "flow", "expert_info"}, NEW items \in Seq(Remark)
    PROVE  Noted(origin, items) \in Seq(Item)
<1>1. DOMAIN items = 1 .. Len(items) /\ Len(items) \in Nat
      /\ \A k \in 1 .. Len(items) : items[k] \in Remark
  BY LenProperties, ElementOfSeq
<1>2. \A k \in 1 .. Len(items) : [origin |-> origin, about |-> items[k].about,
                                  severity |-> items[k].severity] \in Item
  BY <1>1 DEF Item, Remark
<1>3. Noted(origin, items) = [k \in 1 .. Len(items) |->
                                [origin |-> origin, about |-> items[k].about,
                                 severity |-> items[k].severity]]
  BY <1>1 DEF Noted
<1> QED
  BY <1>1, <1>2, <1>3

\* What is looked at of a packet.
LEMMA ConsideredShape ==
    ASSUME NEW packet \in Evidence
    PROVE  Considered(packet) \in Seq(Item)
<1>1. packet.alerts \in Seq(Remark) /\ packet.remarks \in Seq(Remark) /\ packet.flow \in Remark
  BY EvidenceAssumption DEF Remark
<1> DEFINE n == Min({Len(packet.remarks), 5})
           first == SubSeq(packet.remarks, 1, n)
<1>2. n \in 0 .. Len(packet.remarks)
  <2>1. Len(packet.remarks) \in Nat
    BY <1>1, LenProperties
  <2>2. \E x \in {Len(packet.remarks), 5} : \A y \in {Len(packet.remarks), 5} : x <= y
    BY <2>1
  <2>3. n \in {Len(packet.remarks), 5} /\ \A y \in {Len(packet.remarks), 5} : n <= y
    BY <2>2 DEF Min
  <2> QED
    BY <2>1, <2>3
<1>3. first \in Seq(Remark)
  <2>1. \A j \in 1 .. n : packet.remarks[j] \in Remark
    BY <1>1, <1>2, ElementOfSeq, LenProperties
  <2> HIDE DEF n
  <2> QED
    BY <1>1, <1>2, <2>1, SubSeqProperties
<1> HIDE DEF first
<1>4. <<packet.flow>> \in Seq(Remark)
  BY <1>1
<1>5. /\ Noted("alert", packet.alerts) \in Seq(Item) /\ Noted("flow", <<packet.flow>>) \in Seq(Item)
      /\ Noted("expert_info", first) \in Seq(Item)
  BY <1>1, <1>3, <1>4, NotedShape
<1>6. Considered(packet) = Noted("alert", packet.alerts) \o Noted("flow", <<packet.flow>>)
                           \o Noted("expert_info", first)
  BY DEF Considered, first, n
<1> QED
  BY <1>5, <1>6, ConcatProperties

\* The signals derived of it.
LEMMA DerivedShape ==
    ASSUME NEW packet \in Evidence
    PROVE  Derived(packet) \in Seq(Signals)
<1> DEFINE items == Considered(packet)
           places == {k \in DOMAIN items : Fitting(items[k].about, packet) # {}}
           telling == Picked(items, places)
<1>1. items \in Seq(Item)
  BY ConsideredShape
<1>2. telling \in Seq(Item) /\ \E e : Thins(telling, items, Len(items), places, e)
  <2> HIDE DEF items, places
  <2> QED
    BY <1>1, PickedThins
<1>3. PICK e : Thins(telling, items, Len(items), places, e)
  BY <1>2
<1> DEFINE signal(k) == [type |-> Classified(telling[k].about, packet), host |-> packet.host,
                         context |-> packet.context, origin |-> telling[k].origin,
                         severity |-> telling[k].severity, time |-> 0]
<1>4. ASSUME NEW k \in 1 .. Len(telling)
      PROVE  signal(k) \in Signals
  <2>1. telling[k] \in Item
    BY <1>2, ElementOfSeq, LenProperties
  <2>2. telling[k] = items[e[k]] /\ e[k] \in places
    BY <1>3 DEF Thins
  <2>3. Fitting(telling[k].about, packet) # {}
    BY <2>2
  <2> DEFINE F == Fitting(telling[k].about, packet)
  <2>4. F \subseteq 1 .. 5 /\ DOMAIN Types = 1 .. 5
    BY DEF Fitting, Types
  <2>5. \E n \in F : \A m \in F : n <= m
    <3>1. F # {}
      BY <2>3
    <3> HIDE DEF F
    <3>2. F \subseteq Nat
      BY <2>4
    <3> QED
      BY <3>1, <3>2, Least
  <2>6. Classified(telling[k].about, packet) \in Kind
    BY <2>4, <2>5 DEF Classified, Kind
  <2>7. packet.host \in Hosts /\ packet.context \in Contexts
    BY DEF Hosts, Contexts
  <2> HIDE DEF telling, F
  <2> QED
    BY <2>1, <2>6, <2>7 DEF Signals, Item
<1>5. DOMAIN telling = 1 .. Len(telling) /\ Len(telling) \in Nat
  BY <1>2, LenProperties
<1>6. Derived(packet) = [k \in 1 .. Len(telling) |-> signal(k)]
  BY <1>5 DEF Derived
<1> HIDE DEF telling, signal
<1> QED
  BY <1>4, <1>5, <1>6

\* The steps other than taking in a signal.
LEMMA OtherCounts ==
    ASSUME Counted,
           List \/ Reset \/ Elapse \/ UNCHANGED incidentVars
           \/ \E w \in Correlators, packet \in Evidence : Correlate(w, packet)
    PROVE  Counted'
<1> DEFINE i == Total(SignalCounts(incidents))
           p == Total(Waiting(pending))
           v == Total(evicted)
           l == Len(evicted)
<1>1. /\ i \in Int /\ p \in Int /\ v \in Int /\ l \in Nat
      /\ Total(SignalCounts(KeptIncidents)) \in Int /\ Total(Waiting(KeptPending)) \in Int
  BY TotalsShape DEF Counted
<1>2. IncidentShape
  BY DEF Counted
<1>3. CASE List
  <2> DEFINE a == Total(SignalCounts(KeptIncidents))
             b == Total(Waiting(KeptPending))
  <2>1. Balance(0, a, b)
    <3>1. /\ expired' = expired + (i - a) + (p - b)
          /\ Total(SignalCounts(incidents')) = a /\ Total(Waiting(pending')) = b
      BY <1>3 DEF List, Expire
    <3>2. /\ incidents' \in Seq(Incident) /\ pending' \in Seq(Waiters)
      BY <1>2, <1>3, KeptShape DEF List
    <3>3. /\ instant' = instant /\ todo' = todo /\ created' = created /\ received' = received
          /\ correlated' = correlated /\ ignored' = ignored /\ dropped' = dropped
          /\ evicted' = evicted
      BY <1>3 DEF List
    <3>4. Total(evicted') = v /\ Len(evicted') = l
      BY <3>3
    <3> HIDE DEF a, b, v, l, i, p
    <3>5. a + b + v + (dropped - l) = a + b + 0 + v + (dropped - l)
      BY <1>1, <1>2 DEF IncidentShape, a, b
    <3>6. received' = received + 0 /\ correlated' + ignored' = correlated + ignored + 0
      BY <1>2, <3>3 DEF IncidentShape
    <3> QED
      BY <1>2, <3>1, <3>2, <3>3, <3>4, <3>5, <3>6 DEF IncidentShape, Balance, i, p, v, l
  <2>2. a \in Int /\ b \in Int
    BY <1>1
  <2> HIDE DEF a, b
  <2> QED
    BY <2>1, <2>2, Balanced
<1>4. CASE Reset
  <2>1. /\ Total(SignalCounts(incidents')) = 0 /\ Total(Waiting(pending')) = 0
    <3>1. SignalCounts(incidents') = << >> /\ Waiting(pending') = << >>
      BY <1>4 DEF Reset, SignalCounts, Waiting
    <3> QED
      BY <3>1, TotalNone
  <2>2. /\ instant' = instant /\ todo' = todo /\ created' = created /\ received' = received
        /\ correlated' = correlated /\ ignored' = ignored /\ dropped' = dropped
        /\ evicted' = evicted /\ expired' = expired + i + p
        /\ incidents' = << >> /\ pending' = << >>
    BY <1>4 DEF Reset
  <2>3. Total(evicted') = v /\ Len(evicted') = l
    BY <2>2
  <2>4. incidents' \in Seq(Incident) /\ pending' \in Seq(Waiters)
    BY <2>2
  <2> HIDE DEF i, p, v, l
  <2>5. /\ expired' = expired + (i - 0) + (p - 0)
        /\ 0 + 0 + v + (dropped - l) = 0 + 0 + 0 + v + (dropped - l)
        /\ received' = received + 0 /\ correlated' + ignored' = correlated + ignored + 0
    BY <1>1, <1>2, <2>2 DEF IncidentShape
  <2>6. Balance(0, 0, 0)
    BY <1>2, <2>1, <2>2, <2>3, <2>4, <2>5 DEF IncidentShape, Balance, i, p, v, l
  <2> QED
    BY <2>6, Balanced
<1>5. CASE Elapse
  <2>1. instant' \in Nat
    BY <1>2, <1>5 DEF Elapse, IncidentShape
  <2>2. /\ todo' = todo /\ created' = created /\ received' = received
        /\ correlated' = correlated /\ ignored' = ignored /\ dropped' = dropped
        /\ evicted' = evicted /\ expired' = expired /\ incidents' = incidents /\ pending' = pending
    BY <1>5 DEF Elapse
  <2> QED
    BY <2>1, <2>2 DEF Counted, IncidentShape, SignalsAccounted
<1>6. CASE UNCHANGED incidentVars
  BY <1>6 DEF Counted, IncidentShape, SignalsAccounted, incidentVars
<1>7. ASSUME NEW w \in Correlators, NEW packet \in Evidence, Correlate(w, packet)
      PROVE  Counted'
  <2>1. todo' = [todo EXCEPT ![w] = Derived(packet)]
    BY <1>7 DEF Correlate
  <2>2. todo' \in [Correlators -> Seq(Signals)]
    BY <1>2, <2>1, DerivedShape DEF IncidentShape
  <2>3. UNCHANGED <<instant, incidents, pending, created, received, correlated, ignored, dropped,
                   expired, evicted>>
    BY <1>7 DEF Correlate
  <2> QED
    BY <2>2, <2>3 DEF Counted, IncidentShape, SignalsAccounted
<1> QED
  BY <1>3, <1>4, <1>5, <1>6, <1>7

\* Taking in a signal, and so every step, accounts for every signal.
LEMMA IngestCounts ==
    ASSUME Counted, NEW w \in Correlators, Ingest(w)
    PROVE  Counted'
<1> DEFINE s == Arrives(todo[w][1])
<1>1. todo[w] # << >> /\ (Join(w, s) \/ Wait(w, s) \/ Open(w, s))
  BY DEF Ingest
<1>2. s \in Signals
  BY <1>1, ArrivesShape DEF Counted
<1> HIDE DEF s
<1> QED
  BY <1>1, <1>2, JoinCounts, WaitCounts, OpenCounts

LEMMA IncidentsInitCounted == IncidentsInit => Counted
<1> SUFFICES ASSUME IncidentsInit PROVE Counted
  OBVIOUS
<1>1. /\ SignalCounts(incidents) = << >> /\ Waiting(pending) = << >> /\ Len(evicted) = 0
      /\ evicted = << >>
  BY DEF IncidentsInit, SignalCounts, Waiting
<1>2. IncidentShape
  BY DEF IncidentsInit, IncidentShape
<1>3. SignalsAccounted
  BY <1>1, TotalNone DEF IncidentsInit, SignalsAccounted
<1> QED
  BY <1>2, <1>3 DEF Counted

LEMMA NextCounted == Counted /\ [IncidentsNext]_incidentVars => Counted'
  BY IngestCounts, OtherCounts DEF IncidentsNext

\* Every signal received is in an incident, waits, aged out or was counted as dropped, exactly
\* once, and was answered in one way (ingest_signal, _cleanup_locked, _create_locked, reset).
THEOREM EverySignalAccounted == IncidentsSpec => []SignalsAccounted
<1>1. Counted => SignalsAccounted
  BY DEF Counted
<1> QED
  BY <1>1, IncidentsInitCounted, NextCounted, PTL DEF IncidentsSpec

-----------------------------------------------------------------------------
(* Incidents grouped by source and time *)

\* The signals of a deque came one after the other and belong to its key.
Aligned(p, t) ==
    /\ \A j \in 1 .. Len(p.signals) : PendingKey(p.signals[j]) = p.key /\ p.signals[j].time <= t
    /\ \A i, j \in 1 .. Len(p.signals) : i <= j => p.signals[i].time <= p.signals[j].time

\* An incident is what its signals make it.
Coherent(i, n, t) ==
    /\ i.count >= 2 /\ i.id <= n
    /\ Len(i.timeline) = IF i.count <= MaxSignals THEN i.count ELSE MaxSignals
    /\ i.last = i.timeline[Len(i.timeline)].time /\ i.last <= t
    /\ i.severity = Graded(i.count, i.timeline)
    /\ \E h \in Hosts : i.hosts \subseteq {h}
    /\ \A j \in 2 .. Len(i.timeline) : i.timeline[j].time <= i.timeline[j - 1].time + Together

\* Two incidents have different names, and are of different sources or far apart.
Apart(i, j) ==
    /\ i.id # j.id
    /\ i.type = j.type /\ i.hosts \cap j.hosts # {}
       => i.last + Together < j.last \/ j.last + Together < i.last

Grouped(is, n, t) ==
    /\ \A k \in 1 .. Len(is) : Coherent(is[k], n, t)
    /\ \A j, k \in 1 .. Len(is) : j # k => Apart(is[j], is[k])
AllAligned(ps, t) == \A k \in 1 .. Len(ps) : Aligned(ps[k], t)

\* Some of the elements of a sequence, each at most once.
Drawn(t, s, e) ==
    /\ e \in [1 .. Len(t) -> 1 .. Len(s)]
    /\ \A i, j \in 1 .. Len(t) : i # j => e[i] # e[j]
    /\ \A i \in 1 .. Len(t) : t[i] = s[e[i]]

\* What is picked, what is last and what is left without one element are drawn.
LEMMA ThinsDrawn ==
    ASSUME NEW T, NEW s \in Seq(T), NEW t \in Seq(T), NEW places, NEW e,
           Thins(t, s, Len(s), places, e)
    PROVE  Drawn(t, s, e)
<1>1. Len(t) \in Nat /\ Len(s) \in Nat
  BY LenProperties
<1>2. /\ e \in [1 .. Len(t) -> (1 .. Len(s)) \cap places]
      /\ \A i, j \in 1 .. Len(t) : i < j => e[i] < e[j]
      /\ \A i \in 1 .. Len(t) : t[i] = s[e[i]]
  BY DEF Thins
<1>3. ASSUME NEW i \in 1 .. Len(t), NEW j \in 1 .. Len(t), i # j
      PROVE  e[i] # e[j]
  <2>1. e[i] \in 1 .. Len(s) /\ e[j] \in 1 .. Len(s) /\ (i < j \/ j < i)
    BY <1>1, <1>2, <1>3
  <2> QED
    BY <1>1, <1>2, <2>1
<1> QED
  BY <1>2, <1>3 DEF Drawn

LEMMA EndsDrawn ==
    ASSUME NEW T, NEW s \in Seq(T), NEW t \in Seq(T), NEW n \in Nat, NEW m, Ends(t, n, s, m)
    PROVE  Drawn(t, s, [k \in 1 .. Len(t) |-> m + k])
<1> DEFINE e == [k \in 1 .. Len(t) |-> m + k]
<1>1. Len(t) \in Nat /\ Len(s) \in Nat /\ m \in 0 .. Len(s) /\ Len(t) = Len(s) - m
      /\ \A k \in 1 .. Len(s) - m : t[k] = s[m + k]
  BY LenProperties DEF Ends
<1>2. \A k \in 1 .. Len(t) : e[k] = m + k /\ m + k \in 1 .. Len(s) /\ t[k] = s[e[k]]
  BY <1>1
<1>3. e \in [1 .. Len(t) -> 1 .. Len(s)]
  BY <1>2
<1>4. \A i, j \in 1 .. Len(t) : i # j => m + i # m + j
  BY <1>1
<1> QED
  BY <1>2, <1>3, <1>4 DEF Drawn

LEMMA RemovedDrawn ==
    ASSUME NEW T, NEW s \in Seq(T), NEW n \in 1 .. Len(s)
    PROVE  /\ RemoveAt(s, n) \in Seq(T)
           /\ \E e : Drawn(RemoveAt(s, n), s, e) /\ \A k \in 1 .. Len(RemoveAt(s, n)) : e[k] # n
<1> DEFINE t == RemoveAt(s, n)
           e == [k \in 1 .. Len(t) |-> IF k < n THEN k ELSE k + 1]
<1>1. /\ t \in Seq(T) /\ Len(t) = Len(s) - 1 /\ Len(s) \in Nat /\ n \in DOMAIN s
      /\ \A k \in 1 .. Len(s) - 1 : t[k] = IF k < n THEN s[k] ELSE s[k + 1]
  BY Removed, LenProperties
<1> HIDE DEF t
<1>2. \A k \in 1 .. Len(t) : /\ e[k] = (IF k < n THEN k ELSE k + 1) /\ e[k] \in 1 .. Len(s)
                             /\ t[k] = s[e[k]] /\ e[k] # n
  BY <1>1
<1>3. e \in [1 .. Len(t) -> 1 .. Len(s)]
  BY <1>2
<1>4. ASSUME NEW i \in 1 .. Len(t), NEW j \in 1 .. Len(t), i # j
      PROVE  e[i] # e[j]
  BY <1>1, <1>4
<1>5. Drawn(t, s, e)
  <2> HIDE DEF e
  <2> QED
    BY <1>2, <1>3, <1>4 DEF Drawn
<1> HIDE DEF e
<1> QED
  BY <1>1, <1>2, <1>5 DEF t

\* What is drawn from incidents that are grouped is grouped; so it is with one more that is
\* apart from all; so it is later.
LEMMA GroupedDrawn ==
    ASSUME NEW is, NEW t, NEW e, Drawn(t, is, e), NEW n, NEW m, Grouped(is, n, m)
    PROVE  Grouped(t, n, m)
<1>1. /\ \A k \in 1 .. Len(t) : e[k] \in 1 .. Len(is) /\ t[k] = is[e[k]]
      /\ \A j, k \in 1 .. Len(t) : j # k => e[j] # e[k]
  BY DEF Drawn
<1>2. /\ \A k \in 1 .. Len(is) : Coherent(is[k], n, m)
      /\ \A j, k \in 1 .. Len(is) : j # k => Apart(is[j], is[k])
  BY DEF Grouped
<1>3. \A k \in 1 .. Len(t) : Coherent(t[k], n, m)
  BY <1>1, <1>2
<1>4. \A j, k \in 1 .. Len(t) : j # k => Apart(t[j], t[k])
  BY <1>1, <1>2
<1> QED
  BY <1>3, <1>4 DEF Grouped

LEMMA GroupedAppend ==
    ASSUME NEW t \in Seq(Incident), NEW i \in Incident, NEW n, NEW m, Grouped(t, n, m),
           Coherent(i, n, m), \A k \in 1 .. Len(t) : Apart(t[k], i)
    PROVE  Grouped(Append(t, i), n, m)
<1> DEFINE u == Append(t, i)
<1>1. /\ Len(u) = Len(t) + 1 /\ Len(t) \in Nat /\ u[Len(t) + 1] = i
      /\ \A k \in 1 .. Len(t) : u[k] = t[k]
  BY AppendProperties, LenProperties
<1> HIDE DEF u
<1>2. \A k \in 1 .. Len(t) : Apart(i, t[k])
  <2>1. ASSUME NEW j, Apart(j, i) PROVE Apart(i, j)
    BY <2>1 DEF Apart
  <2> QED
    BY <2>1
<1>3. \A k \in 1 .. Len(u) : k \in 1 .. Len(t) \/ k = Len(t) + 1
  BY <1>1
<1>4. \A k \in 1 .. Len(u) : Coherent(u[k], n, m)
  BY <1>1, <1>3 DEF Grouped
<1>5. \A j, k \in 1 .. Len(u) : j # k => Apart(u[j], u[k])
  BY <1>1, <1>2, <1>3 DEF Grouped
<1> QED
  BY <1>4, <1>5 DEF Grouped, u

LEMMA GroupedLater ==
    ASSUME NEW is \in Seq(Incident), NEW n \in Nat, NEW m \in Nat, NEW o \in Nat, NEW p \in Nat,
           n <= o, m <= p, Grouped(is, n, m)
    PROVE  Grouped(is, o, p)
<1>1. ASSUME NEW k \in 1 .. Len(is) PROVE Coherent(is[k], o, p)
  <2>1. is[k] \in Incident
    BY ElementOfSeq, LenProperties
  <2>2. Coherent(is[k], n, m)
    BY DEF Grouped
  <2>3. is[k].id \in Nat /\ is[k].last \in Nat
    BY <2>1 DEF Incident
  <2>4. is[k].id <= o /\ is[k].last <= p
    BY <2>2, <2>3, SMTT(40) DEF Coherent
  <2> QED
    BY <2>2, <2>4 DEF Coherent
<1> QED
  BY <1>1 DEF Grouped

\* The same for the deques that wait.
LEMMA AlignedDrawn ==
    ASSUME NEW ps, NEW qs, NEW e, Drawn(qs, ps, e), NEW t, AllAligned(ps, t)
    PROVE  AllAligned(qs, t)
  BY DEF Drawn, AllAligned

LEMMA AlignedAppend ==
    ASSUME NEW ps \in Seq(Waiters), NEW p \in Waiters, NEW t, AllAligned(ps, t), Aligned(p, t)
    PROVE  AllAligned(Append(ps, p), t)
<1> DEFINE u == Append(ps, p)
<1>1. /\ Len(u) = Len(ps) + 1 /\ Len(ps) \in Nat /\ u[Len(ps) + 1] = p
      /\ \A k \in 1 .. Len(ps) : u[k] = ps[k]
  BY AppendProperties, LenProperties
<1> HIDE DEF u
<1>2. \A k \in 1 .. Len(u) : k \in 1 .. Len(ps) \/ k = Len(ps) + 1
  BY <1>1
<1>3. \A k \in 1 .. Len(u) : Aligned(u[k], t)
  BY <1>1, <1>2 DEF AllAligned
<1> QED
  BY <1>3 DEF AllAligned, u

LEMMA AlignedLater ==
    ASSUME NEW ps \in Seq(Waiters), NEW t \in Nat, NEW u \in Nat, t <= u, AllAligned(ps, t)
    PROVE  AllAligned(ps, u)
<1>1. ASSUME NEW k \in 1 .. Len(ps) PROVE Aligned(ps[k], u)
  <2>1. ps[k].signals \in Seq(Signals)
    <3>1. ps[k] \in Waiters
      BY ElementOfSeq, LenProperties
    <3> QED
      BY <3>1 DEF Waiters
  <2>2. \A j \in 1 .. Len(ps[k].signals) : ps[k].signals[j].time \in Nat
    <3>1. \A j \in 1 .. Len(ps[k].signals) : ps[k].signals[j] \in Signals
      BY <2>1, ElementOfSeq, LenProperties
    <3> QED
      BY <3>1 DEF Signals
  <2>3. Aligned(ps[k], t)
    BY DEF AllAligned
  <2>4. \A j \in 1 .. Len(ps[k].signals) : ps[k].signals[j].time <= u
    BY <2>2, <2>3 DEF Aligned
  <2> QED
    BY <2>3, <2>4 DEF Aligned
<1> QED
  BY <1>1 DEF AllAligned

\* The signals that follow each other within the window before now.
Recent(signals, t) ==
    \A j \in 1 .. Len(signals) : signals[j].time + Together >= t
Grouping(n, t) == Grouped(incidents, n, t) /\ AllAligned(pending, t)

\* What the clean-up leaves is in order, and recent.
LEMMA NotStaleAligned ==
    ASSUME instant \in Nat, NEW p \in Waiters, Aligned(p, instant)
    PROVE  /\ Aligned([key |-> p.key, signals |-> NotStale(p.signals)], instant)
           /\ Recent(NotStale(p.signals), instant)
<1> DEFINE s == p.signals
           l == NotStale(s)
<1>1. s \in Seq(Signals) /\ Len(s) \in Nat
  BY LenProperties DEF Waiters
<1>2. PICK m \in 0 .. Len(s) :
              /\ l \in Seq(Signals) /\ Len(l) = Len(s) - m
              /\ \A k \in 1 .. Len(s) - m : l[k] = s[m + k]
              /\ m < Len(s) => s[m + 1].time + Together >= instant
  <2> HIDE DEF s
  <2> QED
    BY <1>1, NotStaleIs
<1>3. /\ \A j \in 1 .. Len(s) : PendingKey(s[j]) = p.key /\ s[j].time <= instant
      /\ \A i, j \in 1 .. Len(s) : i <= j => s[i].time <= s[j].time
  BY DEF Aligned
<1>4. \A j \in 1 .. Len(s) : s[j].time \in Nat
  <2>1. \A j \in 1 .. Len(s) : s[j] \in Signals
    BY <1>1, ElementOfSeq
  <2> QED
    BY <2>1 DEF Signals
<1> HIDE DEF l, s
<1>5. \A j \in 1 .. Len(l) : m + j \in 1 .. Len(s) /\ l[j] = s[m + j]
  BY <1>1, <1>2, SMTT(40)
<1>6. \A j \in 1 .. Len(l) : PendingKey(l[j]) = p.key /\ l[j].time <= instant
  BY <1>3, <1>5
<1>7. ASSUME NEW i \in 1 .. Len(l), NEW j \in 1 .. Len(l), i <= j
      PROVE  l[i].time <= l[j].time
  <2>1. m + i <= m + j
    BY <1>7
  <2> QED
    BY <1>3, <1>5, <2>1
<1>8. ASSUME NEW j \in 1 .. Len(l)
      PROVE  l[j].time + Together >= instant
  <2>1. m < Len(s) /\ m + 1 \in 1 .. Len(s) /\ m + j \in 1 .. Len(s) /\ m + 1 <= m + j
    BY <1>1, <1>2
  <2>2. s[m + 1].time + Together >= instant /\ s[m + 1].time <= s[m + j].time
    BY <1>2, <1>3, <2>1
  <2>3. s[m + 1].time \in Nat /\ s[m + j].time \in Nat /\ Together \in Nat
    BY <1>4, <2>1, TunablesAssumption
  <2> DEFINE x == s[m + 1].time
             y == s[m + j].time
  <2>4. l[j].time = y
    BY <1>5
  <2>5. x + Together >= instant /\ x <= y /\ x \in Nat /\ y \in Nat /\ Together \in Nat
    BY <2>2, <2>3
  <2> HIDE DEF x, y
  <2>6. y + Together >= instant
    BY <2>5
  <2> QED
    BY <2>4, <2>6
<1> QED
  BY <1>6, <1>7, <1>8 DEF Aligned, Recent, l, s

LEMMA KeptAligned ==
    ASSUME IncidentShape, AllAligned(pending, instant)
    PROVE  /\ AllAligned(KeptPending, instant)
           /\ \A k \in 1 .. Len(KeptPending) : Recent(KeptPending[k].signals, instant)
<1>1. /\ Aged \in Seq(Waiters) /\ Len(Aged) = Len(pending)
      /\ \A k \in 1 .. Len(pending) :
            Aged[k] = [key |-> pending[k].key, signals |-> NotStale(pending[k].signals)]
  BY KeptShape
<1>2. ASSUME NEW k \in 1 .. Len(Aged)
      PROVE  Aligned(Aged[k], instant) /\ Recent(Aged[k].signals, instant)
  <2>1. pending[k] \in Waiters /\ instant \in Nat
    BY <1>1, ElementOfSeq, LenProperties DEF IncidentShape
  <2>2. Aligned(pending[k], instant)
    BY <1>1 DEF AllAligned
  <2>3. /\ Aligned([key |-> pending[k].key, signals |-> NotStale(pending[k].signals)], instant)
        /\ Recent(NotStale(pending[k].signals), instant)
    BY <2>1, <2>2, NotStaleAligned
  <2>4. Aged[k] = [key |-> pending[k].key, signals |-> NotStale(pending[k].signals)]
    BY <1>1
  <2> QED
    BY <2>3, <2>4
<1> DEFINE places == {k \in DOMAIN Aged : Aged[k].signals # << >>}
<1>3. KeptPending \in Seq(Waiters) /\ \E e : Drawn(KeptPending, Aged, e)
  <2>1. KeptPending = Picked(Aged, places)
    BY DEF KeptPending
  <2> HIDE DEF places
  <2>2. Picked(Aged, places) \in Seq(Waiters)
        /\ \E e : Thins(Picked(Aged, places), Aged, Len(Aged), places, e)
    BY <1>1, PickedThins
  <2> QED
    BY <1>1, <2>1, <2>2, ThinsDrawn
<1>4. PICK e : Drawn(KeptPending, Aged, e)
  BY <1>3
<1>5. \A k \in 1 .. Len(KeptPending) : e[k] \in 1 .. Len(Aged) /\ KeptPending[k] = Aged[e[k]]
  BY <1>4 DEF Drawn
<1> QED
  BY <1>2, <1>5 DEF AllAligned

\* The incidents that are left are among those there were.
LEMMA KeptGrouped ==
    ASSUME IncidentShape, NEW n, NEW t, Grouped(incidents, n, t)
    PROVE  Grouped(KeptIncidents, n, t) /\ \E e : Drawn(KeptIncidents, incidents, e)
<1> DEFINE places == {k \in DOMAIN incidents : incidents[k].last + Retention >= instant}
<1>1. KeptIncidents = Picked(incidents, places) /\ incidents \in Seq(Incident)
  BY DEF KeptIncidents, IncidentShape
<1> HIDE DEF places
<1>2. Picked(incidents, places) \in Seq(Incident)
        /\ \E e : Thins(Picked(incidents, places), incidents, Len(incidents), places, e)
  BY <1>1, PickedThins
<1>3. \E e : Drawn(KeptIncidents, incidents, e)
  BY <1>1, <1>2, ThinsDrawn
<1> QED
  BY <1>3, GroupedDrawn

\* What the signals of a deque have in common when the one that arrives is in it.
DequeIs(d, s) ==
    /\ d \in Seq(Signals) /\ Len(d) \in 1 .. MaxSignals /\ d[Len(d)] = s
    /\ Aligned([key |-> PendingKey(s), signals |-> d], instant) /\ Recent(d, instant)

\* The deque with the signal that arrives is in order, recent and of one key.
LEMMA DequeAligned ==
    ASSUME IncidentShape, AllAligned(pending, instant), NEW s \in Signals, s.time = instant
    PROVE  DequeIs(Deque(s), s)
<1>1. /\ PlaceOf(s) \in 0 .. Len(KeptPending)
      /\ PlaceOf(s) # 0 => KeptPending[PlaceOf(s)].key = PendingKey(s)
      /\ Earlier(s) \in Seq(Signals)
      /\ Deque(s) \in Seq(Signals) /\ Len(Deque(s)) \in 1 .. MaxSignals
      /\ Deque(s)[Len(Deque(s))] = s
  BY DequeShape
<1> DEFINE e == Earlier(s)
           a == Append(e, s)
           d == Deque(s)
<1>2. Aligned([key |-> PendingKey(s), signals |-> e], instant) /\ Recent(e, instant)
  <2>1. CASE PlaceOf(s) = 0
    <3>1. e = << >> /\ Len(<< >>) = 0
      BY <2>1 DEF Earlier
    <3> QED
      BY <3>1 DEF Aligned, Recent
  <2>2. CASE PlaceOf(s) # 0
    <3> DEFINE p == KeptPending[PlaceOf(s)]
    <3>1. PlaceOf(s) \in 1 .. Len(KeptPending) /\ e = p.signals /\ p.key = PendingKey(s)
      BY <1>1, <2>2 DEF Earlier
    <3>2. Aligned(p, instant) /\ Recent(p.signals, instant)
      BY <3>1, KeptAligned DEF AllAligned
    <3> HIDE DEF p
    <3> QED
      BY <3>1, <3>2 DEF Aligned
  <2> QED
    BY <2>1, <2>2
<1>3. instant \in Nat /\ MaxSignals \in Nat /\ Together \in Nat
  BY TunablesAssumption DEF IncidentShape
<1> HIDE DEF e
<1>4. /\ a \in Seq(Signals) /\ Len(a) = Len(e) + 1 /\ Len(e) \in Nat /\ a[Len(e) + 1] = s
      /\ \A k \in 1 .. Len(e) : a[k] = e[k]
  BY <1>1, AppendProperties, LenProperties DEF e
<1>5. d = LastOf(MaxSignals, a)
  BY DEF Deque, e
<1> HIDE DEF a, d
<1>6. PICK m : Ends(d, MaxSignals, a, m)
  BY <1>3, <1>4, <1>5, LastOfIs
<1>7. \A k \in 1 .. Len(a) : k \in 1 .. Len(e) \/ k = Len(e) + 1
  BY <1>4
<1>8. \A k \in 1 .. Len(e) : PendingKey(e[k]) = PendingKey(s) /\ e[k].time <= instant
                             /\ e[k].time + Together >= instant
  BY <1>2 DEF Aligned, Recent
<1>9. \A k \in 1 .. Len(a) : PendingKey(a[k]) = PendingKey(s) /\ a[k].time <= instant
                             /\ a[k].time + Together >= instant
  <2>1. s.time <= instant /\ s.time + Together >= instant
    BY <1>3
  <2> QED
    BY <1>4, <1>7, <1>8, <2>1
<1>10. ASSUME NEW i \in 1 .. Len(a), NEW j \in 1 .. Len(a), i <= j
       PROVE  a[i].time <= a[j].time
  <2>1. CASE j = Len(e) + 1
    BY <1>4, <1>9, <2>1
  <2>2. CASE j \in 1 .. Len(e)
    <3>1. i \in 1 .. Len(e)
      BY <1>4, <1>10, <2>2
    <3>2. e[i].time <= e[j].time
      BY <1>2, <1>10, <2>2, <3>1 DEF Aligned
    <3> QED
      BY <1>4, <2>2, <3>1, <3>2
  <2> QED
    BY <1>7, <2>1, <2>2
<1>11. m \in 0 .. Len(a) /\ Len(d) = Len(a) - m /\ Len(a) \in Nat
       /\ \A k \in 1 .. Len(a) - m : d[k] = a[m + k]
  BY <1>4, <1>6 DEF Ends
<1>12. \A k \in 1 .. Len(d) : m + k \in 1 .. Len(a) /\ d[k] = a[m + k]
  BY <1>11
<1>13. \A k \in 1 .. Len(d) : PendingKey(d[k]) = PendingKey(s) /\ d[k].time <= instant
                              /\ d[k].time + Together >= instant
  BY <1>9, <1>12
<1>14. ASSUME NEW i \in 1 .. Len(d), NEW j \in 1 .. Len(d), i <= j
       PROVE  d[i].time <= d[j].time
  <2>1. m + i <= m + j
    BY <1>11, <1>14
  <2> QED
    BY <1>10, <1>12, <2>1
<1>15. Aligned([key |-> PendingKey(s), signals |-> d], instant) /\ Recent(d, instant)
  BY <1>13, <1>14 DEF Aligned, Recent
<1> QED
  BY <1>1, <1>15 DEF DequeIs, d

\* The deques of the other keys are in order.
LEMMA OthersAligned ==
    ASSUME IncidentShape, AllAligned(pending, instant), NEW s \in Signals
    PROVE  AllAligned(OthersKept(s), instant) /\ OthersKept(s) \in Seq(Waiters)
<1>1. AllAligned(KeptPending, instant)
  BY KeptAligned
<1>2. /\ PlaceOf(s) \in 0 .. Len(KeptPending) /\ Others(s) \in Seq(Waiters)
      /\ OthersKept(s) \in Seq(Waiters) /\ KeptPending \in Seq(Waiters)
  BY DequeShape, KeptShape
<1>3. AllAligned(Others(s), instant)
  <2>1. CASE PlaceOf(s) = 0
    BY <1>1, <2>1 DEF Others
  <2>2. CASE PlaceOf(s) # 0
    <3> DEFINE n == PlaceOf(s)
               ps == KeptPending
    <3>1. Others(s) = RemoveAt(ps, n) /\ n \in 1 .. Len(ps) /\ ps \in Seq(Waiters)
      BY <1>2, <2>2 DEF Others
    <3> HIDE DEF n, ps
    <3>2. \E e : Drawn(RemoveAt(ps, n), ps, e)
      BY <3>1, RemovedDrawn
    <3> QED
      BY <1>1, <3>1, <3>2, AlignedDrawn DEF ps
  <2> QED
    BY <2>1, <2>2
<1>4. MaxOpen * 2 - 1 \in Nat
  BY TunablesAssumption
<1>5. OthersKept(s) = LastOf(MaxOpen * 2 - 1, Others(s))
  BY DEF OthersKept
<1>6. \E m : Ends(OthersKept(s), MaxOpen * 2 - 1, Others(s), m)
  <2> DEFINE n == MaxOpen * 2 - 1
             o == Others(s)
  <2>1. n \in Nat /\ o \in Seq(Waiters) /\ OthersKept(s) = LastOf(n, o)
    BY <1>2, <1>4, <1>5
  <2> HIDE DEF n, o
  <2>2. \E m : Ends(OthersKept(s), n, o, m)
    BY <2>1, LastOfIs
  <2> QED
    BY <2>2 DEF n, o
<1>7. \E e : Drawn(OthersKept(s), Others(s), e)
  BY <1>2, <1>4, <1>6, EndsDrawn
<1> QED
  BY <1>2, <1>3, <1>7, AlignedDrawn

\* The timeline of an incident that takes one more signal.
Longer(i, s) == Append(i.timeline, Entry(s))

LEMMA LongerIs ==
    ASSUME NEW i \in Incident, NEW s \in Signals
    PROVE  /\ Longer(i, s) \in Seq(Entries) /\ Len(Longer(i, s)) = Len(i.timeline) + 1
           /\ Len(i.timeline) \in Nat
           /\ Longer(i, s)[Len(i.timeline) + 1].time = s.time
           /\ \A k \in 1 .. Len(i.timeline) : Longer(i, s)[k] = i.timeline[k]
           /\ \A k \in 1 .. Len(i.timeline) : i.timeline[k] \in Entries
           /\ \E m : Ends(KeepNewest(Longer(i, s)), MaxSignals, Longer(i, s), m)
           /\ s.time \in Nat
<1> DEFINE line == i.timeline
           a == Longer(i, s)
<1>1. line \in Seq(Entries) /\ Entry(s) \in Entries /\ Entry(s).time = s.time /\ s.time \in Nat
  BY DEF Incident, Entry, Entries, Signals
<1>2. /\ a \in Seq(Entries) /\ Len(a) = Len(line) + 1 /\ a[Len(line) + 1] = Entry(s)
      /\ \A k \in 1 .. Len(line) : a[k] = line[k]
  BY <1>1, AppendProperties DEF Longer
<1>3. Len(line) \in Nat /\ \A k \in 1 .. Len(line) : line[k] \in Entries
  BY <1>1, LenProperties, ElementOfSeq
<1>4. \E m : Ends(KeepNewest(a), MaxSignals, a, m)
  <2> HIDE DEF a
  <2>1. MaxSignals \in Nat /\ KeepNewest(a) = LastOf(MaxSignals, a)
    BY TunablesAssumption DEF KeepNewest
  <2> QED
    BY <1>2, <2>1, LastOfIs
<1> QED
  BY <1>1, <1>2, <1>3, <1>4

\* An incident remains coherent with a signal of its source within the window.
LEMMA ApplyCoherent ==
    ASSUME NEW n \in Nat, NEW t \in Nat, NEW i \in Incident, Coherent(i, n, t),
           NEW s \in Signals, s.time = t, s.host \in i.hosts, s.host # NoHost,
           i.last + Together >= t
    PROVE  Coherent(Apply(i, s), n, t) /\ Apply(i, s).hosts = i.hosts
<1> DEFINE a == Longer(i, s)
           l == KeepNewest(a)
           j == Apply(i, s)
           q == Len(i.timeline)
<1>1. /\ j.id = i.id /\ j.hosts = i.hosts \cup Named(s.host) /\ j.last = s.time
      /\ j.count = i.count + 1 /\ j.timeline = l /\ j.severity = Graded(i.count + 1, l)
  <2>1. j = [id |-> i.id, type |-> i.type, hosts |-> i.hosts \cup Named(s.host),
             contexts |-> i.contexts \cup {s.context}, last |-> s.time,
             count |-> i.count + 1, timeline |-> l, severity |-> Graded(i.count + 1, l)]
    BY ApplyIs DEF Longer
  <2> HIDE DEF j, l
  <2> QED
    BY <2>1
<1>2. /\ Len(a) = q + 1 /\ q \in Nat /\ a[q + 1].time = t
      /\ \A k \in 1 .. q : a[k] = i.timeline[k] /\ i.timeline[k] \in Entries
  BY LongerIs
<1>3. PICK m : Ends(l, MaxSignals, a, m)
  BY LongerIs
<1>4. j.hosts = i.hosts
  BY <1>1 DEF Named
<1>5. /\ i.count >= 2 /\ i.count \in Nat /\ i.id <= n /\ i.last \in Nat
      /\ q = IF i.count <= MaxSignals THEN i.count ELSE MaxSignals
      /\ i.last = i.timeline[q].time /\ (\E h \in Hosts : i.hosts \subseteq {h})
      /\ \A k \in 2 .. q : i.timeline[k].time <= i.timeline[k - 1].time + Together
  BY DEF Coherent, Incident
<1>6. MaxSignals \in Nat /\ MaxSignals >= 2 /\ Together \in Nat
  BY TunablesAssumption
<1> HIDE DEF a, l, j, q
<1>7. /\ m \in 0 .. Len(a) /\ m = (IF Len(a) <= MaxSignals THEN 0 ELSE Len(a) - MaxSignals)
      /\ Len(l) = Len(a) - m /\ \A k \in 1 .. Len(a) - m : l[k] = a[m + k]
  BY <1>3 DEF Ends
<1>8. Len(l) = IF i.count + 1 <= MaxSignals THEN i.count + 1 ELSE MaxSignals
  BY <1>2, <1>5, <1>6, <1>7, SMTT(40)
<1>9. l[Len(l)].time = t
  <2> DEFINE x == Len(l)
             y == Len(a)
  <2>2. q >= 2
    BY <1>5, <1>6
  <2>3. y = q + 1 /\ x = y - m /\ m \in 0 .. y
        /\ x = IF i.count + 1 <= MaxSignals THEN i.count + 1 ELSE MaxSignals
    BY <1>2, <1>7, <1>8
  <2> HIDE DEF x, y
  <2>4. x >= 1 /\ x \in Nat
    BY <1>5, <1>6, <2>3
  <2>5. x \in 1 .. y - m /\ m + x = q + 1
    BY <1>2, <2>3, <2>4
  <2>1. Len(l) \in 1 .. Len(a) - m /\ m + Len(l) = q + 1
    BY <2>5 DEF x, y
  <2> QED
    BY <1>2, <1>7, <2>1
<1>10. ASSUME NEW k \in 2 .. q + 1
       PROVE  a[k].time <= a[k - 1].time + Together
  <2>1. CASE k = q + 1
    <3>2. k - 1 = q /\ q \in 1 .. q
      BY <1>2, <2>1
    <3>1. a[k - 1] = i.timeline[q] /\ a[k].time = t
      BY <1>2, <2>1, <3>2
    <3> QED
      BY <1>5, <3>1
  <2>2. CASE k # q + 1
    <3>1. k \in 1 .. q /\ k - 1 \in 1 .. q /\ k \in 2 .. q
      BY <1>2, <2>2
    <3> QED
      BY <1>2, <1>5, <3>1
  <2> QED
    BY <2>1, <2>2
<1>11. ASSUME NEW k \in 2 .. Len(l)
       PROVE  l[k].time <= l[k - 1].time + Together
  <2>1. /\ k \in 1 .. Len(a) - m /\ k - 1 \in 1 .. Len(a) - m /\ m + k \in 2 .. q + 1
        /\ m + (k - 1) = (m + k) - 1
    BY <1>2, <1>7
  <2> QED
    BY <1>7, <1>10, <2>1
<1>12. j.count >= 2 /\ j.id <= n /\ j.last <= t /\ j.last = l[Len(l)].time
  BY <1>1, <1>5, <1>9
<1> QED
  BY <1>1, <1>4, <1>5, <1>8, <1>11, <1>12 DEF Coherent, j

\* The grade does not fall with more signals and nothing forgotten.
LEMMA GradedGrows ==
    ASSUME NEW c \in Nat, NEW d \in Nat, c <= d, NEW t, NEW u, Remembered(t) \subseteq Remembered(u)
    PROVE  Graded(c, t) <= Graded(d, u)
<1>1. \A n \in 1 .. 4 : SignalsFor[n] \in Nat
  BY TunablesAssumption DEF SignalsFor
<1>2. ASSUME NEW n \in 1 .. 4, c >= SignalsFor[n]
      PROVE  d >= SignalsFor[n]
  BY <1>1, <1>2
<1>3. Grades(c, t) \subseteq Grades(d, u)
  BY <1>2 DEF Grades
<1> QED
  BY <1>3, GradedIs

\* Taking a signal never lowers the severity of an incident.
LEMMA ApplyNoLower ==
    ASSUME NEW n, NEW t, NEW i \in Incident, Coherent(i, n, t), NEW s \in Signals,
           MaxSignals >= CriticalAt
    PROVE  Apply(i, s).severity >= i.severity
<1> DEFINE a == Longer(i, s)
           l == KeepNewest(a)
           q == Len(i.timeline)
<1>1. Apply(i, s).severity = Graded(i.count + 1, l) /\ i.severity = Graded(i.count, i.timeline)
  <2>1. Apply(i, s) =
            [id |-> i.id, type |-> i.type, hosts |-> i.hosts \cup Named(s.host),
             contexts |-> i.contexts \cup {s.context}, last |-> s.time,
             count |-> i.count + 1, timeline |-> l, severity |-> Graded(i.count + 1, l)]
    BY ApplyIs DEF Longer
  <2> HIDE DEF l
  <2> QED
    BY <2>1 DEF Coherent
<1>2. /\ Len(a) = q + 1 /\ q \in Nat /\ a \in Seq(Entries)
      /\ \A k \in 1 .. q : a[k] = i.timeline[k]
  BY LongerIs
<1>3. PICK m : Ends(l, MaxSignals, a, m)
  BY LongerIs
<1>4. i.count \in Nat /\ q = IF i.count <= MaxSignals THEN i.count ELSE MaxSignals
  BY DEF Coherent, Incident
<1>5. /\ MaxSignals \in Nat /\ MaxSignals >= 2 /\ CriticalAt \in Nat /\ MinSeverity \in Severity
  BY TunablesAssumption
<1>6. DOMAIN i.timeline = 1 .. q
  <2>1. i.timeline \in Seq(Entries)
    BY DEF Incident
  <2> QED
    BY <2>1, LenProperties
<1> HIDE DEF a, l, q
<1>7. CASE i.count + 1 <= MaxSignals
  <2>10. /\ m = (IF Len(a) <= MaxSignals THEN 0 ELSE Len(a) - MaxSignals)
        /\ Len(l) = Len(a) - m /\ \A k \in 1 .. Len(a) - m : l[k] = a[m + k]
    BY <1>3 DEF Ends
  <2>8. Len(a) <= MaxSignals /\ Len(a) \in Nat
    BY <1>2, <1>4, <1>5, <1>7
  <2>9. m = 0
    BY <2>10, <2>8
  <2>1. m = 0 /\ Len(l) = Len(a) /\ \A k \in 1 .. Len(a) : l[k] = a[k]
    BY <2>10, <2>8, <2>9
  <2>2. l = SubSeq(a, m + 1, Len(a))
    BY <1>3 DEF Ends
  <2>3. l \in Seq(Entries)
    <3>1. \A k \in 1 .. Len(a) : a[k] \in Entries
      BY <1>2, ElementOfSeq, LenProperties
    <3> QED
      BY <1>2, <2>1, <2>2, <3>1, SubSeqProperties
  <2>4. DOMAIN l = 1 .. Len(a) /\ \A k \in 1 .. Len(a) : l[k].severity \in Severity
    <3>1. DOMAIN l = 1 .. Len(a) /\ \A k \in 1 .. Len(a) : l[k] \in Entries
      BY <2>1, <2>3, ElementOfSeq, LenProperties
    <3> QED
      BY <3>1 DEF Entries
  <2>5. Remembered(i.timeline) \subseteq Remembered(l)
    <3>1. \A k \in 1 .. q : k \in 1 .. Len(a) /\ l[k] = i.timeline[k]
      BY <1>2, <2>1
    <3> QED
      BY <1>6, <2>4, <3>1 DEF Remembered
  <2>6. Graded(i.count, i.timeline) <= Graded(i.count + 1, l)
    BY <1>4, <2>5, GradedGrows
  <2>7. Graded(i.count, i.timeline) \in Severity /\ Graded(i.count + 1, l) \in Severity
    BY GradedShape
  <2> QED
    BY <1>1, <2>6, <2>7 DEF Severity
<1>8. CASE ~ i.count + 1 <= MaxSignals
  <2>1. i.count + 1 >= CriticalAt
    BY <1>4, <1>5, <1>8
  <2>2. Graded(i.count + 1, l) = 4
    <3>1. 4 \in Grades(i.count + 1, l)
      BY <2>1 DEF Grades, SignalsFor
    <3> HIDE DEF Grades
    <3>2. Graded(i.count + 1, l) \in 0 .. 4 /\ 4 <= Graded(i.count + 1, l)
      BY <3>1, GradedIs
    <3> QED
      BY <3>2
  <2>3. Graded(i.count, i.timeline) \in 0 .. 4
    BY GradedShape DEF Severity
  <2> QED
    BY <1>1, <2>2, <2>3
<1> QED
  BY <1>7, <1>8

\* What stays of an incident is graded at least as high.
Continues(is, js) ==
    \A j \in 1 .. Len(is), k \in 1 .. Len(js) :
        is[j].id = js[k].id => js[k].severity >= is[j].severity

\* No incident that is left is graded lower, nor one that takes the place of its like.
LEMMA DrawnContinues ==
    ASSUME NEW is \in Seq(Incident), NEW n, NEW t, Grouped(is, n, t),
           NEW js, NEW e, Drawn(js, is, e)
    PROVE  Continues(is, js)
<1> SUFFICES ASSUME NEW j \in 1 .. Len(is), NEW k \in 1 .. Len(js), is[j].id = js[k].id
             PROVE  js[k].severity >= is[j].severity
  BY DEF Continues
<1>1. js[k] = is[e[k]] /\ e[k] \in 1 .. Len(is)
  BY DEF Drawn
<1>2. e[k] = j
  BY <1>1 DEF Grouped, Apart
<1>3. is[j].severity \in 0 .. 4
  <2>1. is[j] \in Incident
    BY ElementOfSeq, LenProperties
  <2> QED
    BY <2>1 DEF Incident, Severity
<1> QED
  BY <1>1, <1>2, <1>3

LEMMA AppendContinues ==
    ASSUME NEW is, NEW js \in Seq(Incident), NEW i \in Incident, Continues(is, js),
           \A j \in 1 .. Len(is) : is[j].id = i.id => i.severity >= is[j].severity
    PROVE  Continues(is, Append(js, i))
<1> DEFINE u == Append(js, i)
<1>1. /\ Len(u) = Len(js) + 1 /\ Len(js) \in Nat /\ u[Len(js) + 1] = i
      /\ \A k \in 1 .. Len(js) : u[k] = js[k]
  BY AppendProperties, LenProperties
<1> HIDE DEF u
<1>2. \A k \in 1 .. Len(u) : k \in 1 .. Len(js) \/ k = Len(js) + 1
  BY <1>1
<1> QED
  BY <1>1, <1>2 DEF Continues, u

\* A signal that joins.
LEMMA JoinGroups ==
    ASSUME IncidentShape, Grouping(created, instant), NEW s \in Signals, s.time = instant,
           Joinable(s) # {}
    PROVE  LET is == Append(RemoveAt(KeptIncidents, JoinedAt(s)),
                            Apply(KeptIncidents[JoinedAt(s)], s))
           IN  /\ Grouped(is, created, instant)
               /\ MaxSignals >= CriticalAt => Continues(incidents, is)
<1> DEFINE K == KeptIncidents
           k == JoinedAt(s)
           i == K[k]
           a == Apply(i, s)
           r == RemoveAt(K, k)
<1>1. K \in Seq(Incident) /\ Grouped(K, created, instant)
  BY KeptShape, KeptGrouped DEF Grouping
<1>2. k \in Joinable(s) /\ k \in 1 .. Len(K)
  BY JoinsOne
<1>3. /\ DOMAIN K = 1 .. Len(K) /\ Joinable(s) = {j \in DOMAIN K : Matches(K[j], s)}
  BY <1>1, LenProperties DEF Joinable
<1>4. instant \in Nat /\ created \in Nat /\ Together \in Nat /\ incidents \in Seq(Incident)
  BY TunablesAssumption DEF IncidentShape
<1>5. \E e : Drawn(K, incidents, e)
  BY KeptGrouped DEF Grouping
<1> HIDE DEF K, k
<1>6. i \in Incident
  BY <1>1, <1>2, ElementOfSeq, LenProperties
<1>7. Coherent(i, created, instant) /\ Matches(i, s)
  BY <1>1, <1>2, <1>3 DEF Grouped
<1>8. /\ i.last + Together >= instant /\ s.host # NoHost /\ s.host \in i.hosts /\ i.type = s.type
  BY <1>7 DEF Matches
<1>9. /\ a \in Incident /\ a.id = i.id /\ a.type = i.type /\ a.last = s.time
  <2> DEFINE l == KeepNewest(Append(i.timeline, Entry(s)))
  <2>1. /\ a \in Incident
        /\ a = [id |-> i.id, type |-> i.type, hosts |-> i.hosts \cup Named(s.host),
                contexts |-> i.contexts \cup {s.context}, last |-> s.time,
                count |-> i.count + 1, timeline |-> l, severity |-> Graded(i.count + 1, l)]
    BY <1>6, ApplyIs
  <2> HIDE DEF a, l
  <2> QED
    BY <2>1
<1>10. Coherent(a, created, instant) /\ a.hosts = i.hosts
  <2> HIDE DEF i
  <2> QED
    BY <1>4, <1>6, <1>7, <1>8, ApplyCoherent
<1>11. /\ r \in Seq(Incident)
       /\ \E e : Drawn(r, K, e) /\ \A j \in 1 .. Len(r) : e[j] # k
  BY <1>1, <1>2, RemovedDrawn
<1>12. PICK e : Drawn(r, K, e) /\ \A j \in 1 .. Len(r) : e[j] # k
  BY <1>11
<1> HIDE DEF r, a
<1>13. Grouped(r, created, instant)
  BY <1>1, <1>12, GroupedDrawn
<1>14. ASSUME NEW j \in 1 .. Len(r)
       PROVE  Apart(r[j], a)
  <2> DEFINE o == r[j]
  <2>1. e[j] \in 1 .. Len(K) /\ o = K[e[j]] /\ e[j] # k
    BY <1>12 DEF Drawn
  <2>2. o \in Incident /\ Coherent(o, created, instant) /\ Apart(o, i)
    BY <1>1, <1>2, <2>1, ElementOfSeq, LenProperties DEF Grouped
  <2>3. ASSUME o.type = a.type, o.hosts \cap a.hosts # {}
        PROVE  o.last + Together < a.last
    <3>1. o.type = s.type /\ o.hosts \cap i.hosts # {}
      BY <1>8, <1>9, <1>10, <2>3
    <3>2. s.host \in o.hosts
      <4>1. PICK h \in Hosts : i.hosts \subseteq {h}
        BY <1>7 DEF Coherent
      <4> QED
        BY <1>8, <3>1, <4>1
    <3>3. /\ o.count >= 2 /\ o.last <= instant /\ o.last \in Nat /\ i.last \in Nat
          /\ i.last <= instant
      BY <1>6, <1>7, <2>2 DEF Coherent, Incident
    <3>4. i.last + Together < o.last \/ o.last + Together < i.last
      BY <1>8, <2>2, <3>1 DEF Apart
    <3>5. o.last + Together < i.last
      BY <1>4, <1>8, <3>3, <3>4
    <3> QED
      BY <1>4, <1>9, <3>3, <3>5
  <2>4. o.id # a.id
    BY <1>9, <2>2 DEF Apart
  <2> QED
    BY <2>3, <2>4 DEF Apart
<1>15. Grouped(Append(r, a), created, instant)
  BY <1>9, <1>10, <1>11, <1>13, <1>14, GroupedAppend
<1>16. ASSUME MaxSignals >= CriticalAt PROVE Continues(incidents, Append(r, a))
  <2>1. PICK f : Drawn(K, incidents, f)
    BY <1>5
  <2>2. Continues(incidents, K)
    BY <1>4, <1>5, DrawnContinues DEF Grouping
  <2>3. Continues(incidents, r)
    BY <1>12, <2>2, SMTT(40) DEF Continues, Drawn
  <2>4. a.severity >= i.severity
    BY <1>6, <1>7, <1>16, ApplyNoLower DEF a
  <2>5. ASSUME NEW j \in 1 .. Len(incidents), incidents[j].id = a.id
        PROVE  a.severity >= incidents[j].severity
    <3>1. incidents[j].severity \in 0 .. 4 /\ a.severity \in 0 .. 4 /\ i.severity \in 0 .. 4
      <4>1. incidents[j] \in Incident
        BY <1>4, ElementOfSeq, LenProperties
      <4> QED
        BY <1>6, <1>9, <4>1 DEF Incident, Severity
    <3>2. i.severity >= incidents[j].severity
      BY <1>2, <1>9, <2>2, <2>5 DEF Continues
    <3> QED
      BY <2>4, <3>1, <3>2
  <2> QED
    BY <1>9, <1>11, <2>3, <2>5, AppendContinues
<1> QED
  BY <1>15, <1>16 DEF K, k, a, r

\* An incident that is opened.
LEMMA MadeCoherent ==
    ASSUME instant \in Nat, created \in Nat, NEW s \in Signals, s.time = instant,
           NEW d, DequeIs(d, s), Len(d) >= 2
    PROVE  LET i == Made(created + 1, d, Len(d))
           IN  /\ Coherent(i, created + 1, instant) /\ i.id = created + 1
               /\ i.last = instant /\ i.type = s.type
               /\ i.hosts = {} \/ (s.host # NoHost /\ i.hosts = {s.host})
<1> DEFINE k == Len(d)
           i == Made(created + 1, d, k)
           line == [j \in 1 .. k |-> Entry(d[j])]
<1>1. /\ d \in Seq(Signals) /\ k \in 1 .. MaxSignals /\ d[k] = s /\ k >= 2 /\ MaxSignals \in Nat
      /\ Together \in Nat
  BY TunablesAssumption DEF DequeIs
<1>2. \A j \in 1 .. k : d[j] \in Signals
  BY <1>1, ElementOfSeq, LenProperties
<1>3. \A j \in 1 .. k : d[j].time \in Nat /\ d[j].host \in Hosts /\ d[j].context \in Contexts
  BY <1>2 DEF Signals
<1>4. \A j \in 1 .. k : /\ PendingKey(d[j]) = PendingKey(s) /\ d[j].time <= instant
                        /\ d[j].time + Together >= instant
  BY DEF DequeIs, Aligned, Recent
<1>5. /\ i.id = created + 1 /\ i.type = d[1].type
      /\ i.hosts = UNION {Named(d[j].host) : j \in 1 .. k}
      /\ i.last = d[k].time /\ i.count = k /\ i.timeline = line /\ i.severity = Graded(k, line)
  <2>1. k \in Nat /\ k # 0
    BY <1>1
  <2> HIDE DEF k
  <2> QED
    BY <2>1 DEF Made
<1> HIDE DEF i, k
<1>6. Len(line) = k /\ \A j \in 1 .. k : line[j].time = d[j].time
  BY <1>1 DEF Entry
<1>7. \A j \in 1 .. k : d[j].host = s.host \/ (d[j].host = NoHost)
  <2> SUFFICES ASSUME NEW j \in 1 .. k, d[j].host # NoHost PROVE d[j].host = s.host
    OBVIOUS
  <2>1. d[j].host = IF s.host # NoHost THEN s.host ELSE s.context
    BY <1>4 DEF PendingKey
  <2>2. d[j].host # s.context
    <3>1. s.context \in Contexts /\ d[j].host \in Hosts
      BY <1>3 DEF Signals
    <3> QED
      BY <3>1, EvidenceAssumption DEF Contexts, Hosts
  <2> QED
    BY <2>1, <2>2
<1>8. i.hosts = Named(s.host)
  <2>1. \A j \in 1 .. k : Named(d[j].host) \subseteq Named(s.host)
    BY <1>7 DEF Named
  <2>2. k \in 1 .. k /\ Named(d[k].host) = Named(s.host)
    BY <1>1
  <2> QED
    BY <1>5, <2>1, <2>2
<1>9. i.hosts = {} \/ (s.host # NoHost /\ i.hosts = {s.host})
  BY <1>8 DEF Named
<1>10. \E h \in Hosts : i.hosts \subseteq {h}
  BY <1>9 DEF Signals
<1>11. i.type = s.type
  <2>1. 1 \in 1 .. k
    BY <1>1
  <2> QED
    BY <1>4, <1>5, <2>1 DEF PendingKey
<1>12. ASSUME NEW j \in 2 .. k
       PROVE  line[j].time <= line[j - 1].time + Together
  <2>1. j \in 1 .. k /\ j - 1 \in 1 .. k
    BY <1>1
  <2> DEFINE x == d[j].time
             y == d[j - 1].time
  <2>2. x \in Nat /\ y \in Nat /\ x <= instant /\ y + Together >= instant
    BY <1>3, <1>4, <2>1
  <2>3. line[j].time = x /\ line[j - 1].time = y
    BY <1>6, <2>1
  <2> HIDE DEF x, y, line
  <2> QED
    BY <1>1, <2>2, <2>3
<1>13. Coherent(i, created + 1, instant)
  <2>1. i.last = line[Len(line)].time /\ i.last = instant
    BY <1>1, <1>5, <1>6
  <2> HIDE DEF line
  <2>2. /\ i.count >= 2 /\ i.id <= created + 1
        /\ Len(line) = IF i.count <= MaxSignals THEN i.count ELSE MaxSignals
    BY <1>1, <1>5, <1>6
  <2>3. i.last <= instant
    BY <2>1
  <2>4. \A j \in 2 .. Len(line) : line[j].time <= line[j - 1].time + Together
    BY <1>6, <1>12
  <2>5. i.timeline = line /\ i.severity = Graded(i.count, line)
    BY <1>5
  <2> QED
    BY <1>10, <2>1, <2>2, <2>3, <2>4, <2>5 DEF Coherent
<1> QED
  BY <1>1, <1>5, <1>9, <1>11, <1>13 DEF i, k

\* A new incident is apart from all others: otherwise the signal would have joined.
LEMMA OpenGroups ==
    ASSUME IncidentShape, Grouping(created, instant), NEW s \in Signals, s.time = instant,
           Joinable(s) = {}, Len(Deque(s)) >= 2
    PROVE  /\ Grouped(Append(Room, Opened(Deque(s))), created + 1, instant)
           /\ Continues(incidents, Append(Room, Opened(Deque(s))))
<1> DEFINE K == KeptIncidents
           d == Deque(s)
           i == Opened(d)
<1>1. K \in Seq(Incident) /\ Grouped(K, created, instant) /\ \E e : Drawn(K, incidents, e)
  BY KeptShape, KeptGrouped DEF Grouping
<1>2. Joinable(s) = {j \in DOMAIN K : Matches(K[j], s)} /\ DOMAIN K = 1 .. Len(K)
  BY <1>1, LenProperties DEF Joinable
<1>3. instant \in Nat /\ created \in Nat /\ Together \in Nat /\ incidents \in Seq(Incident)
  BY TunablesAssumption DEF IncidentShape
<1>4. DequeIs(d, s)
  BY DequeAligned DEF Grouping
<1>5. i = Made(created + 1, d, Len(d)) /\ i \in Incident
  BY <1>3, <1>4, OpenedIs DEF DequeIs
<1>6. /\ Coherent(i, created + 1, instant) /\ i.id = created + 1
      /\ i.last = instant /\ i.type = s.type
      /\ i.hosts = {} \/ (s.host # NoHost /\ i.hosts = {s.host})
  <2> HIDE DEF d, i
  <2>1. Len(d) >= 2
    BY DEF d
  <2> QED
    BY <1>3, <1>4, <1>5, <2>1, MadeCoherent
<1>7. Room \in Seq(Incident) /\ \E e : Drawn(Room, K, e)
  <2>1. MaxOpen - 1 \in Nat
    BY TunablesAssumption
  <2> DEFINE n == MaxOpen - 1
  <2>2. Room \in Seq(Incident) /\ \E m : Ends(Room, n, K, m)
    BY RoomIs
  <2> HIDE DEF K, n
  <2> QED
    BY <1>1, <2>1, <2>2, EndsDrawn DEF n
<1>8. PICK e : Drawn(Room, K, e)
  BY <1>7
<1> HIDE DEF K, d, i
<1>9. Grouped(Room, created, instant)
  BY <1>1, <1>8, GroupedDrawn
<1>10. Grouped(Room, created + 1, instant)
  <2> DEFINE n == created + 1
  <2>1. n \in Nat /\ created <= n /\ instant <= instant
    BY <1>3
  <2> HIDE DEF n
  <2>2. Grouped(Room, n, instant)
    BY <1>3, <1>7, <1>9, <2>1, GroupedLater
  <2> QED
    BY <2>2 DEF n
<1>11. ASSUME NEW j \in 1 .. Len(Room)
       PROVE  Apart(Room[j], i)
  <2> DEFINE o == Room[j]
  <2>1. e[j] \in 1 .. Len(K) /\ o = K[e[j]]
    BY <1>8 DEF Drawn
  <2>2. o \in Incident /\ Coherent(o, created, instant)
    BY <1>1, <2>1, ElementOfSeq, LenProperties DEF Grouped
  <2>3. ~ Matches(o, s)
    BY <1>2, <2>1
  <2>4. o.id # i.id
    BY <1>3, <1>6, <2>2 DEF Coherent, Incident
  <2>5. ASSUME o.type = i.type, o.hosts \cap i.hosts # {}
        PROVE  o.last + Together < i.last
    <3>1. o.type = s.type /\ s.host # NoHost /\ s.host \in o.hosts /\ o.count >= 2
          /\ o.last \in Nat
      BY <1>6, <2>2, <2>5 DEF Coherent, Incident
    <3>2. ~ o.last + Together >= s.time
      BY <2>3, <3>1 DEF Matches, Enough
    <3> QED
      BY <1>3, <1>6, <3>1, <3>2, SMTT(40)
  <2> QED
    BY <2>4, <2>5 DEF Apart
<1>12. Grouped(Append(Room, i), created + 1, instant)
  <2> DEFINE n == created + 1
  <2> HIDE DEF n
  <2>1. Grouped(Append(Room, i), n, instant)
    BY <1>5, <1>6, <1>7, <1>10, <1>11, GroupedAppend DEF n
  <2> QED
    BY <2>1 DEF n
<1>13. Continues(incidents, Room)
  <2>1. Continues(incidents, K)
    BY <1>1, <1>3, DrawnContinues DEF Grouping
  <2> QED
    BY <1>8, <2>1, ZenonT(60) DEF Continues, Drawn
<1>14. ASSUME NEW j \in 1 .. Len(incidents) PROVE incidents[j].id # i.id
  <2>1. incidents[j] \in Incident /\ Coherent(incidents[j], created, instant)
    BY <1>3, ElementOfSeq, LenProperties DEF Grouping, Grouped
  <2>2. incidents[j].id \in Nat /\ incidents[j].id <= created
    BY <2>1 DEF Coherent, Incident
  <2> QED
    BY <1>3, <1>6, <2>2
<1>15. Continues(incidents, Append(Room, i))
  BY <1>5, <1>7, <1>13, <1>14, AppendContinues
<1> QED
  BY <1>12, <1>15 DEF i, d

-----------------------------------------------------------------------------
(* The theorems about incidents *)

\* The inductive invariant.
IncidentInv == Counted /\ Grouping(created, instant)
NoLower == MaxSignals >= CriticalAt => Continues(incidents, incidents')

\* Every step keeps the incidents grouped and lowers no severity.
LEMMA IngestGroups ==
    ASSUME IncidentInv, NEW w \in Correlators, Ingest(w)
    PROVE  Grouping(created, instant)' /\ NoLower
<1> DEFINE s == Arrives(todo[w][1])
           d == Deque(s)
<1>1. todo[w] # << >> /\ (Join(w, s) \/ Wait(w, s) \/ Open(w, s))
  BY DEF Ingest
<1>2. s \in Signals /\ s.time = instant /\ IncidentShape /\ Grouping(created, instant)
  BY <1>1, ArrivesShape DEF IncidentInv, Counted
<1>3. AllAligned(pending, instant) /\ AllAligned(KeptPending, instant)
  BY <1>2, KeptAligned DEF Grouping
<1> HIDE DEF s
<1>4. /\ AllAligned(OthersKept(s), instant) /\ OthersKept(s) \in Seq(Waiters)
      /\ DequeIs(d, s) /\ PendingKey(s) \in Kind \X (Hosts \cup Contexts)
  BY <1>2, <1>3, OthersAligned, DequeAligned, DequeShape
<1>5. CASE Join(w, s)
  <2> DEFINE is == Append(RemoveAt(KeptIncidents, JoinedAt(s)),
                          Apply(KeptIncidents[JoinedAt(s)], s))
  <2>1. /\ Joinable(s) # {} /\ incidents' = is /\ pending' = KeptPending
        /\ created' = created /\ instant' = instant
    BY <1>5 DEF Join, JoinedAt
  <2>2. /\ Grouped(is, created, instant)
        /\ MaxSignals >= CriticalAt => Continues(incidents, is)
    BY <1>2, <2>1, JoinGroups
  <2> HIDE DEF is
  <2> QED
    BY <1>3, <2>1, <2>2 DEF Grouping, NoLower
<1>6. CASE Wait(w, s)
  <2> DEFINE p == [key |-> PendingKey(s), signals |-> d]
  <2>1. /\ incidents' = KeptIncidents /\ pending' = Append(OthersKept(s), p)
        /\ created' = created /\ instant' = instant
    BY <1>6 DEF Wait
  <2>2. p \in Waiters /\ Aligned(p, instant)
    BY <1>4 DEF Waiters, DequeIs
  <2> HIDE DEF p
  <2>3. AllAligned(pending', instant)
    BY <1>4, <2>1, <2>2, AlignedAppend
  <2>4. Grouped(KeptIncidents, created, instant) /\ \E e : Drawn(KeptIncidents, incidents, e)
    BY <1>2, KeptGrouped DEF Grouping
  <2>5. Continues(incidents, KeptIncidents)
    BY <1>2, <2>4, DrawnContinues DEF Grouping, IncidentShape
  <2> QED
    BY <2>1, <2>3, <2>4, <2>5 DEF Grouping, NoLower
<1>7. CASE Open(w, s)
  <2> DEFINE p == [key |-> PendingKey(s), signals |-> << >>]
             is == Append(Room, Opened(d))
  <2>1. /\ incidents' = is /\ pending' = Append(OthersKept(s), p) /\ Joinable(s) = {}
        /\ created' = created + 1 /\ instant' = instant /\ Len(d) >= 2
    BY <1>7 DEF Open, Room, Emptied, ReachesThreshold
  <2>2. p \in Waiters /\ Aligned(p, instant)
    <3>1. << >> \in Seq(Signals) /\ Len(<< >>) = 0
      OBVIOUS
    <3> QED
      BY <1>4, <3>1 DEF Waiters, Aligned
  <2> HIDE DEF p
  <2>3. AllAligned(pending', instant)
    BY <1>4, <2>1, <2>2, AlignedAppend
  <2>4. Grouped(is, created + 1, instant) /\ Continues(incidents, is)
    BY <1>2, <2>1, OpenGroups
  <2> HIDE DEF is
  <2> QED
    BY <2>1, <2>3, <2>4 DEF Grouping, NoLower
<1> QED
  BY <1>1, <1>5, <1>6, <1>7

LEMMA OtherGroups ==
    ASSUME IncidentInv,
           List \/ Reset \/ Elapse \/ UNCHANGED incidentVars
           \/ \E w \in Correlators, packet \in Evidence : Correlate(w, packet)
    PROVE  Grouping(created, instant)' /\ NoLower
<1>1. /\ IncidentShape /\ Grouped(incidents, created, instant) /\ AllAligned(pending, instant)
      /\ instant \in Nat /\ created \in Nat
      /\ incidents \in Seq(Incident) /\ pending \in Seq(Waiters)
  BY DEF IncidentInv, Counted, Grouping, IncidentShape
<1>2. Continues(incidents, incidents)
  <2> DEFINE e == [k \in 1 .. Len(incidents) |-> k]
  <2>1. Drawn(incidents, incidents, e)
    BY DEF Drawn
  <2> HIDE DEF e
  <2> QED
    BY <1>1, <2>1, DrawnContinues
<1>3. CASE List
  <2>1. /\ incidents' = KeptIncidents /\ pending' = KeptPending
        /\ created' = created /\ instant' = instant
    BY <1>3 DEF List
  <2>2. Grouped(KeptIncidents, created, instant) /\ \E e : Drawn(KeptIncidents, incidents, e)
    BY <1>1, KeptGrouped
  <2>3. Continues(incidents, KeptIncidents)
    BY <1>1, <2>2, DrawnContinues
  <2>4. AllAligned(KeptPending, instant)
    BY <1>1, KeptAligned
  <2> QED
    BY <2>1, <2>2, <2>3, <2>4 DEF Grouping, NoLower
<1>4. CASE Reset
  <2>1. incidents' = << >> /\ pending' = << >> /\ Len(<< >>) = 0
    BY <1>4 DEF Reset
  <2> QED
    BY <2>1 DEF Grouping, Grouped, AllAligned, NoLower, Continues
<1>5. CASE Elapse
  <2> DEFINE t == instant + 1
  <2>1. /\ incidents' = incidents /\ pending' = pending /\ created' = created /\ instant' = t
    BY <1>5 DEF Elapse
  <2>2. t \in Nat /\ instant <= t /\ created <= created
    BY <1>1
  <2> HIDE DEF t
  <2>3. Grouped(incidents, created, t) /\ AllAligned(pending, t)
    BY <1>1, <2>2, GroupedLater, AlignedLater
  <2> QED
    BY <1>2, <2>1, <2>3 DEF Grouping, NoLower
<1>6. CASE UNCHANGED <<incidents, pending, created, instant>>
  BY <1>1, <1>2, <1>6 DEF Grouping, NoLower
<1>7. UNCHANGED incidentVars => UNCHANGED <<incidents, pending, created, instant>>
  BY DEF incidentVars
<1>8. ASSUME NEW w \in Correlators, NEW packet \in Evidence, Correlate(w, packet)
      PROVE  UNCHANGED <<incidents, pending, created, instant>>
  BY <1>8 DEF Correlate
<1> QED
  BY <1>3, <1>4, <1>5, <1>6, <1>7, <1>8

LEMMA NextGroups ==
    ASSUME IncidentInv, [IncidentsNext]_incidentVars
    PROVE  IncidentInv' /\ NoLower
<1>1. Counted'
  BY NextCounted DEF IncidentInv
<1>2. Grouping(created, instant)' /\ NoLower
  BY IngestGroups, OtherGroups DEF IncidentsNext
<1> QED
  BY <1>1, <1>2 DEF IncidentInv

LEMMA IncidentsInitGrouped == IncidentsInit => IncidentInv
<1> SUFFICES ASSUME IncidentsInit PROVE IncidentInv
  OBVIOUS
<1>1. incidents = << >> /\ pending = << >> /\ Len(<< >>) = 0
  BY DEF IncidentsInit
<1>2. Grouping(created, instant)
  BY <1>1 DEF Grouping, Grouped, AllAligned
<1> QED
  BY <1>2, IncidentsInitCounted DEF IncidentInv

LEMMA IncidentInvIsInvariant == IncidentsSpec => []IncidentInv
<1>1. IncidentInv /\ [IncidentsNext]_incidentVars => IncidentInv'
  BY NextGroups
<1> QED
  BY <1>1, IncidentsInitGrouped, PTL DEF IncidentsSpec

\* What the inductive invariant says is what is promised.
LEMMA GroupedSound == IncidentInv => GroupingSound
<1> SUFFICES ASSUME IncidentInv PROVE GroupingSound
  OBVIOUS
<1>1. incidents \in Seq(Incident) /\ Grouped(incidents, created, instant)
  BY DEF IncidentInv, Counted, Grouping, IncidentShape
<1>2. DOMAIN incidents = 1 .. Len(incidents)
      /\ \A k \in DOMAIN incidents :
            incidents[k] \in Incident /\ Coherent(incidents[k], created, instant)
  BY <1>1, LenProperties, ElementOfSeq DEF Grouped
<1>3. RelatedInTime
  BY <1>2 DEF RelatedInTime, Coherent
<1>4. SourcesSeparated
  <2> SUFFICES ASSUME NEW k \in DOMAIN incidents
               PROVE  Cardinality(incidents[k].hosts) <= 1 /\ incidents[k].count >= 2
    BY DEF SourcesSeparated
  <2>1. PICK h \in Hosts : incidents[k].hosts \subseteq {h}
    BY <1>2 DEF Coherent
  <2>2. incidents[k].hosts = {} \/ incidents[k].hosts = {h}
    BY <2>1
  <2>3. Cardinality({}) = 0 /\ Cardinality({h}) = 1
    BY FS_EmptySet, FS_Singleton
  <2>4. Cardinality(incidents[k].hosts) = 0 \/ Cardinality(incidents[k].hosts) = 1
    BY <2>2, <2>3
  <2> QED
    BY <1>2, <2>4 DEF Coherent
<1>5. OnePerSource
  BY <1>1, <1>2 DEF OnePerSource, Grouped, Apart
<1> QED
  BY <1>3, <1>4, <1>5 DEF GroupingSound

\* The signals of an incident are of one source, at least two and each within the window of the
\* one before; two incidents of a source and type are further apart than the window
\* (ingest_signal, _matches, _apply_signal).
THEOREM GroupingIsSound == IncidentsSpec => []GroupingSound
  BY IncidentInvIsInvariant, GroupedSound, PTL

\* No incident is downgraded when its timeline forgets signals, with timelines as long as the
\* critical threshold (_apply_signal, _score).
THEOREM NoIncidentDowngraded == IncidentsSpec => SeverityNeverFalls
<1> DEFINE A == MaxSignals >= CriticalAt =>
                  \A j \in DOMAIN incidents : \A k \in DOMAIN incidents' :
                      incidents[j].id = incidents'[k].id
                      => incidents'[k].severity >= incidents[j].severity
<1>1. ASSUME IncidentInv, IncidentInv', [IncidentsNext]_incidentVars
      PROVE  [A]_incidentVars
  <2>1. NoLower
    BY <1>1, NextGroups
  <2>2. /\ DOMAIN incidents = 1 .. Len(incidents)
        /\ DOMAIN incidents' = 1 .. Len(incidents')
    <3>1. incidents \in Seq(Incident) /\ incidents' \in Seq(Incident)
      BY <1>1 DEF IncidentInv, Counted, IncidentShape
    <3> QED
      BY <3>1, LenProperties
  <2> QED
    BY <2>1, <2>2 DEF NoLower, Continues
<1>2. IncidentsSpec => [][A]_incidentVars
  BY <1>1, IncidentInvIsInvariant, PTL DEF IncidentsSpec
<1> QED
  BY <1>2 DEF SeverityNeverFalls

-----------------------------------------------------------------------------
(* The windows: an engine counts what is due *)

\* A list as it stands in the table: under the key of the packet it is named after.
Slot(p) == [key |-> Key(traffic[p]), list |-> p]
Slots == {Slot(p) : p \in Packets}
Present == {table[k] : k \in DOMAIN table}
\* The samples that may be in a list.
Mates(p) == {q \in 1 .. begun : traffic[q].kind = "counted"
                                /\ Key(traffic[q]) = Key(traffic[p])}

Places == {"idle", "snapshot", "clean", "cap", "measure", "list", "pop", "fetch", "filter",
           "append", "count", "alert", "block"}
Sifting == {"clean", "filter"}
Holding == {"filter", "append", "count"}
Capping == {"cap", "measure", "list", "pop"}

FrameTyped(w) ==
    /\ frame[w].at \in Places
    /\ frame[w].at = "idle" => frame[w].packet = 0
    /\ frame[w].todo \in Seq(Slots) /\ frame[w].i \in Nat \ {0} /\ frame[w].over \in Int
    /\ frame[w].at = "clean" => frame[w].todo # << >> /\ frame[w].list = frame[w].todo[1].list
    /\ frame[w].at \in Holding
       => frame[w].list \in Packets /\ Key(traffic[frame[w].list]) = MyKey(w)
    /\ frame[w].at \in Holding \cup {"fetch"} => Mine(w).kind = "counted"
    /\ frame[w].at = "append" => frame[w].i = 1 /\ frame[w].kept = << >>
    /\ frame[w].at \in Sifting => frame[w].kept \in Seq(Mates(frame[w].list))
    /\ frame[w].at \in Capping => engine = "application"
    /\ frame[w].at = "filter" => engine # "flood"

WindowShape ==
    /\ engine \in {"flood", "syn", "application"} /\ engine \in Engines
    /\ now \in 0 .. Duration /\ begun \in 0 .. Len(traffic) /\ capped \in BOOLEAN
    /\ table \in Seq(Slots)
    /\ DOMAIN content = Packets /\ \A p \in Packets : content[p] \in Seq(Mates(p))
    /\ clock \in [Packets -> 0 .. now]
    /\ counted \in [Packets -> SUBSET Packets]
    /\ \A w \in Workers : FrameTyped(w)
    /\ Len(recent) <= MaxTracked

\* No key is twice in the table, or in what a worker still has to clean.
Once(entries) == \A j, k \in DOMAIN entries : entries[j].key = entries[k].key => j = k
KeysOnce == Once(table) /\ \A w \in Workers : frame[w].at = "clean" => Once(frame[w].todo)

PacketsApart == \A v, w \in Workers :
    v # w /\ frame[v].at # "idle" /\ frame[w].at # "idle" => frame[v].packet # frame[w].packet

ClocksInOrder == \A p, q \in 1 .. begun : p <= q => clock[p] <= clock[q]
Met ==
    /\ \A p \in Packets : p \in ran[p] /\ (p > begun => ran[p] = {p})
    /\ \A p \in 1 .. begun : ran[p] \subseteq 1 .. begun
    /\ \A w \in Workers : frame[w].at # "idle" =>
        \A x \in frame[w].packet + 1 .. begun : x \in ran[frame[w].packet]
                                                /\ frame[w].packet \in ran[x]

Before == {"snapshot", "clean", "cap", "measure", "list", "pop", "fetch"}
Unmade(p) == p > begun \/ \E w \in Workers : frame[w].packet = p /\ frame[w].at \in Before
NewListsEmpty ==
    \A p \in Packets : Unmade(p) =>
        /\ content[p] = << >> /\ \A e \in Present : e.list # p
        /\ \A w \in Workers : frame[w].list # p
                              /\ \A k \in DOMAIN frame[w].todo : frame[w].todo[k].list # p

Excused(q, p) == \E r \in ran[p] : clock[q] + Window >= clock[r]
ListExcused(l, p) == \A k \in DOMAIN content[l] : Excused(content[l][k], p)
Excusing(w) ==
    /\ frame[w].at = "clean" => \A e \in Present :
        \/ \E k \in DOMAIN frame[w].todo : frame[w].todo[k].list = e.list
        \/ ListExcused(e.list, frame[w].packet)
    /\ frame[w].at \in Capping \cup {"fetch"} =>
        \A e \in Present : ListExcused(e.list, frame[w].packet)
    /\ frame[w].at \in Holding => ListExcused(frame[w].list, frame[w].packet)
    /\ frame[w].at \in Sifting => \A k \in DOMAIN frame[w].kept : Fresh(w, frame[w].kept[k])
Excuses == \A w \in Workers : Excusing(w)
CountsOwn == \A p \in Packets : \A q \in counted[p] :
    p <= begun /\ q \in Mates(p) /\ (q <= p \/ q \in ran[p])

Adders == {w \in Workers : frame[w].at = "fetch"}
Measured == {w \in Workers : frame[w].at \in {"list", "pop"}}
Staying(w) == {e \in Present : \A k \in DOMAIN frame[w].todo : e.key # frame[w].todo[k].key}
Vacant == MaxKeys + Cardinality(Workers) - Cardinality(Adders)
Claim(w, n) ==
    /\ frame[w].at = "list" => \/ frame[w].over < 0 /\ -frame[w].over <= MaxKeys
                               \/ frame[w].over >= 0 /\ Len(table) - frame[w].over <= Vacant - n
    /\ frame[w].at = "pop" => Cardinality(Staying(w)) <= Vacant - n
Ranked(rank) ==
    /\ \A v, w \in Measured : v # w => rank[v] # rank[w]
    /\ \A w \in Measured : Claim(w, rank[w])
Limited == engine = "application" =>
    /\ Len(table) <= Vacant
    /\ \E rank \in [Measured -> 1 .. Cardinality(Measured)] : Ranked(rank)
Sized == Len(table) = Cardinality(Present)

\* Nobody overlapped from packet q on; a worker at work that no packet overlaps is the only one.
Undisturbed(q) == \A x \in q .. begun : ran[x] = {x}
Alone(w) == frame[w].at # "idle" /\ ran[begun] = {begun}
\* What such a worker has still to clean, and the list it holds, are in the table, and it drops
\* nothing that is fresh.
Tidy(w) ==
    /\ frame[w].at = "clean" => \A k \in DOMAIN frame[w].todo : frame[w].todo[k] \in Present
    /\ frame[w].at \in Holding => Slot(frame[w].list) \in Present
    /\ frame[w].at \in Sifting =>
        \A j \in DOMAIN content[frame[w].list] :
            j < frame[w].i /\ Fresh(w, content[frame[w].list][j])
            => \E k \in DOMAIN frame[w].kept : frame[w].kept[k] = content[frame[w].list][j]
Undisturbing == \A w \in Workers : Alone(w) => Tidy(w)
\* The worker has entered its packet in the window.
Counting(w) == frame[w].at \in {"count", "alert", "block"}
                               \cup (IF engine = "syn" THEN {"filter"} ELSE {})
Entered(q) == \A w \in Workers : frame[w].packet = q => Counting(w)
\* A sample that is due stays in the table, and is counted.
Retained ==
    ~capped => \A q \in 1 .. begun :
        /\ traffic[q].kind = "counted" /\ Undisturbed(q) /\ Entered(q)
        /\ clock[q] + Window >= clock[begun]
        => \E e \in Present : /\ e.key = Key(traffic[q])
                              /\ \E k \in DOMAIN content[e.list] : content[e.list][k] = q
Unshared(p) == \A q \in 1 .. p : (\E d \in Due(p) : d <= q) => ran[q] = {q}
Judged(p) == \A w \in Workers : frame[w].packet = p => frame[w].at \in {"alert", "block"}
Complete ==
    ~capped => \A p \in 1 .. begun :
        traffic[p].kind = "counted" /\ Judged(p) /\ Unshared(p) => Due(p) \subseteq counted[p]

-----------------------------------------------------------------------------
(* What the steps of a worker do to its frame *)

Keeps(w) == \A v \in Workers : v # w => frame'[v] = frame[v]
Hand(w, at, tasks, list, i, kept, over) ==
    /\ frame'[w].at = at /\ frame'[w].packet = frame[w].packet /\ frame'[w].todo = tasks
    /\ frame'[w].list = list /\ frame'[w].i = i /\ frame'[w].kept = kept
    /\ frame'[w].over = over /\ Keeps(w)
Enters(w, step) == Hand(w, step, << >>, 0, 1, << >>, 0)
Leaves(w) == /\ frame'[w].at = "idle" /\ frame'[w].packet = 0 /\ frame'[w].todo = << >>
             /\ frame'[w].list = 0 /\ frame'[w].i = 1 /\ frame'[w].kept = << >>
             /\ frame'[w].over = 0 /\ Keeps(w)
Visits(w) == \/ Mine(w).kind = "counted" /\ Enters(w, "fetch")
             \/ Mine(w).kind = "alert" /\ Enters(w, "alert")
             \/ Mine(w).kind = "other" /\ Leaves(w)
Cleans(w, entries) == /\ entries # << >>
                      /\ Hand(w, "clean", entries, entries[1].list, 1, << >>, frame[w].over)
Onward(w, entries) == \/ Cleans(w, entries)
                      \/ entries = << >> /\ engine = "application" /\ Enters(w, "cap")
                      \/ entries = << >> /\ engine # "application" /\ Visits(w)
\* The steps of an analysis change none of these.
Steady == UNCHANGED <<traffic, engine, now, begun, clock, ran>>
Stands == UNCHANGED <<table, content, counted, capped>>

\* A step as a relation between the frames before and after. A worker that is done.
LEMMA FinishDoes ==
    ASSUME Shape, NEW w \in Workers, Finish(w) PROVE Leaves(w)
  BY DEF Finish, Shape, Idle, Leaves, Keeps, Fields

\* A worker that enters another part of the analysis.
LEMMA EnterDoes ==
    ASSUME Shape, NEW w \in Workers, NEW step, Enter(w, step) PROVE Enters(w, step)
  BY DEF Enter, Shape, Idle, Enters, Hand, Keeps, Fields

\* A worker that comes to its packet.
LEMMA VisitDoes ==
    ASSUME Shape, NEW w \in Workers, frame[w].at # "idle", Visit(w) PROVE Visits(w)
<1>1. Mine(w).kind \in Kinds
  BY TrafficsAssumption DEF Mine, Shape, Packets
<1>2. CASE Mine(w).kind = "counted"
  BY <1>2, EnterDoes DEF Visit, Visits
<1>3. CASE Mine(w).kind = "alert"
  BY <1>3, EnterDoes DEF Visit, Visits
<1>4. CASE Mine(w).kind = "other"
  BY <1>4, FinishDoes DEF Visit, Visits
<1> QED
  BY <1>1, <1>2, <1>3, <1>4 DEF Kinds

\* A worker that turns to the next key it has to clean.
LEMMA CleanDoes ==
    ASSUME Shape, NEW w \in Workers, frame[w].at # "idle", NEW entries, Clean(w, entries)
    PROVE  Onward(w, entries)
<1>1. CASE entries # << >>
  <2>1. frame' = [frame EXCEPT ![w].at = "clean", ![w].todo = entries, ![w].i = 1,
                               ![w].kept = << >>, ![w].list = entries[1].list]
    BY <1>1 DEF Clean
  <2>2. Hand(w, "clean", entries, entries[1].list, 1, << >>, frame[w].over)
    BY <2>1 DEF Shape, Hand, Keeps, Fields
  <2> QED
    BY <1>1, <2>2 DEF Onward, Cleans
<1>2. CASE entries = << >> /\ engine = "application"
  <2>1. Enter(w, "cap")
    BY <1>2 DEF Clean
  <2> QED
    BY <1>2, <2>1, EnterDoes DEF Onward
<1>3. CASE entries = << >> /\ engine # "application"
  <2>1. Visit(w)
    BY <1>3 DEF Clean
  <2> QED
    BY <1>3, <2>1, VisitDoes DEF Onward
<1> QED
  BY <1>1, <1>2, <1>3

\* The actions, one by one: the snapshot of the keys to clean.
LEMMA SnapshotDoes ==
    ASSUME Shape, NEW w \in Workers, Snapshot(w)
    PROVE  /\ frame[w].at = "snapshot" /\ Onward(w, table) /\ Steady /\ Stands
           /\ UNCHANGED recent
  BY CleanDoes DEF Snapshot, Steady, Stands, windows, history, blocking

\* One sample of a list: kept if it is fresh.
LEMMA SiftDoes ==
    ASSUME Shape, NEW w \in Workers, Sift(w)
    PROVE  LET f == frame[w]
               q == content[f.list][f.i]
           IN  /\ f.at \in Sifting /\ f.i <= Len(content[f.list]) /\ Steady /\ Stands
               /\ Hand(w, f.at, f.todo, f.list, f.i + 1,
                       IF Fresh(w, q) THEN Append(f.kept, q) ELSE f.kept, f.over)
               /\ UNCHANGED recent
<1> DEFINE q == content[frame[w].list][frame[w].i]
           k == IF Fresh(w, q) THEN Append(frame[w].kept, q) ELSE frame[w].kept
<1>1. frame' = [frame EXCEPT ![w].i = @ + 1, ![w].kept = k]
  BY DEF Sift
<1> HIDE DEF k
<1>2. Hand(w, frame[w].at, frame[w].todo, frame[w].list, frame[w].i + 1, k, frame[w].over)
  BY <1>1 DEF Shape, Hand, Keeps, Fields
<1>3. /\ frame[w].at \in Sifting /\ frame[w].i <= Len(content[frame[w].list])
      /\ Steady /\ Stands /\ UNCHANGED recent
  BY DEF Sift, Sifting, Steady, Stands, windows, history, blocking
<1> QED
  BY <1>2, <1>3 DEF k

\* The end of a list: the key stays, or goes with an empty list.
LEMMA CleanedDoes ==
    ASSUME Shape, NEW w \in Workers, Cleaned(w)
    PROVE  LET f == frame[w]
               key == f.todo[1].key
           IN  /\ f.at = "clean" /\ f.i > Len(content[f.list]) /\ Steady
               /\ UNCHANGED <<recent, counted, capped>>
               /\ content' = [content EXCEPT ![f.list] = f.kept]
               /\ \/ f.kept # << >> /\ table' = table /\ Onward(w, Tail(f.todo))
                  \/ /\ f.kept = << >> /\ table' = Without(key)
                     /\ \/ Onward(w, Tail(f.todo))
                        \/ /\ At(key) = 0
                           /\ \/ Mine(w).kind = "alert" /\ Enters(w, "alert")
                              \/ Leaves(w)
<1> DEFINE key == frame[w].todo[1].key
<1>1. /\ frame[w].at = "clean" /\ frame[w].i > Len(content[frame[w].list]) /\ Steady
      /\ UNCHANGED <<recent, counted, capped>>
      /\ content' = [content EXCEPT ![frame[w].list] = frame[w].kept]
  BY DEF Cleaned, Sifted, Store, Steady, history, blocking
<1>2. CASE frame[w].kept # << >>
  <2>1. Clean(w, Tail(frame[w].todo)) /\ UNCHANGED table
    BY <1>2 DEF Cleaned
  <2> QED
    BY <1>1, <1>2, <2>1, CleanDoes
<1>3. CASE frame[w].kept = << >>
  <2>1. /\ table' = Without(key)
        /\ IF At(key) # 0 \/ engine = "application" THEN Clean(w, Tail(frame[w].todo))
           ELSE IF Mine(w).kind = "alert" THEN Enter(w, "alert") ELSE Finish(w)
    BY <1>3 DEF Cleaned
  <2>2. CASE At(key) # 0 \/ engine = "application"
    <3>1. Onward(w, Tail(frame[w].todo))
      BY <1>1, <2>1, <2>2, CleanDoes
    <3> QED
      BY <1>1, <1>3, <2>1, <3>1
  <2>3. CASE ~ (At(key) # 0 \/ engine = "application")
    <3>1. \/ Mine(w).kind = "alert" /\ Enters(w, "alert")
          \/ Leaves(w)
      BY <2>1, <2>3, EnterDoes, FinishDoes
    <3> QED
      BY <1>1, <1>3, <2>1, <2>3, <3>1
  <2> QED
    BY <2>2, <2>3
<1> QED
  BY <1>2, <1>3

\* The test of the limit on keys.
LEMMA CapTestDoes ==
    ASSUME Shape, NEW w \in Workers, CapTest(w)
    PROVE  LET f == frame[w] IN
           /\ f.at = "cap" /\ Steady /\ Stands /\ UNCHANGED recent
           /\ \/ Hand(w, "measure", f.todo, f.list, f.i, f.kept, f.over)
              \/ ~ OverLimit > 0 /\ Visits(w)
<1>1. frame[w].at = "cap" /\ Steady /\ Stands /\ UNCHANGED recent
  BY DEF CapTest, Steady, Stands, windows, history, blocking
<1>2. CASE OverLimit > 0
  BY <1>1, <1>2 DEF CapTest, Goto, Shape, Hand, Keeps, Fields
<1>3. CASE ~ OverLimit > 0
  BY <1>1, <1>3, VisitDoes DEF CapTest
<1> QED
  BY <1>2, <1>3

\* How far the table is over its limit.
LEMMA CapMeasureDoes ==
    ASSUME Shape, NEW w \in Workers, CapMeasure(w)
    PROVE  LET f == frame[w] IN
           /\ f.at = "measure" /\ Steady /\ Stands /\ UNCHANGED recent
           /\ Hand(w, "list", f.todo, f.list, f.i, f.kept, OverLimit)
<1>1. frame[w].at = "measure" /\ Steady /\ Stands /\ UNCHANGED recent
  BY DEF CapMeasure, Steady, Stands, windows, history, blocking
<1>2. frame' = [frame EXCEPT ![w].at = "list", ![w].over = OverLimit]
  BY DEF CapMeasure
<1>3. Hand(w, "list", frame[w].todo, frame[w].list, frame[w].i, frame[w].kept, OverLimit)
  BY <1>2 DEF Shape, Hand, Keeps, Fields
<1> QED
  BY <1>1, <1>3

\* How far CapList goes.
LastListed(over) == IF over < 0 THEN Len(table) + over ELSE Min({over, Len(table)})
\* The keys to drop.
LEMMA CapListDoes ==
    ASSUME Shape, NEW w \in Workers, CapList(w)
    PROVE  LET f == frame[w] IN
           /\ f.at = "list" /\ Steady /\ Stands /\ UNCHANGED recent
           /\ Hand(w, "pop", SubSeq(table, 1, LastListed(f.over)), f.list, f.i, f.kept, f.over)
<1> DEFINE s == SubSeq(table, 1, LastListed(frame[w].over))
<1>1. frame[w].at = "list" /\ Steady /\ Stands /\ UNCHANGED recent
  BY DEF CapList, Steady, Stands, windows, history, blocking
<1>2. frame' = [frame EXCEPT ![w].at = "pop", ![w].todo = s]
  BY DEF CapList, LastListed
<1> HIDE DEF s
<1>3. Hand(w, "pop", s, frame[w].list, frame[w].i, frame[w].kept, frame[w].over)
  BY <1>2 DEF Shape, Hand, Keeps, Fields
<1> QED
  BY <1>1, <1>3 DEF s

\* One key dropped.
LEMMA CapPopDoes ==
    ASSUME Shape, NEW w \in Workers, CapPop(w)
    PROVE  LET f == frame[w] IN
           /\ f.at = "pop" /\ Steady /\ UNCHANGED <<recent, content, counted>>
           /\ \/ f.todo = << >> /\ Visits(w) /\ UNCHANGED <<table, capped>>
              \/ /\ f.todo # << >> /\ table' = Without(f.todo[1].key) /\ capped' = TRUE
                 /\ Hand(w, "pop", Tail(f.todo), f.list, f.i, f.kept, f.over)
<1>1. frame[w].at = "pop" /\ Steady /\ UNCHANGED <<recent, content, counted>>
  BY DEF CapPop, Steady, history, blocking
<1>2. CASE frame[w].todo = << >>
  BY <1>1, <1>2, VisitDoes DEF CapPop
<1>3. CASE frame[w].todo # << >>
  <2>1. /\ table' = Without(frame[w].todo[1].key) /\ capped' = TRUE
        /\ frame' = [frame EXCEPT ![w].todo = Tail(@)]
    BY <1>3 DEF CapPop
  <2>2. Hand(w, "pop", Tail(frame[w].todo), frame[w].list, frame[w].i, frame[w].kept,
             frame[w].over)
    BY <1>1, <2>1 DEF Shape, Hand, Keeps, Fields
  <2> QED
    BY <1>1, <1>3, <2>1, <2>2
<1> QED
  BY <1>2, <1>3

\* The list of the packet is found, or made.
LEMMA FetchDoes ==
    ASSUME Shape, NEW w \in Workers, Fetch(w)
    PROVE  LET f == frame[w]
               known == At(MyKey(w))
               next == IF engine = "application" THEN "filter" ELSE "append"
           IN  /\ f.at = "fetch" /\ Steady /\ UNCHANGED <<recent, content, counted, capped>>
               /\ \/ /\ known # 0 /\ table' = table
                     /\ Hand(w, next, f.todo, table[known].list, 1, << >>, f.over)
                  \/ /\ known = 0
                     /\ table' = Append(table, [key |-> MyKey(w), list |-> f.packet])
                     /\ Hand(w, next, f.todo, f.packet, 1, << >>, f.over)
<1> DEFINE known == At(MyKey(w))
           next == IF engine = "application" THEN "filter" ELSE "append"
           mine == IF known # 0 THEN table[known].list ELSE frame[w].packet
<1>1. frame[w].at = "fetch" /\ Steady /\ UNCHANGED <<recent, content, counted, capped>>
  BY DEF Fetch, Steady, history, blocking
<1>2. /\ frame' = [frame EXCEPT ![w].at = next, ![w].list = mine, ![w].i = 1, ![w].kept = << >>]
      /\ table' = IF known # 0 THEN table
                  ELSE Append(table, [key |-> MyKey(w), list |-> frame[w].packet])
  BY DEF Fetch
<1> HIDE DEF known, next, mine
<1>3. Hand(w, next, frame[w].todo, mine, 1, << >>, frame[w].over)
  BY <1>2 DEF Shape, Hand, Keeps, Fields
<1> QED
  BY <1>1, <1>2, <1>3 DEF known, next, mine

\* What was kept replaces the list.
LEMMA FilteredDoes ==
    ASSUME Shape, NEW w \in Workers, Filtered(w)
    PROVE  LET f == frame[w]
               next == IF engine = "application" THEN "append" ELSE "count"
           IN  /\ f.at = "filter" /\ f.i > Len(content[f.list]) /\ Steady
               /\ UNCHANGED <<recent, table, counted, capped>>
               /\ content' = [content EXCEPT ![f.list] = f.kept]
               /\ Hand(w, next, f.todo, f.list, 1, << >>, f.over)
<1> DEFINE next == IF engine = "application" THEN "append" ELSE "count"
<1>1. /\ frame[w].at = "filter" /\ frame[w].i > Len(content[frame[w].list]) /\ Steady
      /\ UNCHANGED <<recent, table, counted, capped>>
      /\ content' = [content EXCEPT ![frame[w].list] = frame[w].kept]
  BY DEF Filtered, Sifted, Store, Steady, history, blocking
<1>2. frame' = [frame EXCEPT ![w].at = next, ![w].i = 1, ![w].kept = << >>]
  BY DEF Filtered
<1> HIDE DEF next
<1>3. Hand(w, next, frame[w].todo, frame[w].list, 1, << >>, frame[w].over)
  BY <1>2 DEF Shape, Hand, Keeps, Fields
<1> QED
  BY <1>1, <1>3 DEF next

\* The packet is appended to the list.
LEMMA AppendDoes ==
    ASSUME Shape, NEW w \in Workers, AppendSample(w)
    PROVE  LET f == frame[w] IN
           /\ f.at = "append" /\ Steady /\ UNCHANGED <<recent, table, counted, capped>>
           /\ content' = [content EXCEPT ![f.list] = Append(@, f.packet)]
           /\ Hand(w, IF engine = "syn" THEN "filter" ELSE "count",
                   f.todo, f.list, f.i, f.kept, f.over)
<1> DEFINE next == IF engine = "syn" THEN "filter" ELSE "count"
<1>1. /\ frame[w].at = "append" /\ Steady /\ UNCHANGED <<recent, table, counted, capped>>
      /\ content' = [content EXCEPT ![frame[w].list] = Append(@, frame[w].packet)]
  BY DEF AppendSample, Steady, history, blocking
<1>2. frame' = [frame EXCEPT ![w].at = next]
  BY DEF AppendSample, Goto
<1> HIDE DEF next
<1>3. Hand(w, next, frame[w].todo, frame[w].list, frame[w].i, frame[w].kept, frame[w].over)
  BY <1>2 DEF Shape, Hand, Keeps, Fields
<1> QED
  BY <1>1, <1>3 DEF next

\* The list is counted.
LEMMA CountDoes ==
    ASSUME Shape, NEW w \in Workers, Count(w)
    PROVE  LET f == frame[w] IN
           /\ f.at = "count" /\ Steady /\ UNCHANGED <<recent, table, content, capped>>
           /\ counted' = [counted EXCEPT ![f.packet] = ToSet(content[f.list])]
           /\ Enters(w, "alert") \/ Leaves(w)
<1>1. /\ frame[w].at = "count" /\ Steady /\ UNCHANGED <<recent, table, content, capped>>
      /\ counted' = [counted EXCEPT ![frame[w].packet] = ToSet(content[frame[w].list])]
  BY DEF Count, Steady, windows, blocking
<1>2. Enters(w, "alert") \/ Leaves(w)
  BY EnterDoes, FinishDoes DEF Count
<1> QED
  BY <1>1, <1>2

\* The steps of auto-block touch no window.
LEMMA BlockDoes ==
    ASSUME Shape, NEW w \in Workers, Consider(w) \/ BlockFails(w) \/ BlockRecorded(w)
    PROVE  /\ frame[w].at \in {"alert", "block"} /\ Steady /\ Stands
           /\ Enters(w, "block") \/ Leaves(w)
<1>1. frame[w].at \in {"alert", "block"} /\ Steady /\ Stands
  BY DEF Consider, BlockFails, BlockRecorded, Steady, Stands, windows, history
<1>2. Enters(w, "block") \/ Leaves(w)
  BY EnterDoes, FinishDoes DEF Consider, BlockFails, BlockRecorded
<1> QED
  BY <1>1, <1>2

\* A worker begins the next packet.
LEMMA BeginDoes ==
    ASSUME Shape, NEW w \in Workers, Begin(w)
    PROVE  LET p == begun + 1
               others == {frame[v].packet : v \in Busy}
           IN  /\ frame[w].at = "idle" /\ p \in Packets /\ begun' = p
               /\ clock' = [clock EXCEPT ![p] = now]
               /\ ran' = [q \in Packets |-> IF q = p THEN {p} \cup others
                                            ELSE IF q \in others THEN ran[q] \cup {p} ELSE ran[q]]
               /\ frame'[w].at = "snapshot" /\ frame'[w].packet = p
               /\ frame'[w].todo = << >> /\ frame'[w].list = 0 /\ frame'[w].i = 1
               /\ frame'[w].kept = << >> /\ frame'[w].over = 0 /\ Keeps(w)
               /\ UNCHANGED <<traffic, engine, now, recent>> /\ Stands
<1> DEFINE p == begun + 1
<1>1. frame' = [frame EXCEPT ![w] = [Idle EXCEPT !.at = "snapshot", !.packet = p]]
  BY DEF Begin
<1>2. /\ frame'[w].at = "snapshot" /\ frame'[w].packet = p
      /\ frame'[w].todo = << >> /\ frame'[w].list = 0 /\ frame'[w].i = 1
      /\ frame'[w].kept = << >> /\ frame'[w].over = 0 /\ Keeps(w)
  BY <1>1 DEF Shape, Idle, Keeps
<1> QED
  BY <1>2 DEF Begin, Stands, windows, blocking

-----------------------------------------------------------------------------
(* The table *)

\* The entry found for a key; what is left without it.
LEMMA AtFinds ==
    ASSUME table \in Seq(Slots), NEW key
    PROVE  /\ At(key) = 0 => \A e \in Present : e.key # key
           /\ At(key) # 0 => /\ At(key) \in DOMAIN table /\ table[At(key)].key = key
                             /\ table[At(key)] \in Present
<1> DEFINE I == {k \in 1 .. Len(table) : table[k].key = key}
<1>1. At(key) = IF I # {} THEN Min(I) ELSE 0
  BY DEF At, SelectInSeq
<1>2. I \subseteq Nat /\ DOMAIN table = 1 .. Len(table) /\ Len(table) \in Nat
  BY LenProperties
<1>3. ASSUME I # {} PROVE Min(I) \in I
  BY <1>2, <1>3, Least DEF Min
<1>4. ASSUME At(key) # 0 PROVE At(key) \in I
  BY <1>1, <1>3, <1>4
<1>5. ASSUME At(key) = 0 PROVE I = {}
  BY <1>1, <1>2, <1>3, <1>5
<1>6. At(key) = 0 => \A e \in Present : e.key # key
  BY <1>2, <1>5 DEF Present
<1>7. At(key) # 0 => At(key) \in 1 .. Len(table) /\ table[At(key)].key = key
  BY <1>4
<1> QED
  BY <1>2, <1>6, <1>7 DEF Present

\* What is left of the table without a key.
LEMMA WithoutIs ==
    ASSUME table \in Seq(Slots), Once(table), NEW key
    PROVE  LET rest == Without(key) IN
           /\ rest \in Seq(Slots) /\ Once(rest)
           /\ {rest[k] : k \in DOMAIN rest} = {e \in Present : e.key # key}
           /\ At(key) = 0 => rest = table
           /\ At(key) # 0 => Len(rest) = Len(table) - 1
<1>1. CASE At(key) = 0
  <2>1. Without(key) = table
    BY <1>1 DEF Without
  <2>2. \A e \in Present : e.key # key
    BY <1>1, AtFinds
  <2> QED
    BY <1>1, <2>1, <2>2 DEF Present
<1>2. CASE At(key) # 0
  <2> DEFINE m == At(key)
             rest == RemoveAt(table, m)
             n == Len(table)
  <2>1. Without(key) = rest
    BY <1>2 DEF Without
  <2>2. m \in DOMAIN table /\ table[m].key = key
    BY <1>2, AtFinds
  <2>3. /\ rest \in Seq(Slots) /\ Len(rest) = n - 1
        /\ \A k \in 1 .. n - 1 : rest[k] = IF k < m THEN table[k] ELSE table[k + 1]
    BY <2>2, Removed
  <2>4. DOMAIN table = 1 .. n /\ DOMAIN rest = 1 .. n - 1 /\ n \in Nat
    BY <2>3, LenProperties
  <2> HIDE DEF m, rest, n
  <2>5. m \in 1 .. n
    BY <2>2, <2>4
  <2> DEFINE from(k) == IF k < m THEN k ELSE k + 1
  <2>6. \A k \in 1 .. n - 1 : from(k) \in 1 .. n /\ from(k) # m /\ rest[k] = table[from(k)]
    BY <2>3, <2>4, <2>5
  <2>7. \A j, k \in 1 .. n - 1 : from(j) = from(k) => j = k
    BY <2>4, <2>5
  <2>8. Once(rest)
    <3> SUFFICES ASSUME NEW j \in 1 .. n - 1, NEW k \in 1 .. n - 1, rest[j].key = rest[k].key
                 PROVE  j = k
      BY <2>4 DEF Once
    <3> HIDE DEF from
    <3>1. table[from(j)].key = table[from(k)].key
      BY <2>6
    <3>2. from(j) = from(k)
      BY <2>4, <2>6, <3>1 DEF Once
    <3> QED
      BY <2>7, <3>2
  <2>9. {rest[k] : k \in DOMAIN rest} \subseteq {e \in Present : e.key # key}
    <3> HIDE DEF from
    <3> SUFFICES ASSUME NEW k \in 1 .. n - 1
                 PROVE  rest[k] \in Present /\ rest[k].key # key
      BY <2>4
    <3>1. rest[k] \in Present
      BY <2>4, <2>6 DEF Present
    <3>2. table[from(k)].key # key
      BY <2>2, <2>4, <2>5, <2>6 DEF Once
    <3> QED
      BY <2>6, <3>1, <3>2
  <2>10. ASSUME NEW e \in Present, e.key # key PROVE \E k \in DOMAIN rest : rest[k] = e
    <3>1. PICK j \in 1 .. n : e = table[j]
      BY <2>4 DEF Present
    <3>2. j # m
      BY <2>2, <2>10, <3>1
    <3>3. CASE j < m
      <4>1. j \in 1 .. n - 1 /\ rest[j] = table[j]
        BY <2>3, <2>4, <2>5, <3>1, <3>3
      <4> QED
        BY <2>4, <3>1, <4>1
    <3>4. CASE ~ j < m
      <4>1. j - 1 \in 1 .. n - 1 /\ ~ j - 1 < m /\ j - 1 + 1 = j
        BY <2>4, <2>5, <3>1, <3>2, <3>4
      <4>2. rest[j - 1] = table[j]
        BY <2>3, <4>1
      <4> QED
        BY <2>4, <3>1, <4>1, <4>2
    <3> QED
      BY <3>3, <3>4
  <2> QED
    BY <1>2, <2>1, <2>3, <2>8, <2>9, <2>10 DEF n, m
<1> QED
  BY <1>1, <1>2

\* An entry of the table is named after its list.
LEMMA SlotIs ==
    ASSUME NEW e \in Slots
    PROVE  e.list \in Packets /\ e = Slot(e.list) /\ e.key = Key(traffic[e.list])
  BY DEF Slots, Slot

\* The entries of the table.
LEMMA PresentSlots ==
    ASSUME table \in Seq(Slots)
    PROVE  Present \subseteq Slots /\ DOMAIN table = 1 .. Len(table) /\ Len(table) \in Nat
<1>1. \A k \in 1 .. Len(table) : table[k] \in Slots
  BY ElementOfSeq
<1> QED
  BY <1>1, LenProperties DEF Present

\* The smaller of two numbers.
LEMMA Smaller ==
    ASSUME NEW m \in Int, NEW n \in Int
    PROVE  Min({m, n}) = IF m <= n THEN m ELSE n
<1> DEFINE k == IF m <= n THEN m ELSE n
<1>1. k \in {m, n} /\ \A y \in {m, n} : k <= y
  OBVIOUS
<1>2. \A x \in {m, n} : (\A y \in {m, n} : x <= y) => x = k
  OBVIOUS
<1> QED
  BY <1>1, <1>2 DEF Min

\* The tail of a sequence.
LEMMA TailIs ==
    ASSUME NEW S, NEW s \in Seq(S), s # << >>
    PROVE  /\ Tail(s) \in Seq(S) /\ Len(Tail(s)) = Len(s) - 1
           /\ DOMAIN Tail(s) = 1 .. Len(s) - 1 /\ DOMAIN s = 1 .. Len(s) /\ Len(s) \in Nat \ {0}
           /\ \A k \in DOMAIN Tail(s) : Tail(s)[k] = s[k + 1] /\ k + 1 \in DOMAIN s
           /\ \A k \in DOMAIN s : k # 1 => k - 1 \in DOMAIN Tail(s)
<1>1. /\ Tail(s) \in Seq(S) /\ Len(Tail(s)) = Len(s) - 1 /\ Len(s) \in Nat \ {0}
      /\ \A k \in 1 .. Len(Tail(s)) : Tail(s)[k] = s[k + 1]
  BY HeadTailProperties, LenProperties, EmptySeq
<1>2. DOMAIN Tail(s) = 1 .. Len(Tail(s)) /\ DOMAIN s = 1 .. Len(s)
  BY <1>1, LenProperties
<1> DEFINE n == Len(s)
           t == Tail(s)
<1> HIDE DEF n, t
<1>3. /\ t \in Seq(S) /\ Len(t) = n - 1 /\ n \in Nat \ {0} /\ DOMAIN t = 1 .. n - 1
      /\ DOMAIN s = 1 .. n /\ \A k \in 1 .. n - 1 : t[k] = s[k + 1]
  BY <1>1, <1>2 DEF n, t
<1>4. \A k \in 1 .. n - 1 : k + 1 \in 1 .. n
  BY <1>3
<1>5. \A k \in 1 .. n : k # 1 => k - 1 \in 1 .. n - 1
  BY <1>3
<1> QED
  BY <1>3, <1>4, <1>5 DEF n, t

\* A sequence with one element more.
LEMMA AppendIs ==
    ASSUME NEW S, NEW s \in Seq(S), NEW x \in S
    PROVE  /\ Append(s, x) \in Seq(S) /\ DOMAIN Append(s, x) = 1 .. Len(s) + 1
           /\ Len(Append(s, x)) = Len(s) + 1
           /\ Len(s) \in Nat /\ DOMAIN s = 1 .. Len(s)
           /\ \A k \in DOMAIN s : k \in DOMAIN Append(s, x) /\ Append(s, x)[k] = s[k]
           /\ Append(s, x)[Len(s) + 1] = x
           /\ \A k \in DOMAIN Append(s, x) : k \in DOMAIN s \/ k = Len(s) + 1
<1>1. /\ Append(s, x) \in Seq(S) /\ Len(Append(s, x)) = Len(s) + 1
      /\ \A k \in 1 .. Len(s) : Append(s, x)[k] = s[k]
      /\ Append(s, x)[Len(s) + 1] = x
  BY AppendProperties
<1>2. DOMAIN Append(s, x) = 1 .. Len(Append(s, x)) /\ DOMAIN s = 1 .. Len(s) /\ Len(s) \in Nat
  BY <1>1, LenProperties
<1> DEFINE n == Len(s)
           t == Append(s, x)
<1> HIDE DEF n, t
<1>3. /\ t \in Seq(S) /\ Len(t) = n + 1 /\ n \in Nat /\ DOMAIN t = 1 .. n + 1 /\ DOMAIN s = 1 .. n
      /\ \A k \in 1 .. n : t[k] = s[k]
      /\ t[n + 1] = x
  BY <1>1, <1>2 DEF n, t
<1>4. \A k \in 1 .. n : k \in 1 .. n + 1
  BY <1>3
<1>5. \A k \in 1 .. n + 1 : k \in 1 .. n \/ k = n + 1
  BY <1>3
<1> QED
  BY <1>3, <1>4, <1>5 DEF n, t

-----------------------------------------------------------------------------
(* Types *)

\* The initial states are well typed.
LEMMA InitShape == Init => WindowShape /\ Shape
<1> SUFFICES ASSUME Init PROVE WindowShape /\ Shape
  OBVIOUS
<1>1. Shape
  BY InitInv DEF IInv
<1>2. Len(traffic) \in Nat /\ DOMAIN traffic = 1 .. Len(traffic) /\ traffic \in Traffics
  BY TrafficsAssumption DEF Init
<1>3. ASSUME NEW w \in Workers PROVE FrameTyped(w)
  <2>1. /\ frame[w].at = "idle" /\ frame[w].packet = 0 /\ frame[w].todo = << >>
        /\ frame[w].i = 1 /\ frame[w].over = 0
    BY DEF Init, Idle
  <2> QED
    BY <2>1, EmptySeq DEF FrameTyped, Places, Sifting, Holding, Capping
<1>4. table \in Seq(Slots) /\ \A p \in Packets : content[p] \in Seq(Mates(p))
  BY EmptySeq DEF Init
<1>5. /\ clock \in [Packets -> 0 .. now] /\ counted \in [Packets -> SUBSET Packets]
      /\ DOMAIN content = Packets
  BY DEF Init
<1>6. engine \in Engines /\ now \in 0 .. Duration /\ begun \in 0 .. Len(traffic)
      /\ capped \in BOOLEAN
  <2>1. engine \in Engines /\ now = 0 /\ begun = 0 /\ capped = FALSE
    BY DEF Init
  <2>2. Duration \in Nat
    BY LimitsAssumption
  <2>3. 0 \in 0 .. Duration /\ 0 \in 0 .. Len(traffic)
    BY <1>2, <2>2
  <2> QED
    BY <2>1, <2>3
<1>7. Len(recent) <= MaxTracked
  <2>1. Len(recent) = 0
    BY EmptySeq DEF Init
  <2> QED
    BY <2>1, LimitsAssumption
<1> QED
  BY <1>1, <1>3, <1>4, <1>5, <1>6, <1>7, EnginesAssumption DEF WindowShape

\* What a step does not change.
LEMMA Lasting ==
    ASSUME UNCHANGED <<traffic, engine>>
    PROVE  /\ Slots' = Slots /\ Packets' = Packets
           /\ \A p : Key(traffic[p])' = Key(traffic[p])
  BY DEF Slots, Slot, Packets, Key
\* The samples that may be in a list stay the same.
LEMMA LastingMates ==
    ASSUME Steady PROVE \A p : Mates(p)' = Mates(p)
  BY DEF Mates, Key, Steady

\* A frame that stays as it is stays typed.
LEMMA StillTyped ==
    ASSUME Steady, NEW w \in Workers, FrameTyped(w), frame'[w] = frame[w]
    PROVE  FrameTyped(w)'
<1>1. /\ Slots' = Slots /\ Packets' = Packets /\ \A p : Key(traffic[p])' = Key(traffic[p])
  BY Lasting DEF Steady
<1>2. Mine(w)' = Mine(w) /\ MyKey(w)' = MyKey(w)
  BY DEF Mine, MyKey, Key, Steady
<1>3. \A p : Mates(p)' = Mates(p)
  BY LastingMates
<1>4. engine' = engine
  BY DEF Steady
<1> QED
  BY <1>1, <1>2, <1>3, <1>4 DEF FrameTyped

\* So does what enters another part, or is over.
LEMMA EntersTyped ==
    ASSUME Steady, NEW w \in Workers, FrameTyped(w), NEW step, Enters(w, step),
           step \in {"cap", "fetch", "alert", "block"},
           step = "cap" => engine = "application",
           step = "fetch" => Mine(w).kind = "counted"
    PROVE  FrameTyped(w)'
<1>1. Mine(w)' = Mine(w)
  BY DEF Mine, Steady, Enters, Hand
<1>2. engine' = engine
  BY DEF Steady
<1> QED
  BY <1>1, <1>2, EmptySeq DEF FrameTyped, Enters, Hand, Places, Sifting, Holding, Capping

\* So does the frame of a worker that is done.
LEMMA LeavesTyped ==
    ASSUME NEW w \in Workers, Leaves(w)
    PROVE  FrameTyped(w)'
  BY EmptySeq DEF FrameTyped, Leaves, Places, Sifting, Holding, Capping

\* So does the frame of one that comes to its packet.
LEMMA VisitsTyped ==
    ASSUME Steady, NEW w \in Workers, FrameTyped(w), Visits(w)
    PROVE  FrameTyped(w)'
  BY EntersTyped, LeavesTyped DEF Visits

\* So does the frame of one that turns to the next key.
LEMMA OnwardTyped ==
    ASSUME Steady, NEW w \in Workers, FrameTyped(w), NEW entries \in Seq(Slots),
           Onward(w, entries)
    PROVE  FrameTyped(w)'
<1>1. CASE Cleans(w, entries)
  <2>1. /\ frame'[w].at = "clean" /\ frame'[w].todo = entries /\ entries # << >>
        /\ frame'[w].list = entries[1].list /\ frame'[w].i = 1 /\ frame'[w].kept = << >>
        /\ frame'[w].over \in Int
    BY <1>1 DEF Cleans, Hand, FrameTyped
  <2>2. Slots' = Slots /\ Packets' = Packets
    BY Lasting DEF Steady
  <2>3. entries[1] \in Slots
    BY <2>1, HeadTailProperties
  <2>4. entries[1].list \in Packets
    BY <2>3, SlotIs
  <2>5. frame'[w].kept \in Seq(Mates(frame[w].list))'
    BY <2>1, EmptySeq
  <2> QED
    BY <2>1, <2>2, <2>4, <2>5 DEF FrameTyped, Places, Sifting, Holding, Capping
<1>2. CASE engine = "application" /\ Enters(w, "cap")
  BY <1>2, EntersTyped
<1>3. CASE Visits(w)
  BY <1>3, VisitsTyped
<1> QED
  BY <1>1, <1>2, <1>3 DEF Onward

\* What remains to be shown of a step inside an analysis.
LEMMA ShapeKept ==
    ASSUME WindowShape, Shape, NEW w \in Workers, Steady, Keeps(w), UNCHANGED recent,
           FrameTyped(w)', capped' \in BOOLEAN, table' \in Seq(Slots),
           DOMAIN content' = Packets, \A p \in Packets : content'[p] \in Seq(Mates(p)),
           counted' \in [Packets -> SUBSET Packets]
    PROVE  WindowShape'
<1>1. \A v \in Workers : FrameTyped(v)'
  BY StillTyped DEF Keeps, WindowShape
<1>2. Slots' = Slots /\ Packets' = Packets
  BY Lasting DEF Steady
<1>3. \A p \in Packets : Mates(p)' = Mates(p)
  BY LastingMates
<1>4. UNCHANGED <<traffic, engine, now, begun, clock>>
  BY DEF Steady
<1> QED
  BY <1>1, <1>2, <1>3, <1>4 DEF WindowShape

\* None of this changes the frame of another worker.
LEMMA KeepsOf ==
    ASSUME NEW w \in Workers
    PROVE  /\ \A step : Enters(w, step) => Keeps(w)
           /\ Leaves(w) => Keeps(w)
           /\ Visits(w) => Keeps(w)
           /\ \A entries : Onward(w, entries) => Keeps(w)
  BY DEF Enters, Leaves, Visits, Onward, Cleans, Hand

\* What is sifted, kept and appended is counted under the key of the list.
LEMMA SiftShape ==
    ASSUME WindowShape, Shape, NEW w \in Workers, Sift(w) PROVE WindowShape'
<1> DEFINE f == frame[w]
           q == content[f.list][f.i]
           k == IF Fresh(w, q) THEN Append(f.kept, q) ELSE f.kept
<1>1. /\ f.at \in Sifting /\ f.i <= Len(content[f.list]) /\ Steady /\ Stands
      /\ Hand(w, f.at, f.todo, f.list, f.i + 1, k, f.over) /\ UNCHANGED recent
  BY SiftDoes
<1>2. FrameTyped(w)
  BY DEF WindowShape
<1>3. f.list \in Packets
  <2>1. CASE f.at = "clean"
    <3>1. f.todo[1] \in Slots /\ f.list = f.todo[1].list
      BY <1>2, <2>1, HeadTailProperties DEF FrameTyped
    <3> QED
      BY <3>1, SlotIs
  <2>2. CASE f.at = "filter"
    BY <1>2, <2>2 DEF FrameTyped, Holding
  <2> QED
    BY <1>1, <2>1, <2>2 DEF Sifting
<1>4. k \in Seq(Mates(f.list))
  <2>1. content[f.list] \in Seq(Mates(f.list)) /\ f.kept \in Seq(Mates(f.list))
    BY <1>1, <1>2, <1>3 DEF WindowShape, FrameTyped
  <2>2. q \in Mates(f.list)
    <3>1. f.i \in 1 .. Len(content[f.list])
      BY <1>1, <1>2, <2>1, LenProperties DEF FrameTyped
    <3> QED
      BY <2>1, <3>1, ElementOfSeq
  <2> QED
    BY <2>1, <2>2, AppendProperties, ZenonT(60)
<1> HIDE DEF k
<1>5. FrameTyped(w)'
  <2>1. /\ frame'[w].at = f.at /\ frame'[w].packet = f.packet /\ frame'[w].todo = f.todo
        /\ frame'[w].list = f.list /\ frame'[w].i = f.i + 1 /\ frame'[w].kept = k
        /\ frame'[w].over = f.over
    BY <1>1 DEF Hand
  <2>2. /\ Slots' = Slots /\ Packets' = Packets /\ \A p : Key(traffic[p])' = Key(traffic[p])
    BY <1>1, Lasting DEF Steady
  <2>3. Mine(w)' = Mine(w) /\ MyKey(w)' = MyKey(w)
    BY <1>1, <2>1 DEF Mine, MyKey, Key, Steady
  <2>4. \A p : Mates(p)' = Mates(p)
    BY <1>1, LastingMates
  <2> QED
    BY <1>1, <1>2, <1>4, <2>1, <2>2, <2>3, <2>4, SMTT(40) DEF FrameTyped, Sifting, Capping, Steady
<1> QED
  BY <1>1, <1>5, ShapeKept DEF WindowShape, Stands, Hand

\* What a filtered list becomes.
LEMMA StoreShape ==
    ASSUME WindowShape, NEW w \in Workers, frame[w].at \in Sifting,
           content' = [content EXCEPT ![frame[w].list] = frame[w].kept]
    PROVE  /\ frame[w].list \in Packets
           /\ DOMAIN content' = Packets /\ \A p \in Packets : content'[p] \in Seq(Mates(p))
<1>1. FrameTyped(w)
  BY DEF WindowShape
<1>2. frame[w].list \in Packets
  <2>1. CASE frame[w].at = "clean"
    <3>1. frame[w].todo[1] \in Slots /\ frame[w].list = frame[w].todo[1].list
      BY <1>1, <2>1, HeadTailProperties DEF FrameTyped
    <3> QED
      BY <3>1, SlotIs
  <2>2. CASE frame[w].at = "filter"
    BY <1>1, <2>2 DEF FrameTyped, Holding
  <2> QED
    BY <2>1, <2>2 DEF Sifting
<1>3. frame[w].kept \in Seq(Mates(frame[w].list))
  BY <1>1 DEF FrameTyped
<1> QED
  BY <1>2, <1>3 DEF WindowShape

\* Types, action by action: the end of a list that is cleaned.
LEMMA CleanedShape ==
    ASSUME WindowShape, Once(table), Shape, NEW w \in Workers, Cleaned(w) PROVE WindowShape'
<1> DEFINE f == frame[w]
           key == f.todo[1].key
<1>1. /\ f.at = "clean" /\ Steady /\ UNCHANGED <<recent, counted, capped>>
      /\ content' = [content EXCEPT ![f.list] = f.kept]
      /\ \/ table' = table /\ Onward(w, Tail(f.todo))
         \/ /\ table' = Without(key)
            /\ \/ Onward(w, Tail(f.todo))
               \/ Enters(w, "alert") \/ Leaves(w)
  BY CleanedDoes
<1>2. FrameTyped(w) /\ table \in Seq(Slots)
  BY DEF WindowShape
<1>3. Tail(f.todo) \in Seq(Slots)
  BY <1>1, <1>2, HeadTailProperties DEF FrameTyped
<1>4. table' \in Seq(Slots)
  BY <1>1, <1>2, WithoutIs
<1>5. FrameTyped(w)' /\ Keeps(w)
  BY <1>1, <1>2, <1>3, OnwardTyped, EntersTyped, LeavesTyped, KeepsOf
<1>6. DOMAIN content' = Packets /\ \A p \in Packets : content'[p] \in Seq(Mates(p))
  BY <1>1, StoreShape DEF Sifting
<1> QED
  BY <1>1, <1>4, <1>5, <1>6, ShapeKept DEF WindowShape

\* The limit on keys.
LEMMA CappingShape ==
    ASSUME WindowShape, Once(table), Shape, NEW w \in Workers,
           CapTest(w) \/ CapMeasure(w) \/ CapList(w) \/ CapPop(w)
    PROVE  WindowShape'
<1> DEFINE f == frame[w]
<1>1. FrameTyped(w) /\ table \in Seq(Slots)
  BY DEF WindowShape
<1>2. ASSUME NEW tasks \in Seq(Slots), NEW at \in Capping, NEW n \in Int,
             f.at \in Capping, Steady, Hand(w, at, tasks, f.list, f.i, f.kept, n)
      PROVE  FrameTyped(w)'
  <2>1. engine' = engine /\ Slots' = Slots
    BY <1>2, Lasting DEF Steady
  <2> QED
    BY <1>1, <1>2, <2>1 DEF FrameTyped, Hand, Places, Sifting, Holding, Capping
<1>3. CASE CapTest(w)
  <2>1. f.at = "cap" /\ Steady /\ Stands /\ UNCHANGED recent
        /\ (Hand(w, "measure", f.todo, f.list, f.i, f.kept, f.over) \/ Visits(w))
    BY <1>3, CapTestDoes
  <2>2. f.todo \in Seq(Slots) /\ f.over \in Int /\ {"cap", "measure"} \subseteq Capping
    BY <1>1 DEF FrameTyped, Capping
  <2>3. FrameTyped(w)' /\ Keeps(w)
    BY <1>1, <1>2, <2>1, <2>2, VisitsTyped, KeepsOf DEF Hand
  <2> QED
    BY <2>1, <2>3, ShapeKept DEF Stands, WindowShape
<1>4. CASE CapMeasure(w)
  <2>1. f.at = "measure" /\ Steady /\ Stands /\ UNCHANGED recent
        /\ Hand(w, "list", f.todo, f.list, f.i, f.kept, OverLimit)
    BY <1>4, CapMeasureDoes
  <2>2. f.todo \in Seq(Slots) /\ OverLimit \in Int /\ {"measure", "list"} \subseteq Capping
    BY <1>1, PresentSlots, LimitsAssumption DEF FrameTyped, Capping, OverLimit
  <2>3. FrameTyped(w)' /\ Keeps(w)
    BY <1>2, <2>1, <2>2 DEF Hand
  <2> QED
    BY <2>1, <2>3, ShapeKept DEF Stands, WindowShape
<1>5. CASE CapList(w)
  <2> DEFINE s == SubSeq(table, 1, LastListed(f.over))
  <2>1. f.at = "list" /\ Steady /\ Stands /\ UNCHANGED recent
        /\ Hand(w, "pop", s, f.list, f.i, f.kept, f.over)
    BY <1>5, CapListDoes
  <2>2. s \in Seq(Slots)
    <3>1. LastListed(f.over) \in Int /\ LastListed(f.over) <= Len(table)
      BY <1>1, PresentSlots, Smaller, SMTT(40) DEF LastListed, FrameTyped
    <3>2. \A k \in 1 .. LastListed(f.over) : table[k] \in Slots
      BY <1>1, <3>1, ElementOfSeq, PresentSlots
    <3> QED
      BY <3>1, <3>2, SubSeqProperties
  <2> HIDE DEF s
  <2>3. f.over \in Int /\ {"list", "pop"} \subseteq Capping
    BY <1>1 DEF FrameTyped, Capping
  <2>4. FrameTyped(w)' /\ Keeps(w)
    BY <1>2, <2>1, <2>2, <2>3 DEF Hand
  <2> QED
    BY <2>1, <2>4, ShapeKept DEF Stands, WindowShape
<1>6. CASE CapPop(w)
  <2>1. /\ f.at = "pop" /\ Steady /\ UNCHANGED <<recent, content, counted>>
        /\ \/ Visits(w) /\ UNCHANGED <<table, capped>>
           \/ /\ f.todo # << >> /\ table' = Without(f.todo[1].key) /\ capped' = TRUE
              /\ Hand(w, "pop", Tail(f.todo), f.list, f.i, f.kept, f.over)
    BY <1>6, CapPopDoes
  <2>2. f.todo \in Seq(Slots) /\ f.over \in Int /\ "pop" \in Capping
    BY <1>1 DEF FrameTyped, Capping
  <2>3. f.todo # << >> => Tail(f.todo) \in Seq(Slots)
    BY <2>2, HeadTailProperties
  <2>4. FrameTyped(w)' /\ Keeps(w)
    BY <1>1, <1>2, <2>1, <2>2, <2>3, VisitsTyped, KeepsOf DEF Hand
  <2>5. table' \in Seq(Slots) /\ capped' \in BOOLEAN
    BY <1>1, <2>1, WithoutIs DEF WindowShape
  <2> QED
    BY <2>1, <2>4, <2>5, ShapeKept DEF WindowShape
<1> QED
  BY <1>3, <1>4, <1>5, <1>6

\* The frame of a worker that holds the list of its packet.
LEMMA HoldingTyped ==
    ASSUME WindowShape, Shape, Steady, NEW w \in Workers, NEW at \in Holding, NEW l \in Packets,
           Hand(w, at, frame[w].todo, l, 1, << >>, frame[w].over),
           Key(traffic[l]) = MyKey(w), Mine(w).kind = "counted",
           at = "filter" => engine # "flood"
    PROVE  FrameTyped(w)'
<1>1. FrameTyped(w)
  BY DEF WindowShape
<1>2. /\ Slots' = Slots /\ Packets' = Packets /\ \A p : Key(traffic[p])' = Key(traffic[p])
  BY Lasting DEF Steady
<1>3. Mine(w)' = Mine(w) /\ MyKey(w)' = MyKey(w)
  BY DEF Mine, MyKey, Key, Steady, Hand
<1>4. frame'[w].kept \in Seq(Mates(frame[w].list))' /\ frame'[w].kept = << >>
  BY EmptySeq DEF Hand
<1> QED
  BY <1>1, <1>2, <1>3, <1>4 DEF FrameTyped, Hand, Places, Sifting, Holding, Capping, Steady

\* The list of the packet.
LEMMA CountingShape ==
    ASSUME WindowShape, Once(table), Shape, NEW w \in Workers,
           Fetch(w) \/ Filtered(w) \/ AppendSample(w) \/ Count(w)
    PROVE  WindowShape'
<1> DEFINE f == frame[w]
<1>1. FrameTyped(w) /\ table \in Seq(Slots)
  BY DEF WindowShape
<1>2. frame[w].at # "idle" => f.packet \in Packets \cap 1 .. begun
  BY DEF Shape
<1>3. CASE Fetch(w)
  <2> DEFINE next == IF engine = "application" THEN "filter" ELSE "append"
  <2>1. /\ f.at = "fetch" /\ Steady /\ UNCHANGED <<recent, content, counted, capped>>
        /\ \/ /\ At(MyKey(w)) # 0 /\ table' = table
              /\ Hand(w, next, f.todo, table[At(MyKey(w))].list, 1, << >>, f.over)
           \/ /\ table' = Append(table, [key |-> MyKey(w), list |-> f.packet])
              /\ Hand(w, next, f.todo, f.packet, 1, << >>, f.over)
    BY <1>3, FetchDoes
  <2>2. /\ next \in Holding /\ Mine(w).kind = "counted" /\ Keeps(w)
        /\ next = "filter" => engine # "flood"
    BY <1>1, <2>1 DEF FrameTyped, Holding, Hand
  <2>3. f.packet \in Packets /\ Key(traffic[f.packet]) = MyKey(w)
    BY <1>2, <2>1 DEF MyKey, Mine
  <2>4. [key |-> MyKey(w), list |-> f.packet] \in Slots
    BY <2>3 DEF Slots, Slot
  <2>5. At(MyKey(w)) # 0 => /\ table[At(MyKey(w))].list \in Packets
                            /\ Key(traffic[table[At(MyKey(w))].list]) = MyKey(w)
    BY <1>1, AtFinds, PresentSlots, SlotIs
  <2> HIDE DEF next
  <2>6. FrameTyped(w)'
    BY <2>1, <2>2, <2>3, <2>5, HoldingTyped
  <2>7. table' \in Seq(Slots)
    BY <1>1, <2>1, <2>4, AppendProperties
  <2> QED
    BY <2>1, <2>2, <2>6, <2>7, ShapeKept DEF WindowShape
<1>4. CASE Filtered(w)
  <2> DEFINE next == IF engine = "application" THEN "append" ELSE "count"
  <2>1. /\ f.at = "filter" /\ Steady /\ UNCHANGED <<recent, table, counted, capped>>
        /\ content' = [content EXCEPT ![f.list] = f.kept]
        /\ Hand(w, next, f.todo, f.list, 1, << >>, f.over)
    BY <1>4, FilteredDoes
  <2>2. /\ next \in Holding /\ Mine(w).kind = "counted" /\ Keeps(w)
        /\ next = "filter" => engine # "flood"
        /\ f.list \in Packets /\ Key(traffic[f.list]) = MyKey(w)
    BY <1>1, <2>1 DEF FrameTyped, Holding, Hand
  <2> HIDE DEF next
  <2>3. FrameTyped(w)'
    BY <2>1, <2>2, HoldingTyped
  <2>4. DOMAIN content' = Packets /\ \A p \in Packets : content'[p] \in Seq(Mates(p))
    BY <2>1, StoreShape DEF Sifting
  <2> QED
    BY <2>1, <2>2, <2>3, <2>4, ShapeKept DEF WindowShape
<1>5. CASE AppendSample(w)
  <2> DEFINE next == IF engine = "syn" THEN "filter" ELSE "count"
  <2>1. /\ f.at = "append" /\ Steady /\ UNCHANGED <<recent, table, counted, capped>>
        /\ content' = [content EXCEPT ![f.list] = Append(@, f.packet)]
        /\ Hand(w, next, f.todo, f.list, f.i, f.kept, f.over)
    BY <1>5, AppendDoes
  <2>2. /\ next \in Holding /\ Mine(w).kind = "counted" /\ Keeps(w)
        /\ next = "filter" => engine # "flood"
        /\ f.list \in Packets /\ Key(traffic[f.list]) = MyKey(w)
        /\ f.i = 1 /\ f.kept = << >>
    BY <1>1, <2>1 DEF FrameTyped, Holding, Hand
  <2> HIDE DEF next
  <2>3. FrameTyped(w)'
    BY <2>1, <2>2, HoldingTyped
  <2>4. f.packet \in Mates(f.list)
    BY <1>2, <2>1, <2>2 DEF Mates, MyKey, Mine
  <2>5. DOMAIN content' = Packets /\ \A p \in Packets : content'[p] \in Seq(Mates(p))
    BY <2>1, <2>2, <2>4, AppendProperties DEF WindowShape
  <2> QED
    BY <2>1, <2>2, <2>3, <2>5, ShapeKept DEF WindowShape
<1>6. CASE Count(w)
  <2>1. /\ f.at = "count" /\ Steady /\ UNCHANGED <<recent, table, content, capped>>
        /\ counted' = [counted EXCEPT ![f.packet] = ToSet(content[f.list])]
        /\ Enters(w, "alert") \/ Leaves(w)
    BY <1>6, CountDoes
  <2>2. f.list \in Packets
    BY <1>1, <2>1 DEF FrameTyped, Holding
  <2>3. ToSet(content[f.list]) \subseteq Packets
    <3>1. content[f.list] \in Seq(Mates(f.list))
      BY <2>2 DEF WindowShape
    <3>2. \A k \in DOMAIN content[f.list] : content[f.list][k] \in Mates(f.list)
      BY <3>1, ElementOfSeq, LenProperties
    <3>3. Mates(f.list) \subseteq Packets
      BY TrafficsAssumption DEF Mates, Packets, Shape, WindowShape
    <3> QED
      BY <3>2, <3>3 DEF ToSet
  <2>4. counted' \in [Packets -> SUBSET Packets]
    BY <2>1, <2>3 DEF WindowShape
  <2>5. FrameTyped(w)' /\ Keeps(w)
    BY <1>1, <2>1, EntersTyped, LeavesTyped, KeepsOf
  <2> QED
    BY <2>1, <2>4, <2>5, ShapeKept DEF WindowShape
<1> QED
  BY <1>3, <1>4, <1>5, <1>6

\* A sequence of elements of a set is one of elements of a greater set.
LEMMA WiderSeq ==
    ASSUME NEW S, NEW T, S \subseteq T, NEW s \in Seq(S)
    PROVE  s \in Seq(T)
<1>1. Len(s) \in Nat /\ \A k \in 1 .. Len(s) : s[k] \in T
  BY LenProperties, ElementOfSeq
<1>2. s \in [1 .. Len(s) -> T]
  BY <1>1, LenProperties
<1> QED
  BY <1>1, <1>2, SeqDef

\* A packet that begins adds to the packets there may be in a list.
LEMMA MoreTyped ==
    ASSUME UNCHANGED <<traffic, engine>>, \A p : Mates(p) \subseteq Mates(p)',
           NEW w \in Workers, FrameTyped(w), frame'[w] = frame[w]
    PROVE  FrameTyped(w)'
<1>1. /\ Slots' = Slots /\ Packets' = Packets /\ \A p : Key(traffic[p])' = Key(traffic[p])
  BY Lasting
<1>2. Mine(w)' = Mine(w) /\ MyKey(w)' = MyKey(w)
  BY DEF Mine, MyKey, Key
<1>3. frame[w].at \in Sifting => frame[w].kept \in Seq(Mates(frame[w].list))'
  <2>2. ASSUME frame[w].at \in Sifting PROVE frame[w].kept \in Seq(Mates(frame[w].list))
    BY <2>2 DEF FrameTyped
  <2>3. Mates(frame[w].list) \subseteq Mates(frame[w].list)'
    OBVIOUS
  <2> QED
    BY <2>2, <2>3, WiderSeq
<1> QED
  BY <1>1, <1>2, <1>3 DEF FrameTyped

\* The next packet.
LEMMA BeginShape ==
    ASSUME WindowShape, Shape, NEW w \in Workers, Begin(w) PROVE WindowShape'
<1> DEFINE p == begun + 1
<1>1. /\ p \in Packets /\ begun' = p /\ clock' = [clock EXCEPT ![p] = now]
      /\ frame'[w].at = "snapshot" /\ frame'[w].packet = p
      /\ frame'[w].todo = << >> /\ frame'[w].list = 0 /\ frame'[w].i = 1
      /\ frame'[w].kept = << >> /\ frame'[w].over = 0 /\ Keeps(w)
      /\ UNCHANGED <<traffic, engine, now, recent>> /\ Stands
  BY BeginDoes
<1>2. Slots' = Slots /\ Packets' = Packets
  BY <1>1, Lasting
<1>3. \A q : Mates(q) \subseteq Mates(q)'
  <2>1. begun \in Nat
    BY DEF Shape
  <2> QED
    BY <1>1, <2>1 DEF Mates, Key
<1>4. FrameTyped(w)'
  BY <1>1, EmptySeq DEF FrameTyped, Places, Sifting, Holding, Capping
<1>5. \A v \in Workers : FrameTyped(v)'
  BY <1>1, <1>3, <1>4, MoreTyped DEF Keeps, WindowShape
<1>6. \A q \in Packets : content[q] \in Seq(Mates(q)')
  BY <1>3, WiderSeq DEF WindowShape
<1>7. begun' \in 0 .. Len(traffic)
  <2>1. DOMAIN traffic = 1 .. Len(traffic) /\ Len(traffic) \in Nat
    BY TrafficsAssumption DEF Shape
  <2> QED
    BY <1>1, <2>1 DEF Packets
<1>8. clock' \in [Packets -> 0 .. now]
  BY <1>1 DEF WindowShape
<1> QED
  BY <1>1, <1>2, <1>5, <1>6, <1>7, <1>8 DEF WindowShape, Stands

\* The clock.
LEMMA TickShape == ASSUME WindowShape, Tick PROVE WindowShape'
<1>1. /\ now < Duration /\ now' = now + 1
      /\ UNCHANGED <<traffic, engine, begun, clock, frame, recent>> /\ Stands
  BY DEF Tick, windows, blocking, history, Stands
<1>2. Slots' = Slots /\ Packets' = Packets
  BY <1>1, Lasting
<1>3. \A p : Mates(p) = Mates(p)'
  BY <1>1 DEF Mates, Key
<1>4. \A v \in Workers : FrameTyped(v)'
  BY <1>1, <1>3, MoreTyped DEF WindowShape
<1>5. now' \in 0 .. Duration /\ 0 .. now \subseteq 0 .. now'
  <2>1. Duration \in Nat
    BY LimitsAssumption
  <2> QED
    BY <1>1, <2>1 DEF WindowShape
<1>6. clock \in [Packets -> 0 .. now']
  BY <1>5 DEF WindowShape
<1> QED
  BY <1>1, <1>2, <1>3, <1>4, <1>5, <1>6 DEF WindowShape, Stands

\* There is room for the address that was blocked.
LEMMA RecentBounded ==
    ASSUME WindowShape, IInv, NEW w \in Workers, BlockRecorded(w)
    PROVE  Len(recent') <= MaxTracked
<1> DEFINE ip == Mine(w).src
           noted == Tracking(ip)
           o == Oldest(noted)
           n == Len(noted)
<1>0. frame[w].at = "block"
  BY DEF BlockRecorded
<1>1. ip \in Sources
  BY <1>0 DEF IInv, Shape, Mine, Sources
<1>2. /\ noted \in Seq([ip : Sources, at : Nat]) /\ n \in Nat \ {0}
      /\ DOMAIN noted = 1 .. n
      /\ \A k \in DOMAIN noted : noted[k].at \in Nat
  BY <1>1, NotedRemembers DEF IInv
<1>3. recent' = IF n > MaxTracked THEN RemoveAt(noted, o) ELSE noted
  BY DEF BlockRecorded, Tracking
<1>4. n <= Len(recent) + 1 /\ Len(recent) \in Nat
  <2>1. recent \in Seq([ip : Sources, at : Nat]) /\ now \in Nat /\ Len(recent) \in Nat
    BY LenProperties DEF IInv, Shape
  <2>2. CASE Tracked(ip) # 0
    <3>1. Tracked(ip) \in DOMAIN recent
      BY <2>2, TrackedFinds DEF IInv
    <3>2. noted = [recent EXCEPT ![Tracked(ip)].at = now]
      BY <2>2 DEF Tracking
    <3>3. DOMAIN noted = DOMAIN recent
      BY <3>2
    <3>4. 1 .. n = 1 .. Len(recent)
      BY <1>2, <2>1, <3>3, LenProperties
    <3> QED
      BY <1>2, <2>1, <3>4
  <2>3. CASE Tracked(ip) = 0
    <3>1. noted = Append(recent, [ip |-> ip, at |-> now])
      BY <2>3 DEF Tracking
    <3>2. [ip |-> ip, at |-> now] \in [ip : Sources, at : Nat]
      BY <1>1, <2>1
    <3> QED
      BY <2>1, <3>1, <3>2, AppendProperties
  <2> QED
    BY <2>2, <2>3
<1>5. MaxTracked \in Nat \ {0} /\ Len(recent) <= MaxTracked
  BY LimitsAssumption DEF WindowShape
<1>6. o \in DOMAIN noted
  BY <1>2, OldestIsThere
<1> HIDE DEF o, n, noted
<1>7. CASE n > MaxTracked
  <2>1. Len(recent') = n - 1
    BY <1>2, <1>3, <1>6, <1>7, Removed, Zenon DEF n
  <2>2. n <= MaxTracked + 1
    BY <1>2, <1>4, <1>5
  <2> QED
    BY <1>2, <1>5, <2>1, <2>2
<1>8. CASE ~ n > MaxTracked
  BY <1>2, <1>3, <1>5, <1>8 DEF n
<1> QED
  BY <1>7, <1>8

\* Auto-block.
LEMMA BlockShape ==
    ASSUME WindowShape, IInv, NEW w \in Workers,
           Consider(w) \/ BlockFails(w) \/ BlockRecorded(w)
    PROVE  WindowShape'
<1>1. Steady /\ Stands /\ (Enters(w, "block") \/ Leaves(w))
  BY BlockDoes DEF IInv
<1>2. FrameTyped(w)' /\ Keeps(w)
  BY <1>1, EntersTyped, LeavesTyped, KeepsOf DEF WindowShape
<1>3. Len(recent') <= MaxTracked
  <2>1. CASE BlockRecorded(w)
    BY <2>1, RecentBounded
  <2>2. CASE Consider(w) \/ BlockFails(w)
    BY <2>2 DEF Consider, BlockFails, WindowShape
  <2> QED
    BY <2>1, <2>2
<1>4. \A v \in Workers : FrameTyped(v)'
  BY <1>1, <1>2, StillTyped DEF Keeps, WindowShape
<1>5. Slots' = Slots /\ Packets' = Packets /\ \A p : Mates(p)' = Mates(p)
  BY <1>1, Lasting, LastingMates DEF Steady
<1> QED
  BY <1>1, <1>3, <1>4, <1>5 DEF WindowShape, Stands, Steady

\* Every step keeps the types.
LEMMA NextShape ==
    ASSUME WindowShape, Once(table), IInv, [Next]_vars PROVE WindowShape'
<1>0. Shape
  BY DEF IInv
<1>1. CASE Tick
  BY <1>1, TickShape
<1>2. ASSUME NEW w \in Workers, WorkerStep(w) PROVE WindowShape'
  <2>1. CASE Begin(w)
    BY <1>0, <2>1, BeginShape
  <2>2. CASE Snapshot(w)
    <3>1. Onward(w, table) /\ Steady /\ Stands /\ UNCHANGED recent
      BY <1>0, <2>2, SnapshotDoes
    <3>2. FrameTyped(w)' /\ Keeps(w)
      BY <3>1, OnwardTyped, KeepsOf DEF WindowShape
    <3> QED
      BY <1>0, <3>1, <3>2, ShapeKept DEF Stands, WindowShape
  <2>3. CASE Sift(w)
    BY <1>0, <2>3, SiftShape
  <2>4. CASE Cleaned(w)
    BY <1>0, <2>4, CleanedShape
  <2>5. CASE CapTest(w) \/ CapMeasure(w) \/ CapList(w) \/ CapPop(w)
    BY <1>0, <2>5, CappingShape
  <2>6. CASE Fetch(w) \/ Filtered(w) \/ AppendSample(w) \/ Count(w)
    BY <1>0, <2>6, CountingShape
  <2>7. CASE Consider(w) \/ BlockFails(w) \/ BlockRecorded(w)
    BY <2>7, BlockShape
  <2> QED
    BY <1>2, <2>1, <2>2, <2>3, <2>4, <2>5, <2>6, <2>7 DEF WorkerStep
<1>3. CASE UNCHANGED vars
  <2>1. /\ UNCHANGED <<traffic, engine, now, begun, clock, frame, recent>> /\ Stands
    BY <1>3 DEF vars, windows, blocking, history, Stands
  <2>2. Slots' = Slots /\ Packets' = Packets
    BY <2>1, Lasting
  <2>3. \A p : Mates(p) = Mates(p)'
    BY <2>1 DEF Mates, Key
  <2>4. \A v \in Workers : FrameTyped(v)'
    BY <2>1, <2>3, MoreTyped DEF WindowShape
  <2> QED
    BY <2>1, <2>2, <2>3, <2>4 DEF WindowShape, Stands
<1> QED
  BY <1>1, <1>2, <1>3 DEF Next

-----------------------------------------------------------------------------
(* Keys, packets and clocks *)

Analyses(w) ==
    \/ Snapshot(w) \/ Sift(w) \/ Cleaned(w)
    \/ CapTest(w) \/ CapMeasure(w) \/ CapList(w) \/ CapPop(w)
    \/ Fetch(w) \/ Filtered(w) \/ AppendSample(w) \/ Count(w)
    \/ Consider(w) \/ BlockFails(w) \/ BlockRecorded(w)

\* What a worker does after it began a packet concerns that packet, until it is done with it.
LEMMA AnalysesDoes ==
    ASSUME Shape, NEW w \in Workers, Analyses(w)
    PROVE  /\ Steady /\ Keeps(w) /\ frame[w].at # "idle"
           /\ frame'[w].at = "idle" \/ frame'[w].packet = frame[w].packet
<1> USE DEF Hand, Enters
<1>1. CASE Snapshot(w)
  BY <1>1, SnapshotDoes, KeepsOf DEF Onward, Cleans, Visits, Leaves
<1>2. CASE Sift(w)
  BY <1>2, SiftDoes DEF Sifting
<1>3. CASE Cleaned(w)
  BY <1>3, CleanedDoes, KeepsOf DEF Onward, Cleans, Visits, Leaves
<1>4. CASE CapTest(w)
  BY <1>4, CapTestDoes, KeepsOf DEF Visits, Leaves
<1>5. CASE CapMeasure(w)
  BY <1>5, CapMeasureDoes
<1>6. CASE CapList(w)
  BY <1>6, CapListDoes
<1>7. CASE CapPop(w)
  BY <1>7, CapPopDoes, KeepsOf DEF Visits, Leaves
<1>8. CASE Fetch(w)
  BY <1>8, FetchDoes
<1>9. CASE Filtered(w)
  BY <1>9, FilteredDoes
<1>10. CASE AppendSample(w)
  BY <1>10, AppendDoes
<1>11. CASE Count(w)
  BY <1>11, CountDoes, KeepsOf DEF Leaves
<1>12. CASE Consider(w) \/ BlockFails(w) \/ BlockRecorded(w)
  BY <1>12, BlockDoes, KeepsOf DEF Leaves
<1> QED
  BY <1>1, <1>2, <1>3, <1>4, <1>5, <1>6, <1>7, <1>8, <1>9, <1>10, <1>11, <1>12 DEF Analyses

\* What may happen to the table: nothing, a key goes, or the key of a packet comes.
Loses(key) == table' = Without(key)
Gains(w) == /\ frame[w].at = "fetch" /\ At(MyKey(w)) = 0
            /\ table' = Append(table, Slot(frame[w].packet))

\* The table stays, loses a key or gains one.
LEMMA TableDoes ==
    ASSUME Shape, NEW w \in Workers, Analyses(w)
    PROVE  table' = table \/ (\E key : Loses(key)) \/ Gains(w)
<1>1. CASE Snapshot(w)
  BY <1>1, SnapshotDoes DEF Stands
<1>2. CASE Sift(w)
  BY <1>2, SiftDoes DEF Stands
<1>3. CASE Cleaned(w)
  BY <1>3, CleanedDoes DEF Loses
<1>4. CASE CapTest(w)
  BY <1>4, CapTestDoes DEF Stands
<1>5. CASE CapMeasure(w)
  BY <1>5, CapMeasureDoes DEF Stands
<1>6. CASE CapList(w)
  BY <1>6, CapListDoes DEF Stands
<1>7. CASE CapPop(w)
  BY <1>7, CapPopDoes DEF Loses
<1>8. CASE Fetch(w)
  BY <1>8, FetchDoes DEF Gains, Slot, MyKey, Mine
<1>9. CASE Filtered(w) \/ AppendSample(w) \/ Count(w)
  BY <1>9, FilteredDoes, AppendDoes, CountDoes
<1>10. CASE Consider(w) \/ BlockFails(w) \/ BlockRecorded(w)
  BY <1>10, BlockDoes DEF Stands
<1> QED
  BY <1>1, <1>2, <1>3, <1>4, <1>5, <1>6, <1>7, <1>8, <1>9, <1>10 DEF Analyses

\* The entries of the table then.
LEMMA LosesIs ==
    ASSUME WindowShape, Once(table), NEW key, Loses(key)
    PROVE  /\ Present' = {e \in Present : e.key # key} /\ Once(table')
           /\ At(key) = 0 => table' = table
           /\ At(key) # 0 => Len(table') = Len(table) - 1
                             /\ \E e \in Present : e.key = key
  BY WithoutIs, AtFinds, SMTT(40) DEF Loses, WindowShape, Present

\* The key that is gained was not there.
LEMMA GainsIs ==
    ASSUME WindowShape, Shape, Once(table), NEW w \in Workers, Gains(w)
    PROVE  /\ frame[w].packet \in Packets /\ Slot(frame[w].packet).key = MyKey(w)
           /\ \A e \in Present : e.key # MyKey(w)
           /\ Present' = Present \cup {Slot(frame[w].packet)} /\ Once(table')
           /\ Len(table') = Len(table) + 1
<1> DEFINE p == frame[w].packet
           s == Slot(p)
           n == Len(table)
<1>1. /\ table' = Append(table, s) /\ At(MyKey(w)) = 0 /\ frame[w].at = "fetch"
  BY DEF Gains
<1>2. p \in Packets /\ s \in Slots /\ s.key = MyKey(w)
  BY <1>1 DEF Shape, Slots, Slot, MyKey, Mine
<1>3. table \in Seq(Slots)
  BY DEF WindowShape
<1>4. \A e \in Present : e.key # MyKey(w)
  BY <1>1, <1>3, AtFinds
<1> HIDE DEF s, p
<1>5. /\ DOMAIN table' = 1 .. n + 1 /\ Len(table') = n + 1
      /\ n \in Nat /\ DOMAIN table = 1 .. n
      /\ \A k \in DOMAIN table : k \in DOMAIN table' /\ table'[k] = table[k]
      /\ table'[n + 1] = s
      /\ \A k \in DOMAIN table' : k \in DOMAIN table \/ k = n + 1
  BY <1>1, <1>2, <1>3, AppendIs
<1> HIDE DEF n
<1>6. Present' = Present \cup {s}
  <2>1. Present' = {table'[k] : k \in DOMAIN table'}
    BY DEF Present
  <2>2. n + 1 \in DOMAIN table'
    BY <1>5
  <2> QED
    BY <1>5, <2>1, <2>2 DEF Present
<1>7. Once(table')
  <2> SUFFICES ASSUME NEW j \in DOMAIN table', NEW k \in DOMAIN table',
                      table'[j].key = table'[k].key
               PROVE  j = k
    BY DEF Once
  <2>1. \A i \in DOMAIN table : table[i].key # s.key
    BY <1>2, <1>4 DEF Present
  <2> QED
    BY <1>5, <2>1 DEF Once
<1> QED
  BY <1>2, <1>4, <1>5, <1>6, <1>7 DEF s, p, n

\* A sequence without its first key.
LEMMA OnceTail ==
    ASSUME NEW s \in Seq(Slots), s # << >>, Once(s)
    PROVE  Once(Tail(s)) /\ \A k \in DOMAIN Tail(s) : Tail(s)[k].key # s[1].key
<1> DEFINE t == Tail(s)
<1>1. /\ DOMAIN s = 1 .. Len(s) /\ Len(s) \in Nat \ {0} /\ DOMAIN t = 1 .. Len(s) - 1
      /\ \A k \in DOMAIN t : t[k] = s[k + 1] /\ k + 1 \in DOMAIN s
  BY TailIs
<1> HIDE DEF t
<1>2. 1 \in DOMAIN s /\ DOMAIN t \subseteq Nat \ {0}
  BY <1>1
<1> QED
  BY <1>1, <1>2, SMTT(40) DEF Once, t

\* The table is finite.
LEMMA SizeSlots ==
    ASSUME table \in Seq(Slots)
    PROVE  IsFiniteSet(Present) /\ Cardinality(Present) \in Nat
<1>1. IsFiniteSet(DOMAIN table)
  BY PresentSlots, UpTo
<1>2. [k \in DOMAIN table |-> table[k]] \in Surjection(DOMAIN table, Present)
  BY DEF Surjection, Present
<1> QED
  BY <1>1, <1>2, FS_Surjection, FS_CardinalityType

\* No step of an analysis puts a key twice in the table.
LEMMA AnalysesKeys ==
    ASSUME WindowShape, KeysOnce, Sized, Shape, NEW w \in Workers, Analyses(w)
    PROVE  KeysOnce' /\ Sized'
<1>1. table \in Seq(Slots) /\ Once(table)
  BY DEF WindowShape, KeysOnce
<1>2. IsFiniteSet(Present) /\ Len(table) = Cardinality(Present) /\ Cardinality(Present) \in Nat
  BY <1>1, SizeSlots DEF Sized
<1>3. Once(table') /\ Sized'
  <2>1. CASE table' = table
    <3>1. Present' = Present
      BY <2>1 DEF Present
    <3> QED
      BY <1>1, <2>1, <3>1 DEF Sized
  <2>2. ASSUME NEW key, Loses(key) PROVE Once(table') /\ Sized'
    <3>1. CASE At(key) = 0
      <4>1. table' = table
        BY <1>1, <2>2, <3>1, LosesIs
      <4> QED
        BY <1>1, <4>1 DEF Sized, Present
    <3>2. CASE At(key) # 0
      <4>1. /\ Present' = {e \in Present : e.key # key} /\ Once(table')
            /\ Len(table') = Len(table) - 1
        BY <1>1, <2>2, <3>2, LosesIs
      <4>2. PICK e \in Present : e.key = key
        BY <1>1, <2>2, <3>2, LosesIs
      <4>3. Present' = Present \ {e}
        <5>1. \A f \in Present : f.key = key => f = e
          BY <1>1, <4>2 DEF Once, Present
        <5> QED
          BY <4>1, <4>2, <5>1
      <4>4. Cardinality(Present') = Cardinality(Present) - 1
        BY <1>2, <4>2, <4>3, FS_RemoveElement
      <4> QED
        BY <1>2, <4>1, <4>4 DEF Sized
    <3> QED
      BY <3>1, <3>2
  <2>3. CASE Gains(w)
    <3> DEFINE s == Slot(frame[w].packet)
    <3>1. /\ Present' = Present \cup {s} /\ Once(table') /\ Len(table') = Len(table) + 1
          /\ s.key = MyKey(w) /\ \A e \in Present : e.key # MyKey(w)
      BY <1>1, <2>3, GainsIs
    <3> HIDE DEF s
    <3>2. s \notin Present
      BY <3>1
    <3>3. Cardinality(Present') = Cardinality(Present) + 1
      BY <1>2, <3>1, <3>2, FS_AddElement
    <3> QED
      BY <1>2, <3>1, <3>3 DEF Sized
  <2> QED
    BY <2>1, <2>2, <2>3, TableDoes
<1>4. ASSUME NEW entries \in Seq(Slots), Once(entries), Onward(w, entries),
             frame'[w].at = "clean"
      PROVE  Once(frame'[w].todo)
  BY <1>4 DEF Onward, Cleans, Visits, Enters, Leaves, Hand
<1>5. ASSUME frame'[w].at = "clean" PROVE Once(frame'[w].todo)
  <2>1. CASE Snapshot(w)
    BY <1>1, <1>4, <1>5, <2>1, SnapshotDoes
  <2>2. CASE Sift(w)
    BY <1>5, <2>2, SiftDoes DEF Hand, KeysOnce
  <2>3. CASE Cleaned(w)
    <3>1. frame[w].at = "clean" /\ (Onward(w, Tail(frame[w].todo)) \/ Enters(w, "alert") \/ Leaves(w))
      BY <2>3, CleanedDoes
    <3>2. frame[w].todo \in Seq(Slots) /\ frame[w].todo # << >> /\ Once(frame[w].todo)
      BY <3>1 DEF WindowShape, FrameTyped, KeysOnce
    <3>3. Tail(frame[w].todo) \in Seq(Slots) /\ Once(Tail(frame[w].todo))
      BY <3>2, OnceTail, TailIs
    <3>4. ~ Enters(w, "alert") /\ ~ Leaves(w)
      BY <1>5 DEF Enters, Leaves, Hand
    <3> QED
      BY <1>4, <1>5, <3>1, <3>3, <3>4
  <2>4. CASE CapTest(w)
    BY <1>5, <2>4, CapTestDoes DEF Visits, Enters, Leaves, Hand
  <2>5. CASE CapMeasure(w)
    BY <1>5, <2>5, CapMeasureDoes DEF Hand
  <2>6. CASE CapList(w)
    BY <1>5, <2>6, CapListDoes DEF Hand
  <2>7. CASE CapPop(w)
    BY <1>5, <2>7, CapPopDoes DEF Visits, Enters, Leaves, Hand
  <2>8. CASE Fetch(w)
    BY <1>5, <2>8, FetchDoes DEF Hand
  <2>9. CASE Filtered(w)
    BY <1>5, <2>9, FilteredDoes DEF Hand
  <2>10. CASE AppendSample(w)
    BY <1>5, <2>10, AppendDoes DEF Hand
  <2>11. CASE Count(w)
    BY <1>5, <2>11, CountDoes DEF Enters, Leaves, Hand
  <2>12. CASE Consider(w) \/ BlockFails(w) \/ BlockRecorded(w)
    BY <1>5, <2>12, BlockDoes DEF Enters, Leaves, Hand
  <2> QED
    BY <2>1, <2>2, <2>3, <2>4, <2>5, <2>6, <2>7, <2>8, <2>9, <2>10, <2>11, <2>12 DEF Analyses
<1>6. \A v \in Workers : v # w => frame'[v] = frame[v]
  BY AnalysesDoes DEF Keeps
<1> QED
  BY <1>3, <1>5, <1>6 DEF KeysOnce

Ordered == PacketsApart /\ ClocksInOrder /\ Met

\* No step of an analysis begins a packet.
LEMMA AnalysesOrdered ==
    ASSUME Ordered, Shape, NEW w \in Workers, Analyses(w)
    PROVE  Ordered'
<1>1. /\ UNCHANGED <<traffic, engine, now, begun, clock, ran>> /\ frame[w].at # "idle"
      /\ \A v \in Workers : v # w => frame'[v] = frame[v]
      /\ frame'[w].at = "idle" \/ frame'[w].packet = frame[w].packet
  BY AnalysesDoes DEF Steady, Keeps
<1>2. \A v \in Workers : frame'[v].at # "idle" =>
          frame[v].at # "idle" /\ frame'[v].packet = frame[v].packet
  BY <1>1
<1>3. PacketsApart'
  BY <1>2 DEF PacketsApart, Ordered
<1>4. ClocksInOrder'
  BY <1>1 DEF ClocksInOrder, Ordered
<1>5. Met'
  BY <1>1, <1>2 DEF Met, Ordered, Packets
<1> QED
  BY <1>3, <1>4, <1>5 DEF Ordered

\* The next packet is later than all the others and meets those at work.
LEMMA BeginOrdered ==
    ASSUME Ordered, WindowShape, Shape, NEW w \in Workers, Begin(w)
    PROVE  Ordered'
<1> DEFINE p == begun + 1
           others == {frame[v].packet : v \in Busy}
<1>1. /\ frame[w].at = "idle" /\ p \in Packets /\ begun' = p
      /\ clock' = [clock EXCEPT ![p] = now]
      /\ ran' = [q \in Packets |-> IF q = p THEN {p} \cup others
                                   ELSE IF q \in others THEN ran[q] \cup {p} ELSE ran[q]]
      /\ frame'[w].at = "snapshot" /\ frame'[w].packet = p
      /\ \A v \in Workers : v # w => frame'[v] = frame[v]
      /\ UNCHANGED traffic
  BY BeginDoes DEF Keeps
<1>2. others \subseteq Packets \cap 1 .. begun /\ begun \in Nat /\ p \in Nat
  BY DEF Busy, Shape
<1>3. \A v \in Workers : v # w /\ frame'[v].at # "idle" =>
         /\ frame[v].at # "idle" /\ frame'[v].packet = frame[v].packet
         /\ frame[v].packet \in others
  BY <1>1 DEF Busy
<1> HIDE DEF others
<1>4. PacketsApart'
  BY <1>1, <1>2, <1>3 DEF PacketsApart, Ordered
<1>5. ClocksInOrder'
  <2> SUFFICES ASSUME NEW x \in 1 .. p, NEW y \in 1 .. p, x <= y PROVE clock'[x] <= clock'[y]
    BY <1>1 DEF ClocksInOrder
  <2>1. x \in Packets /\ y \in Packets
    <3>1. Packets = 1 .. Len(traffic) /\ Len(traffic) \in Nat
      BY TrafficsAssumption DEF Packets, Shape
    <3> QED
      BY <1>1, <1>2, <3>1
  <2>2. clock \in [Packets -> 0 .. now] /\ now \in Nat
    BY DEF WindowShape, Shape
  <2>3. CASE y = p
    BY <1>1, <2>1, <2>2, <2>3
  <2>4. CASE y # p
    <3>1. x \in 1 .. begun /\ y \in 1 .. begun /\ x # p
      BY <1>2, <2>4
    <3> QED
      BY <1>1, <2>1, <2>2, <2>4, <3>1 DEF ClocksInOrder, Ordered
  <2> QED
    BY <2>3, <2>4
<1>6. Met'
  <2>1. \A q \in Packets : q \in ran[q] /\ (q > begun => ran[q] = {q})
    BY DEF Ordered, Met
  <2>2. ASSUME NEW q \in Packets PROVE q \in ran'[q] /\ (q > p => ran'[q] = {q})
    <3>1. q \in ran[q] /\ q \in ran'[q]
      BY <1>1, <2>1
    <3>2. ASSUME q > p PROVE ran'[q] = {q}
      <4>0. q \in Nat
        BY TrafficsAssumption DEF Packets, Shape
      <4>1. q \notin others /\ q # p /\ q > begun
        BY <1>2, <3>2, <4>0
      <4> QED
        BY <1>1, <2>1, <4>1
    <3> QED
      BY <3>1, <3>2
  <2>3. ASSUME NEW q \in 1 .. p, q \in Packets PROVE ran'[q] \subseteq 1 .. p
    <3>1. 1 .. begun \subseteq 1 .. p /\ p \in 1 .. p
      BY <1>2
    <3>2. CASE q = p
      <4>1. ran'[q] = {p} \cup others
        BY <1>1, <2>3, <3>2
      <4> QED
        BY <1>2, <3>1, <4>1
    <3>3. CASE q # p
      <4>1. q \in 1 .. begun
        BY <1>2, <3>3
      <4>2. ran[q] \subseteq 1 .. begun
        BY <4>1 DEF Ordered, Met
      <4>3. ran'[q] \subseteq ran[q] \cup {p}
        BY <1>1, <2>3, <3>3
      <4> QED
        BY <3>1, <4>2, <4>3
    <3> QED
      BY <3>2, <3>3
  <2>4. \A q \in 1 .. p : q \in Packets
    <3>1. Packets = 1 .. Len(traffic) /\ Len(traffic) \in Nat
      BY TrafficsAssumption DEF Packets, Shape
    <3> QED
      BY <1>1, <1>2, <3>1
  <2>5. ASSUME NEW v \in Workers, frame'[v].at # "idle", NEW x \in frame'[v].packet + 1 .. p
        PROVE  x \in ran'[frame'[v].packet] /\ frame'[v].packet \in ran'[x]
    <3>1. CASE v = w
      BY <1>1, <1>2, <2>5, <3>1
    <3>2. CASE v # w
      <4>1. /\ frame[v].at # "idle" /\ frame'[v].packet = frame[v].packet
            /\ frame[v].packet \in others
        BY <1>3, <2>5, <3>2
      <4>2. frame[v].packet \in Packets /\ frame[v].packet \in 1 .. begun
        BY <1>2, <4>1
      <4>3. CASE x = p
        BY <1>1, <1>2, <4>1, <4>2, <4>3
      <4>4. CASE x # p
        <5>1. x \in frame[v].packet + 1 .. begun /\ x \in 1 .. p
          BY <1>2, <2>5, <4>1, <4>2, <4>4
        <5>2. x \in ran[frame[v].packet] /\ frame[v].packet \in ran[x]
          BY <4>1, <5>1 DEF Ordered, Met
        <5>3. x \in Packets /\ frame[v].packet # p
          BY <1>2, <2>4, <4>2, <5>1
        <5> QED
          BY <1>1, <4>1, <4>2, <4>4, <5>2, <5>3
      <4> QED
        BY <4>3, <4>4
    <3> QED
      BY <3>1, <3>2
  <2> QED
    BY <1>1, <2>2, <2>3, <2>4, <2>5 DEF Met, Packets
<1> QED
  BY <1>4, <1>5, <1>6 DEF Ordered

-----------------------------------------------------------------------------
(* New lists are empty *)

\* The lists a worker may come to hold, or to look at, besides one it creates.
Known(w) == {e.list : e \in Present} \cup {0, frame[w].list}
            \cup {frame[w].todo[k].list : k \in DOMAIN frame[w].todo}
Within(w) == /\ frame'[w].list \in Known(w)
             /\ \A k \in DOMAIN frame'[w].todo : frame'[w].todo[k].list \in Known(w)

\* Who enters another part knows no new list.
LEMMA EntersWithin ==
    ASSUME NEW w \in Workers, NEW step, Enters(w, step) \/ Leaves(w) \/ Visits(w)
    PROVE  Within(w)
<1>1. frame'[w].list = 0 /\ frame'[w].todo = << >>
  BY DEF Enters, Leaves, Visits, Hand
<1>2. DOMAIN << >> = {}
  OBVIOUS
<1> QED
  BY <1>1, <1>2 DEF Within, Known

\* Nor does who turns to the next key.
LEMMA OnwardWithin ==
    ASSUME NEW w \in Workers, NEW entries \in Seq(Slots), Onward(w, entries),
           \A k \in DOMAIN entries : entries[k].list \in Known(w)
    PROVE  Within(w)
<1>1. CASE Cleans(w, entries)
  <2>1. entries # << >> /\ frame'[w].list = entries[1].list /\ frame'[w].todo = entries
    BY <1>1 DEF Cleans, Hand
  <2>2. 1 \in DOMAIN entries
    BY <2>1, TailIs
  <2> QED
    BY <2>1, <2>2 DEF Within
<1> QED
  BY <1>1, EntersWithin DEF Onward

\* A worker knows no new list but the one it makes.
LEMMA WithinOrNew ==
    ASSUME WindowShape, Shape, NEW w \in Workers, Analyses(w)
    PROVE  \/ Within(w)
           \/ /\ Gains(w) /\ frame'[w].list = frame[w].packet
              /\ \A k \in DOMAIN frame'[w].todo : frame'[w].todo[k].list \in Known(w)
<1>1. FrameTyped(w) /\ table \in Seq(Slots)
  BY DEF WindowShape
<1>2. \A k \in DOMAIN table : table[k].list \in Known(w)
  BY DEF Present, Known
<1>3. \A k \in DOMAIN frame[w].todo : frame[w].todo[k].list \in Known(w)
  BY DEF Known
<1>4. frame[w].list \in Known(w)
  BY DEF Known
<1>5. ASSUME frame[w].todo # << >>
      PROVE  /\ Tail(frame[w].todo) \in Seq(Slots)
             /\ \A k \in DOMAIN Tail(frame[w].todo) : Tail(frame[w].todo)[k].list \in Known(w)
  <2>1. frame[w].todo \in Seq(Slots)
    BY <1>1 DEF FrameTyped
  <2> QED
    BY <1>3, <1>5, <2>1, TailIs
<1>6. ASSUME NEW at, NEW i, NEW kept, NEW over,
             Hand(w, at, frame[w].todo, frame[w].list, i, kept, over)
      PROVE  Within(w)
  BY <1>3, <1>4, <1>6 DEF Hand, Within
<1>7. CASE Snapshot(w)
  BY <1>1, <1>2, <1>7, SnapshotDoes, OnwardWithin
<1>8. CASE Sift(w)
  BY <1>6, <1>8, SiftDoes
<1>9. CASE Cleaned(w)
  <2>1. frame[w].at = "clean" /\ (Onward(w, Tail(frame[w].todo)) \/ Enters(w, "alert") \/ Leaves(w))
    BY <1>9, CleanedDoes
  <2>2. frame[w].todo # << >>
    BY <1>1, <2>1 DEF FrameTyped
  <2> QED
    BY <1>5, <2>1, <2>2, OnwardWithin, EntersWithin
<1>10. CASE CapTest(w)
  BY <1>6, <1>10, CapTestDoes, EntersWithin
<1>11. CASE CapMeasure(w)
  BY <1>6, <1>11, CapMeasureDoes
<1>12. CASE CapList(w)
  <2> DEFINE m == LastListed(frame[w].over)
             s == SubSeq(table, 1, m)
  <2>1. frame'[w].todo = s /\ frame'[w].list = frame[w].list
    BY <1>12, CapListDoes DEF Hand
  <2>2. m \in Int /\ m <= Len(table)
    <3>1. frame[w].over \in Int
      BY <1>1 DEF FrameTyped
    <3> QED
      BY <1>1, <3>1, PresentSlots, Smaller DEF LastListed
  <2> HIDE DEF m
  <2>3. \A k \in DOMAIN s : k \in DOMAIN table /\ s[k] = table[k]
    <3>1. \A k \in 1 .. m : table[k] \in Slots
      BY <1>1, <2>2, ElementOfSeq, PresentSlots
    <3>2. /\ s \in Seq(Slots) /\ Len(s) = IF 1 <= m THEN m - 1 + 1 ELSE 0
          /\ \A k \in 1 .. m - 1 + 1 : s[k] = table[1 + k - 1]
      BY <2>2, <3>1, SubSeqProperties
    <3>3. DOMAIN s = 1 .. Len(s) /\ DOMAIN table = 1 .. Len(table) /\ Len(table) \in Nat
      BY <1>1, <3>2, LenProperties, PresentSlots
    <3>4. DOMAIN s \subseteq 1 .. m /\ 1 .. m \subseteq DOMAIN table
      BY <2>2, <3>2, <3>3
    <3>5. \A k \in 1 .. m : s[k] = table[k]
      BY <2>2, <3>2
    <3> QED
      BY <3>4, <3>5
  <2> HIDE DEF s
  <2> QED
    BY <1>2, <1>4, <2>1, <2>3 DEF Within
<1>13. CASE CapPop(w)
  <2>1. \/ Visits(w)
        \/ /\ frame[w].todo # << >>
           /\ frame'[w].todo = Tail(frame[w].todo) /\ frame'[w].list = frame[w].list
    BY <1>13, CapPopDoes DEF Hand
  <2> QED
    BY <1>4, <1>5, <2>1, EntersWithin DEF Within
<1>14. CASE Fetch(w)
  <2>1. /\ frame'[w].todo = frame[w].todo
        /\ \/ At(MyKey(w)) # 0 /\ frame'[w].list = table[At(MyKey(w))].list
           \/ Gains(w) /\ frame'[w].list = frame[w].packet
    BY <1>14, FetchDoes DEF Hand, Gains, Slot, MyKey, Mine
  <2> QED
    BY <1>1, <1>2, <1>3, <2>1, AtFinds DEF Within
<1>15. CASE Filtered(w)
  BY <1>6, <1>15, FilteredDoes
<1>16. CASE AppendSample(w)
  BY <1>6, <1>16, AppendDoes
<1>17. CASE Count(w)
  BY <1>17, CountDoes, EntersWithin
<1>18. CASE Consider(w) \/ BlockFails(w) \/ BlockRecorded(w)
  BY <1>18, BlockDoes, EntersWithin
<1> QED
  BY <1>7, <1>8, <1>9, <1>10, <1>11, <1>12, <1>13, <1>14, <1>15, <1>16, <1>17, <1>18 DEF Analyses

\* A worker changes one list at most, the one it holds.
Writes(w, s) == content' = [content EXCEPT ![frame[w].list] = s]
\* A list stays, is replaced by what was kept of it, or gains the packet.
LEMMA ContentDoes ==
    ASSUME Shape, NEW w \in Workers, Analyses(w)
    PROVE  \/ content' = content
           \/ /\ frame[w].at \in Sifting /\ frame[w].i > Len(content[frame[w].list])
              /\ Writes(w, frame[w].kept)
           \/ /\ frame[w].at = "append"
              /\ Writes(w, Append(content[frame[w].list], frame[w].packet))
<1>1. CASE Snapshot(w) \/ Sift(w)
  BY <1>1, SnapshotDoes, SiftDoes DEF Stands
<1>2. CASE Cleaned(w)
  BY <1>2, CleanedDoes DEF Writes, Sifting
<1>3. CASE CapTest(w) \/ CapMeasure(w) \/ CapList(w) \/ CapPop(w)
  BY <1>3, CapTestDoes, CapMeasureDoes, CapListDoes, CapPopDoes DEF Stands
<1>4. CASE Fetch(w) \/ Count(w)
  BY <1>4, FetchDoes, CountDoes
<1>5. CASE Filtered(w)
  BY <1>5, FilteredDoes DEF Writes, Sifting
<1>6. CASE AppendSample(w)
  BY <1>6, AppendDoes DEF Writes
<1>7. CASE Consider(w) \/ BlockFails(w) \/ BlockRecorded(w)
  BY <1>7, BlockDoes DEF Stands
<1> QED
  BY <1>1, <1>2, <1>3, <1>4, <1>5, <1>6, <1>7 DEF Analyses

\* Nobody returns to a part before the window of the packet is fetched, and whoever fetches
\* is past it.
LEMMA BeforeFrom ==
    ASSUME Shape, NEW w \in Workers, Analyses(w), frame'[w].at \in Before
    PROVE  frame[w].at \in Before /\ frame[w].at # "fetch"
<1> USE DEF Hand, Enters, Leaves, Visits, Onward, Cleans, Before
<1>1. CASE Snapshot(w)
  BY <1>1, SnapshotDoes
<1>2. CASE Sift(w)
  BY <1>2, SiftDoes DEF Sifting
<1>3. CASE Cleaned(w)
  BY <1>3, CleanedDoes
<1>4. CASE CapTest(w)
  BY <1>4, CapTestDoes
<1>5. CASE CapMeasure(w)
  BY <1>5, CapMeasureDoes
<1>6. CASE CapList(w)
  BY <1>6, CapListDoes
<1>7. CASE CapPop(w)
  BY <1>7, CapPopDoes
<1>8. CASE Fetch(w)
  BY <1>8, FetchDoes
<1>9. CASE Filtered(w)
  BY <1>9, FilteredDoes
<1>10. CASE AppendSample(w)
  BY <1>10, AppendDoes
<1>11. CASE Count(w)
  BY <1>11, CountDoes
<1>12. CASE Consider(w) \/ BlockFails(w) \/ BlockRecorded(w)
  BY <1>12, BlockDoes
<1> QED
  BY <1>1, <1>2, <1>3, <1>4, <1>5, <1>6, <1>7, <1>8, <1>9, <1>10, <1>11, <1>12 DEF Analyses

\* A list nobody made is empty and unknown.
LEMMA AnalysesNew ==
    ASSUME WindowShape, KeysOnce, PacketsApart, NewListsEmpty, Shape, NEW w \in Workers,
           Analyses(w)
    PROVE  NewListsEmpty'
<1>1. /\ UNCHANGED <<traffic, begun>> /\ frame[w].at # "idle"
      /\ \A v \in Workers : v # w => frame'[v] = frame[v]
      /\ frame'[w].at = "idle" \/ frame'[w].packet = frame[w].packet
  BY AnalysesDoes DEF Steady, Keeps
<1>2. frame[w].packet \in Packets \cap 1 .. begun /\ Packets' = Packets
  BY <1>1 DEF Shape, Packets
<1>3. SUFFICES ASSUME NEW p \in Packets, Unmade(p)'
               PROVE  /\ content'[p] = << >> /\ \A e \in Present' : e.list # p
                      /\ \A v \in Workers : frame'[v].list # p
                            /\ \A k \in DOMAIN frame'[v].todo : frame'[v].todo[k].list # p
  BY <1>2 DEF NewListsEmpty
<1>4. Unmade(p) /\ (p = frame[w].packet => frame[w].at # "fetch")
  <2>1. CASE p > begun'
    <3>0. p \in Nat /\ begun \in Nat
      BY TrafficsAssumption DEF Packets, Shape
    <3>1. p > begun /\ p # frame[w].packet
      BY <1>1, <1>2, <2>1, <3>0
    <3> QED
      BY <3>1 DEF Unmade
  <2>2. CASE ~ p > begun'
    <3>1. PICK v \in Workers : frame'[v].packet = p /\ frame'[v].at \in Before
      BY <1>3, <2>2 DEF Unmade
    <3>2. CASE v = w
      <4>1. frame[w].at \in Before /\ frame[w].at # "fetch" /\ frame[w].packet = p
        BY <1>1, <3>1, <3>2, BeforeFrom DEF Before
      <4> QED
        BY <4>1 DEF Unmade
    <3>3. CASE v # w
      <4>1. frame[v].packet = p /\ frame[v].at \in Before /\ frame[v].at # "idle"
        BY <1>1, <3>1, <3>3 DEF Before
      <4>2. p # frame[w].packet
        BY <1>1, <3>3, <4>1 DEF PacketsApart
      <4> QED
        BY <4>1, <4>2 DEF Unmade
    <3> QED
      BY <3>2, <3>3
  <2> QED
    BY <2>1, <2>2
<1>5. /\ content[p] = << >> /\ \A e \in Present : e.list # p
      /\ \A v \in Workers : frame[v].list # p
                            /\ \A k \in DOMAIN frame[v].todo : frame[v].todo[k].list # p
  BY <1>4 DEF NewListsEmpty
<1>6. content'[p] = << >>
  <2>1. DOMAIN content = Packets
    BY DEF WindowShape
  <2>2. content' = content \/ \E s : Writes(w, s)
    BY ContentDoes
  <2> QED
    BY <1>5, <2>1, <2>2 DEF Writes
<1>7. ASSUME Gains(w) PROVE frame[w].packet # p
  BY <1>4, <1>7 DEF Gains
<1>8. \A e \in Present' : e.list # p
  <2>1. CASE table' = table
    BY <1>5, <2>1 DEF Present
  <2>2. ASSUME NEW key, Loses(key) PROVE \A e \in Present' : e.list # p
    BY <1>5, <2>2, LosesIs DEF KeysOnce
  <2>3. CASE Gains(w)
    <3>1. Present' = Present \cup {Slot(frame[w].packet)}
      BY <2>3, GainsIs DEF KeysOnce
    <3> QED
      BY <1>5, <1>7, <2>3, <3>1 DEF Slot
  <2> QED
    BY <2>1, <2>2, <2>3, TableDoes
<1>9. p \notin Known(w)
  <2>1. p # 0
    BY TrafficsAssumption DEF Packets, Shape
  <2> QED
    BY <1>5, <2>1 DEF Known
<1>10. frame'[w].list # p /\ \A k \in DOMAIN frame'[w].todo : frame'[w].todo[k].list # p
  BY <1>7, <1>9, WithinOrNew DEF Within
<1> QED
  BY <1>1, <1>5, <1>6, <1>8, <1>10

\* So is that of the packet that begins.
LEMMA BeginNew ==
    ASSUME NewListsEmpty, Shape, NEW w \in Workers, Begin(w)
    PROVE  NewListsEmpty'
<1>1. /\ frame[w].at = "idle" /\ begun' = begun + 1 /\ begun \in Nat
      /\ frame'[w].packet = begun + 1 /\ frame'[w].todo = << >> /\ frame'[w].list = 0
      /\ \A v \in Workers : v # w => frame'[v] = frame[v]
      /\ UNCHANGED <<traffic, table, content>>
  BY BeginDoes DEF Keeps, Stands, Shape
<1>2. SUFFICES ASSUME NEW p \in Packets, Unmade(p)'
               PROVE  /\ content[p] = << >> /\ \A e \in Present : e.list # p
                      /\ \A v \in Workers : frame'[v].list # p
                            /\ \A k \in DOMAIN frame'[v].todo : frame'[v].todo[k].list # p
  BY <1>1 DEF NewListsEmpty, Packets, Present
<1>3. p \in Nat /\ p # 0
  BY TrafficsAssumption DEF Packets, Shape
<1>4. Unmade(p)
  BY <1>1, <1>2, <1>3 DEF Unmade
<1>5. DOMAIN << >> = {}
  OBVIOUS
<1> QED
  BY <1>1, <1>3, <1>4, <1>5 DEF NewListsEmpty

-----------------------------------------------------------------------------
(* What is counted is fresh, or was put back by a worker that overlaps *)

\* A list and its samples.
LEMMA ContentTyped ==
    ASSUME WindowShape, NEW l \in Packets
    PROVE  /\ content[l] \in Seq(Mates(l)) /\ DOMAIN content[l] = 1 .. Len(content[l])
           /\ Len(content[l]) \in Nat
           /\ \A k \in DOMAIN content[l] : content[l][k] \in Mates(l)
<1>1. content[l] \in Seq(Mates(l))
  BY DEF WindowShape
<1> QED
  BY <1>1, LenProperties, ElementOfSeq

\* The clocks are numbers.
LEMMA ClockNat ==
    ASSUME WindowShape, NEW p \in Packets
    PROVE  clock[p] \in Nat
  BY DEF WindowShape

\* The numbers of the packets.
LEMMA PacketsAre ==
    ASSUME Shape
    PROVE  Packets = 1 .. Len(traffic) /\ Len(traffic) \in Nat /\ begun \in Nat
           /\ Window \in Nat
  BY TrafficsAssumption, LimitsAssumption DEF Packets, Shape

\* What began is a packet, and so is what is in a list.
LEMMA BegunPackets ==
    ASSUME Shape, WindowShape
    PROVE  1 .. begun \subseteq Packets /\ \A p : Mates(p) \subseteq 1 .. begun
<1>1. begun <= Len(traffic)
  BY DEF WindowShape
<1> QED
  BY <1>1, PacketsAre DEF Mates

\* What is fresh to a worker at work is excused to every worker at work, and so is its packet.
LEMMA FreshExcused ==
    ASSUME WindowShape, Shape, Met, BusyOverlap,
           NEW v \in Workers, frame[v].at # "idle", NEW w \in Workers, frame[w].at # "idle"
    PROVE  /\ \A q : Fresh(w, q) => Excused(q, frame[v].packet)
           /\ Excused(frame[w].packet, frame[v].packet)
<1>1. frame[w].packet \in Packets /\ frame[v].packet \in Packets
  BY DEF Shape
<1>2. frame[w].packet \in ran[frame[v].packet]
  BY <1>1 DEF BusyOverlap, Met
<1>3. clock[frame[w].packet] + Window >= clock[frame[w].packet]
  BY <1>1, ClockNat, PacketsAre
<1> QED
  BY <1>2, <1>3 DEF Fresh, Excused

\* A list that is excused to a worker stays so; one that is stored is.
LEMMA WritingExcused ==
    ASSUME WindowShape, Shape, Met, BusyOverlap, Excuses, NEW w \in Workers, Analyses(w),
           NEW v \in Workers, frame[v].at # "idle", NEW l \in Packets
    PROVE  /\ ListExcused(l, frame[v].packet)
              => \A k \in DOMAIN content'[l] : Excused(content'[l][k], frame[v].packet)
           /\ frame[w].at \in Sifting /\ l = frame[w].list /\ content'[l] = frame[w].kept
              => \A k \in DOMAIN content'[l] : Excused(content'[l][k], frame[v].packet)
<1> DEFINE p == frame[v].packet
<1>1. frame[w].at # "idle"
  BY AnalysesDoes
<1>2. /\ \A q : Fresh(w, q) => Excused(q, p)
      /\ Excused(frame[w].packet, p)
  BY <1>1, FreshExcused
<1>3. frame[w].at \in Sifting => \A k \in DOMAIN frame[w].kept : Excused(frame[w].kept[k], p)
  BY <1>2 DEF Excuses, Excusing
<1>4. DOMAIN content = Packets
  BY DEF WindowShape
<1>5. ASSUME ListExcused(l, p)
      PROVE  \A k \in DOMAIN content'[l] : Excused(content'[l][k], p)
  <2>1. CASE content' = content
    BY <1>5, <2>1 DEF ListExcused
  <2>2. CASE frame[w].at \in Sifting /\ Writes(w, frame[w].kept)
    <3>1. content'[l] = IF l = frame[w].list THEN frame[w].kept ELSE content[l]
      BY <1>4, <2>2 DEF Writes
    <3> QED
      BY <1>3, <1>5, <2>2, <3>1 DEF ListExcused
  <2>3. CASE Writes(w, Append(content[frame[w].list], frame[w].packet)) /\ frame[w].at = "append"
    <3>1. CASE l = frame[w].list
      <4> DEFINE s == content[l]
                 q == frame[w].packet
      <4>1. content'[l] = Append(s, q)
        BY <1>4, <2>3, <3>1 DEF Writes
      <4>2. s \in Seq(Packets) /\ q \in Packets
        <5>1. s \in Seq(Mates(l)) /\ Mates(l) \subseteq Packets
          BY BegunPackets DEF WindowShape
        <5> QED
          BY <1>1, <5>1, WiderSeq DEF Shape
      <4>3. \A k \in DOMAIN s : Excused(s[k], p)
        BY <1>5 DEF ListExcused
      <4>4. Excused(q, p)
        BY <1>2
      <4> HIDE DEF s, q, p
      <4> QED
        BY <4>1, <4>2, <4>3, <4>4, AppendIs
    <3>2. CASE l # frame[w].list
      <4>1. content'[l] = content[l]
        BY <2>3, <3>2 DEF Writes
      <4> QED
        BY <1>5, <4>1 DEF ListExcused
    <3> QED
      BY <3>1, <3>2
  <2> QED
    BY <2>1, <2>2, <2>3, ContentDoes
<1> QED
  BY <1>3, <1>5

\* What is excused in the state after a step of an analysis.
LEMMA SteadyExcused ==
    ASSUME Steady
    PROVE  \A q, p : Excused(q, p)' <=> Excused(q, p)
  BY DEF Excused, Steady

\* The list of an entry of the table that was excused stays so; a new one is empty.
LEMMA ListStays ==
    ASSUME WindowShape, Shape, Met, BusyOverlap, Excuses, NEW w \in Workers, Analyses(w),
           NEW v \in Workers, frame[v].at # "idle", NEW p, p = frame[v].packet,
           NEW l \in Packets
    PROVE  /\ ListExcused(l, p) => ListExcused(l, p)'
           /\ frame[w].at \in Sifting /\ l = frame[w].list /\ content'[l] = frame[w].kept
              => ListExcused(l, p)'
<1>1. Steady
  BY AnalysesDoes
<1>2. (\A k \in DOMAIN content'[l] : Excused(content'[l][k], p)) => ListExcused(l, p)'
  BY <1>1 DEF ListExcused, Excused, Steady
<1> QED
  BY <1>2, WritingExcused

\* A list that is new to the table holds nothing old.
LEMMA NewStays ==
    ASSUME WindowShape, Shape, KeysOnce, NewListsEmpty, NEW w \in Workers, Analyses(w),
           NEW e \in Present', e \notin Present, NEW p
    PROVE  ListExcused(e.list, p)'
<1>1. Gains(w)
  <2>1. CASE table' = table
    BY <2>1 DEF Present
  <2>2. ASSUME NEW key, Loses(key) PROVE FALSE
    BY <2>2, LosesIs DEF KeysOnce
  <2> QED
    BY <2>1, <2>2, TableDoes
<1>2. e = Slot(frame[w].packet) /\ frame[w].packet \in Packets
  BY <1>1, GainsIs DEF KeysOnce
<1>3. frame[w].at = "fetch"
  BY <1>1 DEF Gains
<1>4. content' = content
  BY <1>3, ContentDoes DEF Sifting
<1>5. content[frame[w].packet] = << >>
  BY <1>2, <1>3 DEF NewListsEmpty, Unmade, Before
<1>6. e.list = frame[w].packet
  BY <1>2 DEF Slot
<1>7. content'[e.list] = << >> /\ DOMAIN << >> = {}
  BY <1>4, <1>5, <1>6
<1> QED
  BY <1>7 DEF ListExcused

Cleaning == /\ WindowShape /\ Shape /\ KeysOnce /\ Ordered /\ BusyOverlap /\ NewListsEmpty
            /\ Excuses

\* A list of the table that a worker has cleaned holds nothing old later on.
LEMMA EntryStays ==
    ASSUME Cleaning, NEW w \in Workers, Analyses(w), NEW v \in Workers, frame[v].at # "idle",
           NEW p, p = frame[v].packet, NEW e \in Present', ListExcused(e.list, p)
    PROVE  ListExcused(e.list, p)'
<1>1. CASE e \in Present
  <2>1. e.list \in Packets
    BY <1>1, SlotIs, PresentSlots DEF Cleaning, WindowShape
  <2> QED
    BY <2>1, ListStays DEF Cleaning, Ordered
<1>2. CASE e \notin Present
  BY <1>2, NewStays DEF Cleaning
<1> QED
  BY <1>1, <1>2

\* A step of one worker leaves the others what they have established.
LEMMA OthersExcusing ==
    ASSUME Cleaning, NEW w \in Workers, Analyses(w), NEW v \in Workers, v # w
    PROVE  Excusing(v)'
<1>1. frame'[v] = frame[v] /\ Steady
  BY AnalysesDoes DEF Keeps, Cleaning
<1>2. CASE frame[v].at = "idle"
  BY <1>1, <1>2 DEF Excusing, Capping, Holding, Sifting
<1>3. CASE frame[v].at # "idle"
  <2>1. PICK p : p = frame[v].packet
    OBVIOUS
  <2>2. Excusing(v)
    BY DEF Cleaning, Excuses
  <2>3. ASSUME frame[v].at = "clean", NEW e \in Present'
        PROVE  \/ \E k \in DOMAIN frame[v].todo : frame[v].todo[k].list = e.list
               \/ ListExcused(e.list, p)'
    <3>1. CASE e \in Present
      BY <1>3, <2>1, <2>2, <2>3, <3>1, EntryStays DEF Excusing
    <3>2. CASE e \notin Present
      BY <3>2, NewStays DEF Cleaning
    <3> QED
      BY <3>1, <3>2
  <2>4. ASSUME frame[v].at \in Capping \cup {"fetch"}, NEW e \in Present'
        PROVE  ListExcused(e.list, p)'
    <3>1. CASE e \in Present
      BY <1>3, <2>1, <2>2, <2>4, <3>1, EntryStays DEF Excusing
    <3>2. CASE e \notin Present
      BY <3>2, NewStays DEF Cleaning
    <3> QED
      BY <3>1, <3>2
  <2>5. PICK l : l = frame[v].list
    OBVIOUS
  <2>6. ASSUME frame[v].at \in Holding PROVE ListExcused(l, p)'
    <3>1. l \in Packets /\ ListExcused(l, p)
      BY <2>1, <2>2, <2>5, <2>6 DEF Cleaning, WindowShape, FrameTyped, Excusing
    <3> QED
      BY <1>3, <2>1, <3>1, ListStays DEF Cleaning, Ordered
  <2>7. ASSUME frame[v].at \in Sifting, NEW k \in DOMAIN frame[v].kept
        PROVE  Fresh(v, frame[v].kept[k])'
    BY <1>1, <2>2, <2>7 DEF Excusing, Fresh, Steady
  <2>8. frame'[v].packet = p /\ frame'[v].list = l
    BY <1>1, <2>1, <2>5
  <2> QED
    BY <1>1, <2>3, <2>4, <2>6, <2>7, <2>8 DEF Excusing
<1> QED
  BY <1>2, <1>3

\* A worker that goes on with what is left to clean.
LEMMA OnwardExcusing ==
    ASSUME NEW w \in Workers, NEW p, p = frame[w].packet, NEW entries, Onward(w, entries),
           \A e \in Present' : \/ \E k \in DOMAIN entries : entries[k].list = e.list
                               \/ ListExcused(e.list, p)'
    PROVE  Excusing(w)'
<1>0. DOMAIN << >> = {}
  OBVIOUS
<1>1. CASE Cleans(w, entries)
  <2>1. /\ frame'[w].at = "clean" /\ frame'[w].todo = entries /\ frame'[w].kept = << >>
        /\ frame'[w].packet = p
    BY <1>1 DEF Cleans, Hand
  <2> QED
    BY <1>0, <2>1 DEF Excusing, Capping, Holding
<1>2. CASE ~ Cleans(w, entries)
  <2>1. entries = << >> /\ (Enters(w, "cap") \/ Visits(w))
    BY <1>2 DEF Onward
  <2>2. \A e \in Present' : ListExcused(e.list, p)'
    BY <1>0, <2>1
  <2>3. \/ frame'[w].at \in {"cap", "fetch", "alert"} /\ frame'[w].packet = p
        \/ frame'[w].at = "idle"
    BY <2>1 DEF Visits, Enters, Leaves, Hand
  <2> QED
    BY <2>2, <2>3 DEF Excusing, Capping, Holding, Sifting
<1> QED
  BY <1>1, <1>2

\* A list that was cleaned holds nothing old.
LEMMA CleanedExcusing ==
    ASSUME Cleaning, NEW w \in Workers, Cleaned(w)
    PROVE  Excusing(w)'
<1> DEFINE f == frame[w]
<1>0. Analyses(w)
  BY DEF Analyses
<1>1. /\ f.at = "clean" /\ content' = [content EXCEPT ![f.list] = f.kept]
      /\ Onward(w, Tail(f.todo)) \/ Enters(w, "alert") \/ Leaves(w)
      /\ table' = table \/ \E key : Loses(key)
  BY CleanedDoes DEF Cleaning, Loses
<1>2. /\ f.todo \in Seq(Slots) /\ f.todo # << >> /\ f.list = f.todo[1].list
      /\ DOMAIN content = Packets /\ Excusing(w)
  BY <1>1 DEF Cleaning, WindowShape, FrameTyped, Excuses
<1>3. PICK p : p = f.packet
  OBVIOUS
<1>4. ASSUME NEW e \in Present'
      PROVE  \/ \E k \in DOMAIN Tail(f.todo) : Tail(f.todo)[k].list = e.list
             \/ ListExcused(e.list, p)'
  <2>1. e \in Present
    <3>1. CASE table' = table
      BY <3>1 DEF Present
    <3>2. ASSUME NEW key, Loses(key) PROVE e \in Present
      BY <3>2, LosesIs DEF Cleaning, KeysOnce
    <3> QED
      BY <1>1, <3>1, <3>2
  <2>2. e.list \in Packets
    BY <2>1, SlotIs, PresentSlots DEF Cleaning, WindowShape
  <2>3. CASE ListExcused(e.list, p)
    BY <1>0, <1>1, <1>3, <2>3, EntryStays
  <2>4. ASSUME NEW k \in DOMAIN f.todo, f.todo[k].list = e.list
        PROVE  \/ \E j \in DOMAIN Tail(f.todo) : Tail(f.todo)[j].list = e.list
               \/ ListExcused(e.list, p)'
    <3>1. CASE k = 1
      <4>1. e.list = f.list /\ content'[e.list] = f.kept
        BY <1>1, <1>2, <2>2, <2>4, <3>1
      <4> QED
        BY <1>0, <1>1, <1>3, <2>2, <4>1, ListStays DEF Cleaning, Ordered, Sifting
    <3>2. CASE k # 1
      <4>1. k - 1 \in DOMAIN Tail(f.todo) /\ k \in Nat
        BY <1>2, <2>4, <3>2, TailIs
      <4>2. Tail(f.todo)[k - 1] = f.todo[k - 1 + 1]
        BY <1>2, <4>1, TailIs
      <4>3. k - 1 + 1 = k
        BY <4>1
      <4> QED
        BY <2>4, <4>1, <4>2, <4>3
    <3> QED
      BY <3>1, <3>2
  <2> QED
    BY <1>1, <1>2, <1>3, <2>1, <2>3, <2>4 DEF Excusing
<1>5. CASE Onward(w, Tail(f.todo))
  BY <1>3, <1>4, <1>5, OnwardExcusing
<1>6. CASE Enters(w, "alert") \/ Leaves(w)
  BY <1>6 DEF Enters, Leaves, Hand, Excusing, Capping, Holding, Sifting
<1> QED
  BY <1>1, <1>5, <1>6

\* What is kept is fresh.
LEMMA SiftExcusing ==
    ASSUME Cleaning, NEW w \in Workers, Sift(w)
    PROVE  Excusing(w)'
<1> DEFINE f == frame[w]
           q == content[f.list][f.i]
           s == IF Fresh(w, q) THEN Append(f.kept, q) ELSE f.kept
<1>1. /\ f.at \in Sifting /\ f.i <= Len(content[f.list]) /\ Steady /\ Stands
      /\ Hand(w, f.at, f.todo, f.list, f.i + 1, s, f.over)
  BY SiftDoes DEF Cleaning
<1>2. Excusing(w) /\ f.kept \in Seq(Mates(f.list)) /\ f.list \in Packets /\ f.i \in Nat \ {0}
  <2>1. f.list \in Packets
    <3>1. CASE f.at = "clean"
      <4>1. f.todo \in Seq(Slots) /\ f.todo # << >> /\ f.list = f.todo[1].list
        BY <3>1 DEF Cleaning, WindowShape, FrameTyped
      <4>2. 1 \in 1 .. Len(f.todo)
        BY <4>1, TailIs
      <4>3. f.todo[1] \in Slots
        BY <4>1, <4>2, ElementOfSeq
      <4> QED
        BY <4>1, <4>3, SlotIs
    <3>2. CASE f.at = "filter"
      BY <3>2 DEF Cleaning, WindowShape, FrameTyped, Holding
    <3> QED
      BY <1>1, <3>1, <3>2 DEF Sifting
  <2> QED
    BY <1>1, <2>1 DEF Cleaning, WindowShape, FrameTyped, Excuses
<1>3. q \in Mates(f.list)
  <2>1. f.i \in DOMAIN content[f.list]
    BY <1>1, <1>2, ContentTyped DEF Cleaning
  <2> QED
    BY <1>2, <2>1, ContentTyped DEF Cleaning
<1>4. \A k \in DOMAIN f.kept : Fresh(w, f.kept[k])
  BY <1>1, <1>2 DEF Excusing
<1>5. \A k \in DOMAIN s : Fresh(w, s[k])
  <2> DEFINE kept == f.kept
             S == Mates(f.list)
  <2> HIDE DEF q, S
  <2>1. CASE Fresh(w, q)
    <3>1. s = Append(kept, q)
      BY <2>1
    <3>2. kept \in Seq(S) /\ q \in S /\ \A k \in DOMAIN kept : Fresh(w, kept[k])
      BY <1>2, <1>3, <1>4 DEF S, q
    <3> HIDE DEF kept, s
    <3> QED
      BY <2>1, <3>1, <3>2, AppendIs
  <2>2. CASE ~ Fresh(w, q)
    BY <1>4, <2>2
  <2> QED
    BY <2>1, <2>2
<1> HIDE DEF s, q
<1>6. /\ frame'[w].at = f.at /\ frame'[w].packet = f.packet /\ frame'[w].todo = f.todo
      /\ frame'[w].list = f.list /\ frame'[w].kept = s
  BY <1>1 DEF Hand
<1>7. \A x : Fresh(w, x)' <=> Fresh(w, x)
  BY <1>1, <1>6 DEF Fresh, Steady
<1>8. \A l, p : ListExcused(l, p)' <=> ListExcused(l, p)
  BY <1>1 DEF Stands, Steady, ListExcused, Excused
<1>9. Present' = Present
  BY <1>1 DEF Present, Stands
<1>10. \A k \in DOMAIN frame'[w].kept : Fresh(w, frame[w].kept[k])'
  BY <1>5, <1>6, <1>7
<1> QED
  BY <1>2, <1>6, <1>8, <1>9, <1>10 DEF Excusing

\* Whoever leaves the windows, or enters the part that limits the keys or the one that fetches.
LEMMA VisitsExcusing ==
    ASSUME NEW w \in Workers, Visits(w) \/ (\E step \in {"alert", "block"} : Enters(w, step))
                              \/ Leaves(w),
           NEW p, p = frame[w].packet, \A e \in Present' : ListExcused(e.list, p)'
    PROVE  Excusing(w)'
<1>1. \/ frame'[w].at \in {"fetch", "alert", "block"} /\ frame'[w].packet = p
      \/ frame'[w].at = "idle"
  BY DEF Visits, Enters, Leaves, Hand
<1> QED
  BY <1>1 DEF Excusing, Capping, Holding, Sifting

\* Nothing is claimed of a worker past its count.
LEMMA LeavingExcusing ==
    ASSUME NEW w \in Workers, frame'[w].at \in {"idle", "alert", "block"}
    PROVE  Excusing(w)'
  BY DEF Excusing, Capping, Holding, Sifting

\* Dropping a key leaves the other lists as they are.
LEMMA CappingExcusing ==
    ASSUME Cleaning, NEW w \in Workers, CapTest(w) \/ CapMeasure(w) \/ CapList(w) \/ CapPop(w)
    PROVE  Excusing(w)'
<1>0. Analyses(w)
  BY DEF Analyses
<1>1. frame[w].at \in Capping
  BY CapTestDoes, CapMeasureDoes, CapListDoes, CapPopDoes DEF Cleaning, Capping
<1>2. PICK p : p = frame[w].packet
  OBVIOUS
<1>3. \A e \in Present : ListExcused(e.list, p)
  BY <1>1, <1>2 DEF Cleaning, Excuses, Excusing
<1>4. \A e \in Present' : ListExcused(e.list, p)'
  <2>1. frame[w].at # "idle"
    BY <1>1 DEF Capping
  <2> QED
    BY <1>0, <1>2, <1>3, <2>1, EntryStays, NewStays DEF Cleaning
<1>5. \/ Visits(w)
      \/ /\ frame'[w].at \in {"measure", "list", "pop"} /\ frame'[w].packet = p
  BY <1>2, CapTestDoes, CapMeasureDoes, CapListDoes, CapPopDoes DEF Cleaning, Hand
<1>6. CASE Visits(w)
  BY <1>2, <1>4, <1>6, VisitsExcusing
<1>7. CASE frame'[w].at \in {"measure", "list", "pop"} /\ frame'[w].packet = p
  BY <1>4, <1>7 DEF Excusing, Holding, Sifting
<1> QED
  BY <1>5, <1>6, <1>7

\* The list a worker has fetched is excused to it: it was in the table, or is new.
LEMMA FetchExcusing ==
    ASSUME Cleaning, NEW w \in Workers, Fetch(w)
    PROVE  Excusing(w)'
<1> DEFINE known == At(MyKey(w))
<1>1. /\ frame[w].at = "fetch" /\ Steady /\ UNCHANGED content
      /\ frame'[w].at \in {"filter", "append"} /\ frame'[w].packet = frame[w].packet
      /\ frame'[w].kept = << >>
      /\ \/ known # 0 /\ frame'[w].list = table[known].list
         \/ known = 0 /\ frame'[w].list = frame[w].packet
  BY FetchDoes DEF Cleaning, Hand
<1>2. PICK p : p = frame[w].packet
  OBVIOUS
<1>3. PICK l : l = frame'[w].list
  OBVIOUS
<1>4. ListExcused(l, p)
  <2>1. CASE known # 0
    <3>1. table[known] \in Present
      BY <2>1, AtFinds DEF Cleaning, WindowShape
    <3> QED
      BY <1>1, <1>2, <1>3, <2>1, <3>1 DEF Cleaning, Excuses, Excusing
  <2>2. CASE known = 0
    <3>1. l = frame[w].packet /\ l \in Packets
      BY <1>1, <1>3, <2>2 DEF Cleaning, Shape
    <3>2. content[l] = << >>
      BY <1>1, <3>1 DEF Cleaning, NewListsEmpty, Unmade, Before
    <3>3. DOMAIN << >> = {}
      OBVIOUS
    <3> QED
      BY <3>2, <3>3 DEF ListExcused
  <2> QED
    BY <2>1, <2>2
<1>5. ListExcused(l, p)'
  BY <1>1, <1>4 DEF ListExcused, Excused, Steady
<1>6. DOMAIN << >> = {}
  OBVIOUS
<1> QED
  BY <1>1, <1>2, <1>3, <1>5, <1>6 DEF Excusing, Capping

\* A list that is stored holds what is fresh; the packet that is appended is fresh to itself.
LEMMA StoringExcusing ==
    ASSUME Cleaning, NEW w \in Workers, Filtered(w) \/ AppendSample(w)
    PROVE  Excusing(w)'
<1>0. Analyses(w)
  BY DEF Analyses
<1>1. frame[w].at \in Holding
  BY FilteredDoes, AppendDoes DEF Cleaning, Holding
<1>2. PICK p : p = frame[w].packet
  OBVIOUS
<1>3. PICK l : l = frame[w].list
  OBVIOUS
<1>4. l \in Packets /\ ListExcused(l, p) /\ DOMAIN content = Packets
      /\ (frame[w].at = "append" => frame[w].kept = << >>)
  BY <1>1, <1>2, <1>3 DEF Cleaning, WindowShape, FrameTyped, Excuses, Excusing
<1>5. frame[w].at # "idle"
  BY <1>1 DEF Holding
<1>6. ListExcused(l, p)'
  BY <1>0, <1>2, <1>4, <1>5, ListStays DEF Cleaning, Ordered
<1>7. /\ frame'[w].at \in Holding /\ frame'[w].packet = p /\ frame'[w].list = l
      /\ frame'[w].at = "filter" => frame'[w].kept = << >>
  <2>1. CASE Filtered(w)
    BY <1>2, <1>3, <2>1, FilteredDoes DEF Cleaning, Hand, Holding
  <2>2. CASE AppendSample(w)
    BY <1>2, <1>3, <1>4, <2>2, AppendDoes DEF Cleaning, Hand, Holding
  <2> QED
    BY <2>1, <2>2
<1>8. DOMAIN << >> = {}
  OBVIOUS
<1> QED
  BY <1>6, <1>7, <1>8 DEF Excusing, Holding, Capping, Sifting

\* What a worker has cleaned holds nothing old, whatever step an analysis takes.
LEMMA AnalysesExcuses ==
    ASSUME Cleaning, NEW w \in Workers, Analyses(w)
    PROVE  Excuses'
<1>1. Excusing(w)'
  <2>1. CASE Snapshot(w)
    <3>1. Onward(w, table) /\ Stands
      BY <2>1, SnapshotDoes DEF Cleaning
    <3>2. PICK p : p = frame[w].packet
      OBVIOUS
    <3>3. \A e \in Present' : \E k \in DOMAIN table : table[k].list = e.list
      BY <3>1 DEF Present, Stands
    <3> QED
      BY <3>1, <3>2, <3>3, OnwardExcusing
  <2>2. CASE Sift(w)
    BY <2>2, SiftExcusing
  <2>3. CASE Cleaned(w)
    BY <2>3, CleanedExcusing
  <2>4. CASE CapTest(w) \/ CapMeasure(w) \/ CapList(w) \/ CapPop(w)
    BY <2>4, CappingExcusing
  <2>5. CASE Fetch(w)
    BY <2>5, FetchExcusing
  <2>6. CASE Filtered(w) \/ AppendSample(w)
    BY <2>6, StoringExcusing
  <2>7. CASE Count(w)
    BY <2>7, CountDoes, LeavingExcusing DEF Cleaning, Enters, Leaves, Hand
  <2>8. CASE Consider(w) \/ BlockFails(w) \/ BlockRecorded(w)
    BY <2>8, BlockDoes, LeavingExcusing DEF Cleaning, Enters, Leaves, Hand
  <2> QED
    BY <2>1, <2>2, <2>3, <2>4, <2>5, <2>6, <2>7, <2>8 DEF Analyses
<1> QED
  BY <1>1, OthersExcusing DEF Excuses

\* What is counted is a sample of the packet's own key, and none begun later unless it was
\* analysed at the same time.
LEMMA AnalysesCounts ==
    ASSUME Cleaning, CountsWhatIsFresh, CountsOwn, NEW w \in Workers, Analyses(w)
    PROVE  CountsWhatIsFresh' /\ CountsOwn'
<1>1. Steady
  BY AnalysesDoes DEF Cleaning
<1>2. \A p : Mates(p)' = Mates(p)
  BY <1>1, LastingMates
<1>3. Packets' = Packets /\ \A q, p : Excused(q, p)' <=> Excused(q, p)
  BY <1>1, Lasting, SteadyExcused DEF Steady
<1>4. SUFFICES ASSUME NEW p \in Packets, NEW q \in counted'[p]
               PROVE  /\ p <= begun /\ q \in Mates(p) /\ (q <= p \/ q \in ran[p])
                      /\ Excused(q, p)
  <2>1. 1 .. begun \subseteq Packets
    BY BegunPackets DEF Cleaning
  <2> QED
    BY <1>1, <1>2, <1>3, <1>4, <2>1 DEF CountsWhatIsFresh, CountsOwn, Excused, Steady
<1>5. CASE q \in counted[p]
  <2>1. p <= begun /\ q \in Mates(p) /\ (q <= p \/ q \in ran[p])
    BY <1>5 DEF CountsOwn
  <2>2. p \in 1 .. begun
    BY <2>1, PacketsAre DEF Cleaning
  <2> QED
    BY <1>5, <2>1, <2>2 DEF CountsWhatIsFresh, Excused
<1>6. CASE q \notin counted[p]
  <2>1. Count(w)
    BY <1>6, SnapshotDoes, SiftDoes, CleanedDoes, CapTestDoes, CapMeasureDoes, CapListDoes,
       CapPopDoes, FetchDoes, FilteredDoes, AppendDoes, BlockDoes DEF Analyses, Stands, Cleaning
  <2> DEFINE l == frame[w].list
  <2>2. /\ frame[w].at = "count"
        /\ counted' = [counted EXCEPT ![frame[w].packet] = ToSet(content[l])]
    BY <2>1, CountDoes DEF Cleaning
  <2>3. l \in Packets /\ Key(traffic[l]) = MyKey(w) /\ DOMAIN counted = Packets
    BY <2>2 DEF Cleaning, WindowShape, FrameTyped, Holding
  <2>4. p = frame[w].packet /\ p \in 1 .. begun
    BY <1>6, <2>2, <2>3 DEF Cleaning, Shape
  <2>5. PICK k \in DOMAIN content[l] : q = content[l][k]
    BY <2>2, <2>3, <2>4 DEF ToSet
  <2>6. q \in Mates(l) /\ Excused(q, p)
    BY <2>2, <2>3, <2>4, <2>5, ContentTyped
       DEF Cleaning, Excuses, Excusing, Holding, ListExcused
  <2>7. q \in Mates(p)
    BY <2>3, <2>4, <2>6 DEF Mates, MyKey, Mine
  <2>8. q <= p \/ q \in ran[p]
    <3>1. q \in 1 .. begun /\ begun \in Nat
      BY <2>6, PacketsAre DEF Mates, Cleaning
    <3>2. CASE ~ q <= p
      <4>1. q \in p + 1 .. begun
        BY <2>4, <3>1, <3>2
      <4> QED
        BY <2>2, <2>4, <4>1 DEF Cleaning, Ordered, Met
    <3> QED
      BY <3>2
  <2>9. p <= begun
    BY <2>4, PacketsAre DEF Cleaning
  <2> QED
    BY <2>6, <2>7, <2>8, <2>9
<1> QED
  BY <1>5, <1>6

\* A packet that begins takes nothing from what the others are excused for.
LEMMA BeginExcused ==
    ASSUME WindowShape, Shape, Met, NEW w \in Workers, Begin(w),
           NEW q \in 1 .. begun, NEW p \in 1 .. begun, Excused(q, p)
    PROVE  Excused(q, p)'
<1>1. /\ clock' = [clock EXCEPT ![begun + 1] = now]
      /\ \A x \in Packets : x # begun + 1 => ran[x] \subseteq ran'[x]
  BY BeginDoes
<1>2. PICK r \in ran[p] : clock[q] + Window >= clock[r]
  BY DEF Excused
<1>3. p \in Packets /\ begun \in Nat
  BY BegunPackets, PacketsAre
<1>4. p # begun + 1 /\ q # begun + 1 /\ r # begun + 1
  <2>1. r \in 1 .. begun
    BY <1>2 DEF Met
  <2> QED
    BY <1>3, <2>1
<1>5. r \in ran'[p]
  BY <1>1, <1>2, <1>3, <1>4
<1>6. clock'[q] = clock[q] /\ clock'[r] = clock[r]
  BY <1>1, <1>4 DEF WindowShape
<1> QED
  BY <1>2, <1>5, <1>6 DEF Excused

\* Nor does the next packet make anything old for those at work.
LEMMA BeginExcuses ==
    ASSUME Cleaning, CountsWhatIsFresh, CountsOwn, NEW w \in Workers, Begin(w)
    PROVE  Excuses' /\ CountsWhatIsFresh' /\ CountsOwn'
<1>1. /\ frame[w].at = "idle" /\ begun' = begun + 1
      /\ clock' = [clock EXCEPT ![begun + 1] = now]
      /\ \A x \in Packets : x # begun + 1 => ran[x] \subseteq ran'[x]
      /\ frame'[w].at = "snapshot" /\ \A v \in Workers : v # w => frame'[v] = frame[v]
      /\ UNCHANGED <<traffic, engine, now>> /\ Stands
  BY BeginDoes DEF Keeps, Cleaning
<1>2. /\ Packets = 1 .. Len(traffic) /\ Len(traffic) \in Nat /\ begun \in Nat
      /\ 1 .. begun \subseteq Packets /\ \A p : Mates(p) \subseteq 1 .. begun
  BY PacketsAre, BegunPackets DEF Cleaning
<1>3. ASSUME NEW l \in Packets, NEW p \in 1 .. begun, ListExcused(l, p)
      PROVE  ListExcused(l, p)'
  <2>1. \A k \in DOMAIN content[l] : content[l][k] \in 1 .. begun /\ Excused(content[l][k], p)
    BY <1>2, <1>3, ContentTyped DEF Cleaning, ListExcused
  <2>2. \A q \in 1 .. begun : Excused(q, p) => Excused(q, p)'
    BY BeginExcused DEF Cleaning, Ordered
  <2>3. content' = content
    BY <1>1 DEF Stands
  <2>4. \A q \in 1 .. begun : Excused(q, p) => \E r \in ran'[p] : clock'[q] + Window >= clock'[r]
    BY <2>2 DEF Excused
  <2> QED
    BY <2>1, <2>3, <2>4 DEF ListExcused, Excused
<1>4. ASSUME NEW v \in Workers PROVE Excusing(v)'
  <2>1. CASE v = w
    BY <1>1, <2>1 DEF Excusing, Capping, Holding, Sifting
  <2>2. CASE v # w
    <3>1. frame'[v] = frame[v] /\ Excusing(v) /\ Present' = Present
      BY <1>1, <2>2 DEF Cleaning, Excuses, Present, Stands
    <3>2. CASE frame[v].at = "idle"
      BY <3>1, <3>2 DEF Excusing, Capping, Holding, Sifting
    <3>3. CASE frame[v].at # "idle"
      <4>1. PICK p \in 1 .. begun : p = frame[v].packet
        BY <3>3 DEF Cleaning, Shape
      <4>2. \A e \in Present : e.list \in Packets
        BY SlotIs, PresentSlots DEF Cleaning, WindowShape
      <4>3. PICK l : l = frame[v].list
        OBVIOUS
      <4>4. frame[v].at \in Holding => l \in Packets
        BY <4>3 DEF Cleaning, WindowShape, FrameTyped
      <4>5. \A e \in Present : ListExcused(e.list, p) => ListExcused(e.list, p)'
        BY <1>3, <4>2
      <4>6. frame[v].at \in Holding => ListExcused(l, p)'
        BY <1>3, <3>1, <4>1, <4>3, <4>4 DEF Excusing
      <4>7. ASSUME frame[v].at \in Sifting, NEW k \in DOMAIN frame[v].kept
            PROVE  Fresh(v, frame[v].kept[k])'
        <5>1. l \in Packets
          <6>1. CASE frame[v].at = "clean"
            <7>1. /\ frame[v].todo \in Seq(Slots) /\ frame[v].todo # << >>
                  /\ l = frame[v].todo[1].list
              BY <4>3, <6>1 DEF Cleaning, WindowShape, FrameTyped
            <7>2. 1 \in 1 .. Len(frame[v].todo)
              BY <7>1, TailIs
            <7>3. frame[v].todo[1] \in Slots
              BY <7>1, <7>2, ElementOfSeq
            <7> QED
              BY <7>1, <7>3, SlotIs
          <6>2. CASE frame[v].at = "filter"
            BY <4>4, <6>2 DEF Holding
          <6> QED
            BY <4>7, <6>1, <6>2 DEF Sifting
        <5>2. frame[v].kept \in Seq(Mates(l))
          BY <4>3, <4>7 DEF Cleaning, WindowShape, FrameTyped
        <5>3. frame[v].kept[k] \in 1 .. begun
          BY <1>2, <5>2, LenProperties, ElementOfSeq
        <5>4. Fresh(v, frame[v].kept[k])
          BY <3>1, <4>7 DEF Excusing
        <5>5. frame[v].kept[k] # begun + 1 /\ p # begun + 1
          BY <1>2, <5>3
        <5>6. frame[v].kept[k] \in Packets /\ p \in Packets
          BY <1>2, <5>3
        <5>7. clock'[frame[v].kept[k]] = clock[frame[v].kept[k]] /\ clock'[p] = clock[p]
          BY <1>1, <5>5, <5>6 DEF Cleaning, WindowShape
        <5> QED
          BY <3>1, <4>1, <5>4, <5>7 DEF Fresh
      <4>8. frame'[v].packet = p /\ frame'[v].list = l
        BY <3>1, <4>1, <4>3
      <4> QED
        BY <3>1, <4>1, <4>5, <4>6, <4>7, <4>8 DEF Excusing
    <3> QED
      BY <3>2, <3>3
  <2> QED
    BY <2>1, <2>2
<1>5. counted' = counted /\ Packets' = Packets
  BY <1>1, Lasting DEF Stands
<1>6. CountsOwn'
  <2> SUFFICES ASSUME NEW p \in Packets, NEW q \in counted[p]
               PROVE  p <= begun + 1 /\ q \in Mates(p)' /\ (q <= p \/ q \in ran'[p])
    BY <1>1, <1>5 DEF CountsOwn
  <2>1. p <= begun /\ q \in Mates(p) /\ (q <= p \/ q \in ran[p])
    BY DEF CountsOwn
  <2>2. Mates(p) \subseteq Mates(p)'
    BY <1>1, <1>2 DEF Mates, Key
  <2>3. p \in Nat /\ p # begun + 1
    BY <1>2, <2>1
  <2> QED
    BY <1>1, <1>2, <2>1, <2>2, <2>3
<1>7. CountsWhatIsFresh'
  <2> SUFFICES ASSUME NEW p \in 1 .. begun', NEW q \in counted[p]
               PROVE  Excused(q, p)'
    BY <1>5 DEF CountsWhatIsFresh, Excused
  <2>1. p \in Packets
    <3>1. begun + 1 \in Packets
      BY BeginDoes DEF Cleaning
    <3> QED
      BY <1>1, <1>2, <3>1
  <2>2. p <= begun /\ q \in 1 .. begun
    BY <1>2, <2>1 DEF CountsOwn
  <2>3. p \in 1 .. begun
    BY <1>2, <2>1, <2>2
  <2>4. Excused(q, p)
    BY <2>3 DEF CountsWhatIsFresh, Excused
  <2> QED
    BY <2>2, <2>3, <2>4, BeginExcused DEF Cleaning, Ordered
<1> QED
  BY <1>4, <1>6, <1>7 DEF Excuses

-----------------------------------------------------------------------------
(* What is due is counted *)

\* A worker whose packet nobody overlaps is the only one at work, on the last packet begun.
LEMMA OnlyOne ==
    ASSUME Shape, Ordered, NEW w \in Workers, Alone(w)
    PROVE  /\ frame[w].packet = begun
           /\ \A v \in Workers : frame[v].at # "idle" => v = w
<1>1. begun \in Nat /\ ran[begun] = {begun} /\ frame[w].at # "idle"
  BY PacketsAre DEF Alone
<1>2. ASSUME NEW v \in Workers, frame[v].at # "idle" PROVE frame[v].packet = begun
  <2>1. frame[v].packet \in 1 .. begun
    BY <1>2 DEF Shape
  <2>2. CASE frame[v].packet # begun
    <3>1. begun \in frame[v].packet + 1 .. begun
      BY <1>1, <2>1, <2>2
    <3>2. frame[v].packet \in ran[begun]
      BY <1>2, <3>1 DEF Ordered, Met
    <3> QED
      BY <1>1, <2>2, <3>2
  <2> QED
    BY <2>2
<1> QED
  BY <1>1, <1>2 DEF Ordered, PacketsApart

\* It goes on until it has counted: no key it cleans is missing, and its packet is counted.
LEMMA NotYet ==
    ASSUME Cleaning, Undisturbing, NEW w \in Workers, Analyses(w), Alone(w),
           Mine(w).kind = "counted", ~ Counting(w), frame[w].at # "append"
    PROVE  frame'[w].packet = frame[w].packet /\ ~ Counting(w)'
<1>1. Shape /\ engine' = engine /\ engine \in {"flood", "syn", "application"}
  BY AnalysesDoes DEF Cleaning, Steady, WindowShape
<1>2. SUFFICES /\ frame'[w].packet = frame[w].packet
               /\ \/ frame'[w].at \in Before \cup {"append"}
                  \/ frame'[w].at = "filter" /\ engine # "syn"
  BY <1>1 DEF Counting, Before
<1>3. ASSUME Visits(w) PROVE Enters(w, "fetch")
  BY <1>3 DEF Visits
<1>4. ASSUME NEW entries, Onward(w, entries)
      PROVE  frame'[w].packet = frame[w].packet /\ frame'[w].at \in {"clean", "cap", "fetch"}
  BY <1>3, <1>4 DEF Onward, Cleans, Enters, Hand
<1>5. CASE Snapshot(w)
  BY <1>1, <1>4, <1>5, SnapshotDoes DEF Before
<1>6. CASE Sift(w)
  BY <1>1, <1>6, SiftDoes DEF Hand, Sifting, Before, Counting
<1>7. CASE Cleaned(w)
  <2>1. frame[w].at = "clean"
    BY <1>1, <1>7, CleanedDoes
  <2>2. frame[w].todo[1] \in Present
    <3>1. frame[w].todo \in Seq(Slots) /\ frame[w].todo # << >>
      BY <2>1 DEF Cleaning, WindowShape, FrameTyped
    <3>2. 1 \in DOMAIN frame[w].todo
      BY <3>1, TailIs
    <3> QED
      BY <2>1, <3>2 DEF Undisturbing, Tidy
  <2>3. At(frame[w].todo[1].key) # 0
    BY <2>2, AtFinds DEF Cleaning, WindowShape
  <2>4. Onward(w, Tail(frame[w].todo))
    BY <1>1, <1>7, <2>3, CleanedDoes
  <2> QED
    BY <1>4, <2>4 DEF Before
<1>8. CASE CapTest(w)
  BY <1>1, <1>3, <1>8, CapTestDoes DEF Hand, Enters, Before
<1>9. CASE CapMeasure(w)
  BY <1>1, <1>9, CapMeasureDoes DEF Hand, Before
<1>10. CASE CapList(w)
  BY <1>1, <1>10, CapListDoes DEF Hand, Before
<1>11. CASE CapPop(w)
  BY <1>1, <1>3, <1>11, CapPopDoes DEF Hand, Enters, Before
<1>12. CASE Fetch(w)
  BY <1>1, <1>12, FetchDoes DEF Hand, Before
<1>13. CASE Filtered(w)
  <2>1. frame[w].at = "filter"
    BY <1>1, <1>13, FilteredDoes
  <2>2. engine = "application"
    BY <1>1, <2>1 DEF Counting, Cleaning, WindowShape, FrameTyped
  <2> QED
    BY <1>1, <1>13, <2>2, FilteredDoes DEF Hand
<1>14. CASE AppendSample(w)
  BY <1>1, <1>14, AppendDoes
<1>15. CASE Count(w)
  BY <1>1, <1>15, CountDoes DEF Counting
<1>16. CASE Consider(w) \/ BlockFails(w) \/ BlockRecorded(w)
  BY <1>1, <1>16, BlockDoes DEF Counting
<1> QED
  BY <1>5, <1>6, <1>7, <1>8, <1>9, <1>10, <1>11, <1>12, <1>13, <1>14, <1>15, <1>16 DEF Analyses

\* The list a worker holds is one of a packet.
LEMMA ListTyped ==
    ASSUME WindowShape, NEW w \in Workers, frame[w].at \in Sifting \cup Holding
    PROVE  frame[w].list \in Packets
<1>1. FrameTyped(w)
  BY DEF WindowShape
<1>2. CASE frame[w].at = "clean"
  <2>1. frame[w].todo \in Seq(Slots) /\ frame[w].todo # << >> /\ frame[w].list = frame[w].todo[1].list
    BY <1>1, <1>2 DEF FrameTyped
  <2>2. 1 \in 1 .. Len(frame[w].todo)
    BY <2>1, TailIs
  <2>3. frame[w].todo[1] \in Slots
    BY <2>1, <2>2, ElementOfSeq
  <2> QED
    BY <2>1, <2>3, SlotIs
<1>3. CASE frame[w].at # "clean"
  BY <1>1, <1>3 DEF FrameTyped, Sifting, Holding
<1> QED
  BY <1>2, <1>3

\* A worker that is alone drops nothing fresh.
LEMMA SiftTidy ==
    ASSUME Cleaning, NEW w \in Workers, Tidy(w), Sift(w)
    PROVE  Tidy(w)'
<1> DEFINE f == frame[w]
           q == content[f.list][f.i]
           s == IF Fresh(w, q) THEN Append(f.kept, q) ELSE f.kept
<1>1. /\ f.at \in Sifting /\ f.i <= Len(content[f.list]) /\ Steady /\ Stands
      /\ Hand(w, f.at, f.todo, f.list, f.i + 1, s, f.over)
  BY SiftDoes DEF Cleaning
<1>2. PICK l \in Packets : l = f.list
  BY <1>1, ListTyped DEF Cleaning
<1>3. /\ f.kept \in Seq(Mates(l)) /\ f.i \in Nat \ {0} /\ q \in Mates(l)
      /\ DOMAIN content[l] = 1 .. Len(content[l]) /\ Len(content[l]) \in Nat
  <2>1. f.kept \in Seq(Mates(l)) /\ f.i \in Nat \ {0}
    BY <1>1, <1>2 DEF Cleaning, WindowShape, FrameTyped
  <2>2. f.i \in DOMAIN content[l]
    BY <1>1, <1>2, <2>1, ContentTyped DEF Cleaning
  <2> QED
    BY <1>2, <2>1, <2>2, ContentTyped DEF Cleaning
<1>4. \A k \in DOMAIN f.kept : k \in DOMAIN s /\ s[k] = f.kept[k]
  BY <1>3, AppendIs
<1>5. Fresh(w, q) => \E k \in DOMAIN s : s[k] = q
  <2>1. ASSUME Fresh(w, q) PROVE \E k \in DOMAIN s : s[k] = q
    <3> DEFINE kept == f.kept
    <3>1. s = Append(kept, q) /\ kept \in Seq(Mates(l)) /\ q \in Mates(l)
      BY <1>3, <2>1
    <3> HIDE DEF s, q, kept
    <3>2. Len(kept) + 1 \in DOMAIN s /\ s[Len(kept) + 1] = q
      BY <3>1, AppendIs
    <3> QED
      BY <3>2
  <2> QED
    BY <2>1
<1> HIDE DEF s
<1>6. /\ frame'[w].at = f.at /\ frame'[w].packet = f.packet /\ frame'[w].todo = f.todo
      /\ frame'[w].list = l /\ frame'[w].kept = s /\ frame'[w].i = f.i + 1
  BY <1>1, <1>2 DEF Hand
<1>7. \A x : Fresh(w, x)' <=> Fresh(w, x)
  BY <1>1, <1>6 DEF Fresh, Steady
<1>8. Present' = Present /\ content' = content /\ Slot(l)' = Slot(l)
  BY <1>1 DEF Present, Stands, Slot, Key, Steady
<1>9. ASSUME NEW j \in DOMAIN content[l], j < f.i + 1, Fresh(w, content[l][j])
      PROVE  \E k \in DOMAIN s : s[k] = content[l][j]
  <2>1. CASE j = f.i
    BY <1>2, <1>5, <1>9, <2>1
  <2>2. CASE j # f.i
    <3>1. j < f.i
      BY <1>3, <1>9, <2>2
    <3>2. PICK k \in DOMAIN f.kept : f.kept[k] = content[l][j]
      BY <1>1, <1>2, <1>9, <3>1 DEF Tidy
    <3> QED
      BY <1>4, <3>2
  <2> QED
    BY <2>1, <2>2
<1>10. f.at \in Holding => Slot(l)' \in Present
  BY <1>2, <1>8 DEF Tidy
<1>11. f.at = "clean" => \A k \in DOMAIN f.todo : f.todo[k] \in Present
  BY DEF Tidy
<1>12. \A x : Fresh(w, x)' => Fresh(w, x)
  BY <1>7
<1>13. ASSUME NEW j \in DOMAIN content'[frame'[w].list], j < frame'[w].i,
              Fresh(w, content[frame[w].list][j])'
       PROVE  \E k \in DOMAIN frame'[w].kept : frame'[w].kept[k] = content'[frame'[w].list][j]
  <2>1. Fresh(w, content[l][j])
    BY <1>1, <1>6, <1>8, <1>13 DEF Fresh, Steady
  <2>2. j \in DOMAIN content[l] /\ j < f.i + 1
    BY <1>6, <1>8, <1>13
  <2> QED
    BY <1>6, <1>8, <1>9, <2>1, <2>2
<1>14. frame'[w].at \in Holding => Slot(frame[w].list)' \in Present'
  BY <1>2, <1>6, <1>8, <1>10 DEF Slot
<1>15. frame'[w].at = "clean" => \A k \in DOMAIN frame'[w].todo : frame'[w].todo[k] \in Present'
  BY <1>6, <1>8, <1>11
<1> QED
  BY <1>13, <1>14, <1>15 DEF Tidy

\* Whoever only begins to filter has dropped nothing yet.
LEMMA StartsTidy ==
    ASSUME Cleaning, NEW w \in Workers, Analyses(w), WindowShape',
           frame'[w].i = 1, frame'[w].at \in Sifting => frame'[w].list \in Packets',
           frame'[w].at = "clean" => \A k \in DOMAIN frame'[w].todo : frame'[w].todo[k] \in Present',
           frame'[w].at \in Holding => Slot(frame[w].list)' \in Present'
    PROVE  Tidy(w)'
<1>1. ASSUME frame'[w].at \in Sifting, NEW j \in DOMAIN content'[frame'[w].list]
      PROVE  ~ j < frame'[w].i
  <2>1. PICK l : l = frame'[w].list
    OBVIOUS
  <2>2. content'[l] \in Seq(Mates(l)')
    BY <1>1, <2>1 DEF WindowShape
  <2>3. j \in Nat \ {0}
    BY <1>1, <2>1, <2>2, LenProperties
  <2> QED
    BY <2>3
<1> QED
  BY <1>1 DEF Tidy

\* Nothing is claimed of a worker that holds no list.
LEMMA ElsewhereTidy ==
    ASSUME NEW w \in Workers, frame'[w].at \notin Sifting \cup Holding
    PROVE  Tidy(w)'
  BY DEF Tidy, Sifting

\* The keys it has still to clean are in the table,
LEMMA OnwardTidy ==
    ASSUME Cleaning, WindowShape', NEW w \in Workers, Analyses(w),
           NEW entries \in Seq(Slots), Onward(w, entries),
           \A k \in DOMAIN entries : entries[k] \in Present'
    PROVE  Tidy(w)'
<1>1. CASE Cleans(w, entries)
  <2>1. /\ frame'[w].at = "clean" /\ frame'[w].todo = entries /\ frame'[w].i = 1
        /\ entries # << >> /\ frame'[w].list = entries[1].list
    BY <1>1 DEF Cleans, Hand
  <2>2. frame'[w].list \in Packets'
    <3>1. 1 \in 1 .. Len(entries)
      BY <2>1, TailIs
    <3>2. entries[1] \in Slots
      BY <3>1, ElementOfSeq
    <3> QED
      BY <2>1, <3>2, SlotIs, Lasting, AnalysesDoes DEF Cleaning, Steady
  <2> QED
    BY <2>1, <2>2, StartsTidy DEF Holding
<1>2. CASE ~ Cleans(w, entries)
  <2>1. frame'[w].at \in {"cap", "fetch", "alert", "idle"}
    BY <1>2 DEF Onward, Visits, Enters, Leaves, Hand
  <2> QED
    BY <2>1, ElsewhereTidy DEF Sifting, Holding
<1> QED
  BY <1>1, <1>2

\* also after it cleaned one of them.
LEMMA CleanedTidy ==
    ASSUME Cleaning, WindowShape', NEW w \in Workers, Tidy(w), Cleaned(w)
    PROVE  Tidy(w)'
<1> DEFINE f == frame[w]
<1>0. Analyses(w)
  BY DEF Analyses
<1>1. /\ f.at = "clean"
      /\ table' = table \/ Loses(f.todo[1].key)
      /\ Onward(w, Tail(f.todo)) \/ Enters(w, "alert") \/ Leaves(w)
  BY CleanedDoes DEF Cleaning, Loses
<1>2. f.todo \in Seq(Slots) /\ f.todo # << >> /\ Once(f.todo)
  BY <1>1 DEF Cleaning, WindowShape, FrameTyped, KeysOnce
<1>3. CASE Onward(w, Tail(f.todo))
  <2>1. \A k \in DOMAIN Tail(f.todo) :
           Tail(f.todo)[k] \in Present /\ Tail(f.todo)[k].key # f.todo[1].key
    BY <1>1, <1>2, TailIs, OnceTail DEF Tidy
  <2>2. \A k \in DOMAIN Tail(f.todo) : Tail(f.todo)[k] \in Present'
    <3>1. CASE table' = table
      BY <2>1, <3>1 DEF Present
    <3>2. CASE Loses(f.todo[1].key)
      BY <2>1, <3>2, LosesIs DEF Cleaning, KeysOnce
    <3> QED
      BY <1>1, <3>1, <3>2
  <2>3. Tail(f.todo) \in Seq(Slots)
    BY <1>2, TailIs
  <2> QED
    BY <1>0, <1>3, <2>2, <2>3, OnwardTidy
<1>4. CASE Enters(w, "alert") \/ Leaves(w)
  BY <1>4, ElsewhereTidy DEF Enters, Leaves, Hand, Sifting, Holding
<1> QED
  BY <1>1, <1>3, <1>4

\* The list it fetches is in the table,
LEMMA FetchTidy ==
    ASSUME Cleaning, WindowShape', NEW w \in Workers, Fetch(w)
    PROVE  Tidy(w)'
<1> DEFINE known == At(MyKey(w))
<1>0. Analyses(w)
  BY DEF Analyses
<1>1. /\ frame[w].at = "fetch" /\ Steady /\ frame'[w].i = 1
      /\ frame'[w].at \in Holding
      /\ \/ known # 0 /\ frame'[w].list = table[known].list /\ table' = table
         \/ Gains(w) /\ frame'[w].list = frame[w].packet
  BY FetchDoes DEF Cleaning, Hand, Gains, Slot, MyKey, Mine, Holding
<1>2. Slot(frame'[w].list) \in Present' /\ frame'[w].list \in Packets
  <2>1. CASE Gains(w) /\ frame'[w].list = frame[w].packet
    BY <2>1, GainsIs DEF Cleaning, KeysOnce
  <2>2. CASE known # 0 /\ frame'[w].list = table[known].list /\ table' = table
    <3>1. table[known] \in Present /\ Present' = Present
      BY <2>2, AtFinds DEF Cleaning, WindowShape, Present
    <3>2. table[known] \in Slots
      BY <3>1, PresentSlots DEF Cleaning, WindowShape
    <3> QED
      BY <2>2, <3>1, <3>2, SlotIs
  <2> QED
    BY <1>1, <2>1, <2>2
<1>3. Slot(frame[w].list)' \in Present'
  BY <1>1, <1>2 DEF Slot, Key, Steady
<1>4. frame'[w].list \in Packets'
  BY <1>1, <1>2, Lasting DEF Steady
<1>5. frame'[w].at # "clean"
  BY <1>1 DEF Holding
<1> QED
  BY <1>0, <1>1, <1>3, <1>4, <1>5, StartsTidy

\* and stays there.
LEMMA StoringTidy ==
    ASSUME Cleaning, WindowShape', NEW w \in Workers, Tidy(w), Filtered(w) \/ AppendSample(w)
    PROVE  Tidy(w)'
<1>0. Analyses(w)
  BY DEF Analyses
<1>1. /\ frame[w].at \in Holding /\ frame'[w].at \in Holding /\ table' = table /\ Steady
      /\ frame'[w].list = frame[w].list
      /\ \/ frame'[w].i = 1
         \/ frame'[w].i = frame[w].i /\ frame[w].at = "append"
  <2>1. CASE Filtered(w)
    BY <2>1, FilteredDoes DEF Cleaning, Hand, Holding
  <2>2. CASE AppendSample(w)
    BY <2>2, AppendDoes DEF Cleaning, Hand, Holding
  <2> QED
    BY <2>1, <2>2
<1>2. frame'[w].i = 1
  BY <1>1 DEF Cleaning, WindowShape, FrameTyped
<1>3. Slot(frame[w].list)' \in Present'
  BY <1>1 DEF Tidy, Slot, Key, Steady, Present
<1>4. frame'[w].list \in Packets'
  BY <1>1, Lasting, ListTyped DEF Steady, Cleaning
<1>5. frame'[w].at # "clean"
  BY <1>1 DEF Holding
<1> QED
  BY <1>0, <1>2, <1>3, <1>4, <1>5, StartsTidy

\* So a worker that is alone loses nothing that is fresh.
LEMMA AnalysesTidy ==
    ASSUME Cleaning, WindowShape', Undisturbing, NEW w \in Workers, Analyses(w)
    PROVE  Undisturbing'
<1>1. /\ UNCHANGED <<begun, ran>> /\ frame[w].at # "idle"
      /\ \A v \in Workers : v # w => frame'[v] = frame[v]
  BY AnalysesDoes DEF Cleaning, Steady, Keeps
<1>2. SUFFICES ASSUME NEW v \in Workers, Alone(v)' PROVE Tidy(v)'
  BY DEF Undisturbing
<1>3. Alone(v) /\ v = w
  <2>1. Alone(v)
    BY <1>1, <1>2 DEF Alone
  <2> QED
    BY <1>1, <2>1, OnlyOne DEF Cleaning
<1>4. Tidy(w)
  BY <1>3 DEF Undisturbing
<1>5. Tidy(w)'
  <2>1. CASE Snapshot(w)
    <3>1. Onward(w, table) /\ Stands /\ table \in Seq(Slots)
      BY <2>1, SnapshotDoes DEF Cleaning, WindowShape
    <3>2. \A k \in DOMAIN table : table[k] \in Present'
      BY <3>1 DEF Present, Stands
    <3> QED
      BY <3>1, <3>2, OnwardTidy
  <2>2. CASE Sift(w)
    BY <1>4, <2>2, SiftTidy
  <2>3. CASE Cleaned(w)
    BY <1>4, <2>3, CleanedTidy
  <2>4. CASE CapTest(w) \/ CapMeasure(w) \/ CapList(w) \/ CapPop(w)
    <3>1. frame'[w].at \in {"measure", "list", "pop", "fetch", "alert", "idle"}
      BY <2>4, CapTestDoes, CapMeasureDoes, CapListDoes, CapPopDoes
         DEF Cleaning, Visits, Enters, Leaves, Hand
    <3> QED
      BY <3>1, ElsewhereTidy DEF Sifting, Holding
  <2>5. CASE Fetch(w)
    BY <2>5, FetchTidy
  <2>6. CASE Filtered(w) \/ AppendSample(w)
    BY <1>4, <2>6, StoringTidy
  <2>7. CASE Count(w)
    BY <2>7, CountDoes, ElsewhereTidy DEF Cleaning, Enters, Leaves, Hand, Sifting, Holding
  <2>8. CASE Consider(w) \/ BlockFails(w) \/ BlockRecorded(w)
    BY <2>8, BlockDoes, ElsewhereTidy DEF Cleaning, Enters, Leaves, Hand, Sifting, Holding
  <2> QED
    BY <2>1, <2>2, <2>3, <2>4, <2>5, <2>6, <2>7, <2>8 DEF Analyses
<1> QED
  BY <1>3, <1>5

\* A key was dropped for the limit once and for all.
LEMMA CappedOnce ==
    ASSUME Cleaning, NEW w \in Workers, Analyses(w), ~ capped'
    PROVE  ~ capped /\ (CapPop(w) => table' = table)
<1>1. Shape
  BY DEF Cleaning
<1>2. CASE CapPop(w)
  BY <1>1, <1>2, CapPopDoes
<1>3. CASE ~ CapPop(w)
  BY <1>1, <1>3, SnapshotDoes, SiftDoes, CleanedDoes, CapTestDoes, CapMeasureDoes, CapListDoes,
     FetchDoes, FilteredDoes, AppendDoes, CountDoes, BlockDoes DEF Analyses, Stands
<1> QED
  BY <1>2, <1>3

Keeping == Cleaning /\ Undisturbing /\ Retained /\ Complete

\* A sample in the table that is fresh to the only worker at work stays in the table.
LEMMA SampleStays ==
    ASSUME Keeping, NEW w \in Workers, Analyses(w), Alone(w), ~ capped',
           NEW q \in 1 .. begun, clock[q] + Window >= clock[begun],
           NEW e \in Present, NEW k \in DOMAIN content[e.list], content[e.list][k] = q
    PROVE  e \in Present' /\ \E j \in DOMAIN content'[e.list] : content'[e.list][j] = q
<1> DEFINE f == frame[w]
<1>0. Cleaning /\ Shape /\ Once(table) /\ WindowShape
  BY DEF Keeping, Cleaning, KeysOnce
<1>1. e \in Slots /\ e.list \in Packets /\ DOMAIN content = Packets
  BY <1>0, PresentSlots, SlotIs DEF WindowShape
<1>2. f.packet = begun /\ Tidy(w)
  BY <1>0, OnlyOne DEF Cleaning, Keeping, Undisturbing
<1>3. Fresh(w, q)
  BY <1>2 DEF Fresh
<1>4. ASSUME f.at \in Sifting, f.i > Len(content[f.list]), e.list = f.list
      PROVE  \E j \in DOMAIN f.kept : f.kept[j] = q
  <2>1. DOMAIN content[f.list] = 1 .. Len(content[f.list]) /\ Len(content[f.list]) \in Nat
    BY <1>0, <1>1, <1>4, ContentTyped
  <2>2. f.i \in Nat
    BY <1>0 DEF WindowShape, FrameTyped
  <2>3. k \in DOMAIN content[f.list] /\ k < f.i /\ content[f.list][k] = q
    BY <1>4, <2>1, <2>2
  <2> QED
    BY <1>2, <1>3, <1>4, <2>3 DEF Tidy
<1>5. \E j \in DOMAIN content'[e.list] : content'[e.list][j] = q
  <2>1. CASE content' = content
    BY <2>1
  <2>2. CASE f.at \in Sifting /\ f.i > Len(content[f.list]) /\ Writes(w, f.kept)
    <3>1. CASE e.list = f.list
      <4>1. content'[e.list] = f.kept
        BY <1>1, <2>2, <3>1 DEF Writes
      <4> QED
        BY <1>4, <2>2, <3>1, <4>1
    <3>2. CASE e.list # f.list
      <4>1. content'[e.list] = content[e.list]
        BY <1>1, <2>2, <3>2 DEF Writes
      <4> QED
        BY <4>1
    <3> QED
      BY <3>1, <3>2
  <2>3. CASE f.at = "append" /\ Writes(w, Append(content[f.list], f.packet))
    <3>1. CASE e.list = f.list
      <4> DEFINE s == content[e.list]
      <4>1. content'[e.list] = Append(s, f.packet)
        BY <1>1, <2>3, <3>1 DEF Writes
      <4>2. s \in Seq(Packets) /\ f.packet \in Packets
        <5>1. s \in Seq(Mates(e.list)) /\ Mates(e.list) \subseteq Packets
          BY <1>0, <1>1, BegunPackets DEF WindowShape
        <5> QED
          BY <1>0, <2>3, <5>1, WiderSeq DEF Shape
      <4> HIDE DEF s
      <4>3. k \in DOMAIN Append(s, f.packet) /\ Append(s, f.packet)[k] = s[k]
        BY <4>2, AppendIs DEF s
      <4> QED
        BY <4>1, <4>3 DEF s
    <3>2. CASE e.list # f.list
      <4>1. content'[e.list] = content[e.list]
        BY <1>1, <2>3, <3>2 DEF Writes
      <4> QED
        BY <4>1
    <3> QED
      BY <3>1, <3>2
  <2> QED
    BY <1>0, <2>1, <2>2, <2>3, ContentDoes
<1>6. e \in Present'
  <2>1. CASE table' = table
    BY <2>1 DEF Present
  <2>2. CASE Gains(w)
    BY <1>0, <2>2, GainsIs
  <2>3. CASE Cleaned(w)
    <3>1. /\ f.at = "clean" /\ f.i > Len(content[f.list])
          /\ \/ table' = table
             \/ Loses(f.todo[1].key) /\ f.kept = << >>
      BY <1>0, <2>3, CleanedDoes DEF Loses
    <3>2. CASE Loses(f.todo[1].key) /\ f.kept = << >>
      <4>1. e.key # f.todo[1].key
        <5> SUFFICES ASSUME e.key = f.todo[1].key PROVE FALSE
          OBVIOUS
        <5>1. f.todo \in Seq(Slots) /\ f.todo # << >> /\ f.list = f.todo[1].list
          BY <1>0, <3>1 DEF WindowShape, FrameTyped
        <5>2. 1 \in DOMAIN f.todo
          BY <5>1, TailIs
        <5>3. f.todo[1] \in Present
          BY <1>2, <3>1, <5>2 DEF Tidy
        <5>4. e = f.todo[1]
          BY <1>0, <5>3 DEF Once, Present
        <5>5. \E j \in DOMAIN f.kept : f.kept[j] = q
          BY <1>4, <3>1, <5>1, <5>4 DEF Sifting
        <5>6. DOMAIN << >> = {}
          OBVIOUS
        <5> QED
          BY <3>2, <5>5, <5>6
      <4> QED
        BY <1>0, <3>2, <4>1, LosesIs
    <3>3. CASE table' = table
      BY <3>3 DEF Present
    <3> QED
      BY <3>1, <3>2, <3>3
  <2>4. CASE ~ Cleaned(w) /\ ~ Gains(w) /\ table' # table
    <3>1. ~ CapPop(w)
      BY <1>0, <2>4, CappedOnce
    <3> QED
      BY <1>0, <2>4, <3>1, SnapshotDoes, SiftDoes, CapTestDoes, CapMeasureDoes, CapListDoes,
         FetchDoes, FilteredDoes, AppendDoes, CountDoes, BlockDoes
         DEF Analyses, Stands, Gains, Slot, MyKey, Mine
  <2> QED
    BY <2>1, <2>2, <2>3, <2>4
<1> QED
  BY <1>5, <1>6

\* A sample that is due stays in the table.
LEMMA AnalysesRetains ==
    ASSUME Keeping, NEW w \in Workers, Analyses(w)
    PROVE  Retained'
<1>0. Cleaning /\ Shape /\ WindowShape /\ Ordered
  BY DEF Keeping, Cleaning
<1>1. /\ UNCHANGED <<traffic, engine, begun, clock, ran>> /\ frame[w].at # "idle"
      /\ \A v \in Workers : v # w => frame'[v] = frame[v]
      /\ frame'[w].at = "idle" \/ frame'[w].packet = frame[w].packet
  BY <1>0, AnalysesDoes DEF Steady, Keeps
<1>2. SUFFICES ASSUME ~ capped', NEW q \in 1 .. begun, traffic[q].kind = "counted",
                      Undisturbed(q), Entered(q)', clock[q] + Window >= clock[begun]
               PROVE  \E e \in Present' : /\ e.key = Key(traffic[q])
                                          /\ \E k \in DOMAIN content'[e.list] : content'[e.list][k] = q
  BY <1>1 DEF Retained, Undisturbed, Key
<1>3. begun \in Nat /\ q \in Packets
  BY <1>0, BegunPackets, PacketsAre
<1>4. Alone(w)
  BY <1>1, <1>2, <1>3 DEF Undisturbed, Alone
<1>5. frame[w].packet = begun
  BY <1>0, <1>4, OnlyOne
<1>6. CASE Entered(q)
  <2>1. ~ capped
    BY <1>0, <1>2, CappedOnce
  <2>2. PICK e \in Present : /\ e.key = Key(traffic[q])
                             /\ \E k \in DOMAIN content[e.list] : content[e.list][k] = q
    BY <1>2, <1>6, <2>1 DEF Keeping, Retained
  <2>3. e \in Present' /\ \E j \in DOMAIN content'[e.list] : content'[e.list][j] = q
    BY <1>2, <1>4, <2>2, SampleStays
  <2> QED
    BY <2>2, <2>3
<1>7. CASE ~ Entered(q)
  <2>1. PICK v \in Workers : frame[v].packet = q /\ ~ Counting(v)
    BY <1>7 DEF Entered
  <2>2. v = w
    <3> SUFFICES ASSUME v # w PROVE FALSE
      OBVIOUS
    <3>1. frame'[v] = frame[v] /\ engine' = engine
      BY <1>1
    <3>2. ~ Counting(v)' /\ frame'[v].packet = q
      BY <2>1, <3>1 DEF Counting
    <3> QED
      BY <1>2, <3>2 DEF Entered
  <2>3. Mine(w).kind = "counted"
    BY <1>2, <2>1, <2>2 DEF Mine
  <2>4. frame[w].at = "append"
    <3> SUFFICES ASSUME frame[w].at # "append" PROVE FALSE
      OBVIOUS
    <3>1. frame'[w].packet = q /\ ~ Counting(w)'
      BY <1>4, <2>1, <2>2, <2>3, NotYet DEF Keeping
    <3> QED
      BY <1>2, <3>1 DEF Entered
  <2>5. AppendSample(w)
    BY <1>0, <2>4, SnapshotDoes, SiftDoes, CleanedDoes, CapTestDoes, CapMeasureDoes, CapListDoes,
       CapPopDoes, FetchDoes, FilteredDoes, CountDoes, BlockDoes DEF Analyses, Sifting
  <2> DEFINE l == frame[w].list
  <2>6. table' = table /\ content' = [content EXCEPT ![l] = Append(content[l], q)]
    BY <1>0, <2>1, <2>2, <2>5, AppendDoes
  <2>7. /\ Slot(l) \in Present /\ l \in Packets /\ Key(traffic[l]) = MyKey(w)
        /\ DOMAIN content = Packets
    BY <1>0, <1>4, <2>4 DEF Holding, Undisturbing, Tidy, Keeping, FrameTyped, WindowShape
  <2>8. content[l] \in Seq(Packets)
    <3>1. content[l] \in Seq(Mates(l)) /\ Mates(l) \subseteq Packets
      BY <1>0, <2>7, BegunPackets DEF WindowShape
    <3> QED
      BY <3>1, WiderSeq
  <2>9. \E k \in DOMAIN content'[l] : content'[l][k] = q
    <3> DEFINE s == content[l]
    <3>1. content'[l] = Append(s, q) /\ s \in Seq(Packets)
      BY <2>6, <2>7, <2>8
    <3> HIDE DEF s
    <3>2. Len(s) + 1 \in DOMAIN Append(s, q) /\ Append(s, q)[Len(s) + 1] = q
      BY <1>3, <3>1, AppendIs
    <3> QED
      BY <3>1, <3>2
  <2>10. Slot(l) \in Present' /\ Slot(l).list = l /\ Slot(l).key = Key(traffic[q])
    BY <2>1, <2>2, <2>6, <2>7 DEF Present, Slot, MyKey, Mine
  <2> QED
    BY <2>9, <2>10
<1> QED
  BY <1>6, <1>7

\* A packet is counted with all that is due.
LEMMA AnalysesCompletes ==
    ASSUME Keeping, NEW w \in Workers, Analyses(w)
    PROVE  Complete'
<1>0. Cleaning /\ Shape /\ WindowShape /\ Ordered
  BY DEF Keeping, Cleaning
<1>1. /\ UNCHANGED <<traffic, engine, begun, clock, ran>> /\ frame[w].at # "idle"
      /\ \A v \in Workers : v # w => frame'[v] = frame[v]
      /\ frame'[w].at = "idle" \/ frame'[w].packet = frame[w].packet
  BY <1>0, AnalysesDoes DEF Steady, Keeps
<1>2. SUFFICES ASSUME ~ capped', NEW p \in 1 .. begun, traffic[p].kind = "counted",
                      Judged(p)', Unshared(p)
               PROVE  Due(p) \subseteq counted'[p]
  BY <1>1, ZenonT(60) DEF Complete, Unshared, Due, Key
<1>3. begun \in Nat /\ p \in Packets /\ DOMAIN counted = Packets /\ Window \in Nat
  BY <1>0, BegunPackets, PacketsAre DEF WindowShape
<1>4. ~ capped
  BY <1>0, <1>2, CappedOnce
<1>5. Count(w) => /\ frame[w].at = "count"
                  /\ counted' = [counted EXCEPT ![frame[w].packet] = ToSet(content[frame[w].list])]
  BY <1>0, CountDoes
<1>6. CASE Judged(p)
  <2>1. Due(p) \subseteq counted[p]
    BY <1>2, <1>4, <1>6 DEF Keeping, Complete
  <2>2. CASE Count(w)
    <3>1. frame[w].packet # p
      BY <1>5, <1>6, <2>2 DEF Judged
    <3> QED
      BY <1>3, <1>5, <2>1, <2>2, <3>1
  <2>3. CASE ~ Count(w)
    <3>1. counted' = counted
      BY <1>0, <2>3, SnapshotDoes, SiftDoes, CleanedDoes, CapTestDoes, CapMeasureDoes, CapListDoes,
         CapPopDoes, FetchDoes, FilteredDoes, AppendDoes, BlockDoes DEF Analyses, Stands
    <3> QED
      BY <2>1, <3>1
  <2> QED
    BY <2>2, <2>3
<1>7. CASE ~ Judged(p)
  <2>1. PICK v \in Workers : frame[v].packet = p /\ frame[v].at \notin {"alert", "block"}
    BY <1>7 DEF Judged
  <2>2. v = w
    <3> SUFFICES ASSUME v # w PROVE FALSE
      OBVIOUS
    <3>1. frame'[v] = frame[v]
      BY <1>1
    <3> QED
      BY <1>2, <2>1, <3>1 DEF Judged
  <2>3. clock[p] \in Nat
    BY <1>0, <1>3, ClockNat
  <2>4. p \in Due(p)
    BY <1>2, <1>3, <2>3 DEF Due
  <2>5. ran[p] = {p}
    BY <1>2, <1>3, <2>4 DEF Unshared
  <2>6. p = begun
    <3> SUFFICES ASSUME p # begun PROVE FALSE
      OBVIOUS
    <3>1. begun \in p + 1 .. begun
      BY <1>3
    <3>2. begun \in ran[p]
      BY <1>0, <1>1, <2>1, <2>2, <3>1 DEF Ordered, Met
    <3> QED
      BY <2>5, <3>2
  <2>7. Alone(w)
    BY <1>1, <2>5, <2>6 DEF Alone
  <2>8. Mine(w).kind = "counted"
    BY <1>2, <2>1, <2>2 DEF Mine
  <2>9. frame[w].at = "count"
    <3>1. CASE ~ Counting(w) /\ frame[w].at # "append"
      <4>1. frame'[w].packet = p /\ ~ Counting(w)'
        BY <2>1, <2>2, <2>7, <2>8, <3>1, NotYet DEF Keeping
      <4> QED
        BY <1>2, <4>1 DEF Judged, Counting
    <3>2. CASE frame[w].at \in {"append", "filter"}
      <4>1. AppendSample(w) \/ Filtered(w) \/ Sift(w)
        BY <1>0, <3>2, SnapshotDoes, CleanedDoes, CapTestDoes, CapMeasureDoes, CapListDoes,
           CapPopDoes, FetchDoes, CountDoes, BlockDoes DEF Analyses
      <4>2. frame'[w].packet = p /\ frame'[w].at \in {"append", "filter", "count"}
        <5>1. CASE AppendSample(w)
          BY <1>0, <2>1, <2>2, <5>1, AppendDoes DEF Hand
        <5>2. CASE Filtered(w)
          BY <1>0, <2>1, <2>2, <5>2, FilteredDoes DEF Hand
        <5>3. CASE Sift(w)
          BY <1>0, <2>1, <2>2, <3>2, <5>3, SiftDoes DEF Hand
        <5> QED
          BY <4>1, <5>1, <5>2, <5>3
      <4> QED
        BY <1>2, <4>2 DEF Judged
    <3> QED
      BY <2>1, <2>2, <3>1, <3>2 DEF Counting
  <2>10. Count(w)
    BY <1>0, <2>9, SnapshotDoes, SiftDoes, CleanedDoes, CapTestDoes, CapMeasureDoes, CapListDoes,
       CapPopDoes, FetchDoes, FilteredDoes, AppendDoes, BlockDoes DEF Analyses, Sifting
  <2> DEFINE l == frame[w].list
  <2>11. counted'[p] = ToSet(content[l])
    BY <1>3, <1>5, <2>1, <2>2, <2>10
  <2>12. Slot(l) \in Present /\ Key(traffic[l]) = MyKey(w)
    BY <1>0, <2>7, <2>9 DEF Holding, Undisturbing, Tidy, Keeping, FrameTyped, WindowShape
  <2>13. ASSUME NEW d \in Due(p) PROVE d \in ToSet(content[l])
    <3>1. /\ d \in 1 .. begun /\ traffic[d].kind = "counted"
          /\ Key(traffic[d]) = Key(traffic[p]) /\ clock[d] + Window >= clock[begun]
      BY <2>6 DEF Due
    <3>2. Undisturbed(d)
      BY <1>2, <2>6, <3>1 DEF Undisturbed, Unshared
    <3>3. Entered(d)
      <4> SUFFICES ASSUME NEW x \in Workers, frame[x].packet = d PROVE Counting(x)
        BY DEF Entered
      <4>1. frame[x].at # "idle"
        BY <1>0, <3>1, SMTT(40) DEF WindowShape, FrameTyped
      <4>2. x = w
        BY <1>0, <2>7, <4>1, OnlyOne
      <4> QED
        BY <2>9, <4>2 DEF Counting
    <3>4. PICK e \in Present : /\ e.key = Key(traffic[d])
                               /\ \E k \in DOMAIN content[e.list] : content[e.list][k] = d
      BY <1>4, <3>1, <3>2, <3>3 DEF Keeping, Retained
    <3>5. Slot(l).key = e.key
      BY <2>1, <2>2, <2>12, <3>1, <3>4 DEF Slot, MyKey, Mine
    <3>6. e = Slot(l)
      BY <1>0, <2>12, <3>5 DEF Cleaning, KeysOnce, Once, Present
    <3>7. e.list = l
      BY <3>6 DEF Slot
    <3> QED
      BY <3>4, <3>7 DEF ToSet
  <2> QED
    BY <2>11, <2>13
<1> QED
  BY <1>6, <1>7

\* Whoever begins a packet alone has done nothing yet.
LEMMA BeginTidy ==
    ASSUME Cleaning, NEW w \in Workers, Begin(w)
    PROVE  Undisturbing'
<1> DEFINE p == begun + 1
           others == {frame[v].packet : v \in Busy}
<1>1. /\ p \in Packets /\ begun' = p /\ ran'[p] = {p} \cup others
      /\ frame'[w].at = "snapshot" /\ \A v \in Workers : v # w => frame'[v] = frame[v]
  BY BeginDoes DEF Keeps, Cleaning
<1>2. SUFFICES ASSUME NEW v \in Workers, Alone(v)' PROVE Tidy(v)'
  BY DEF Undisturbing
<1>3. v = w
  <2> SUFFICES ASSUME v # w PROVE FALSE
    OBVIOUS
  <2>1. frame[v].at # "idle" /\ ran'[p] = {p}
    BY <1>1, <1>2 DEF Alone
  <2>2. frame[v].packet \in others /\ frame[v].packet \in 1 .. begun /\ begun \in Nat
    BY <2>1, PacketsAre DEF Busy, Cleaning, Shape
  <2>3. frame[v].packet # p
    BY <2>2
  <2> QED
    BY <1>1, <2>1, <2>2, <2>3
<1> QED
  BY <1>1, <1>3, ElsewhereTidy DEF Sifting, Holding

\* The next packet makes nothing due that was dropped.
LEMMA BeginRetains ==
    ASSUME Keeping, CountsOwn, NEW w \in Workers, Begin(w)
    PROVE  Retained' /\ Complete'
<1> DEFINE p == begun + 1
<1>0. Cleaning /\ Shape /\ WindowShape /\ Ordered
  BY DEF Keeping, Cleaning
<1>1. /\ frame[w].at = "idle" /\ p \in Packets /\ begun' = p
      /\ clock' = [clock EXCEPT ![p] = now]
      /\ \A x \in Packets : ran[x] \subseteq ran'[x]
      /\ frame'[w].at = "snapshot" /\ frame'[w].packet = p
      /\ \A v \in Workers : v # w => frame'[v] = frame[v]
      /\ UNCHANGED <<traffic, engine, now, table, content, counted, capped>>
  <2>1. \A x \in Packets : x > begun => ran[x] = {x}
    BY <1>0 DEF Ordered, Met
  <2>2. \A x \in Packets : ran[x] \subseteq ran'[x]
    <3>1. ran[p] = {p}
      BY <1>0, <2>1, BeginDoes, PacketsAre
    <3> QED
      BY <1>0, <3>1, BeginDoes
  <2> QED
    BY <1>0, <2>2, BeginDoes DEF Keeps, Stands
<1>2. /\ Packets = 1 .. Len(traffic) /\ Len(traffic) \in Nat /\ begun \in Nat
      /\ 1 .. begun \subseteq Packets /\ Window \in Nat
  BY <1>0, PacketsAre, BegunPackets
<1>3. \A x \in 1 .. begun : clock'[x] = clock[x] /\ clock[x] \in 0 .. now
  <2>1. \A x \in 1 .. begun : x # p
    BY <1>2
  <2> QED
    BY <1>0, <1>1, <1>2, <2>1 DEF WindowShape
<1>4. now \in Nat /\ clock'[p] = now
  BY <1>0, <1>1 DEF Shape, WindowShape
\* A packet begun before that has nobody overlap it had nobody before.
<1>5. ASSUME NEW x \in 1 .. begun, ran'[x] = {x} PROVE ran[x] = {x}
  BY <1>0, <1>1, <1>2, <1>5 DEF Ordered, Met
<1>6. frame[w].packet = 0
  BY <1>0, <1>1 DEF WindowShape, FrameTyped
<1>7. Retained'
  <2> SUFFICES ASSUME ~ capped, NEW q \in 1 .. p, traffic[q].kind = "counted",
                      Undisturbed(q)', Entered(q)', clock'[q] + Window >= clock'[p]
               PROVE  \E e \in Present : /\ e.key = Key(traffic[q])
                                         /\ \E k \in DOMAIN content[e.list] : content[e.list][k] = q
    BY <1>1 DEF Retained, Key, Present
  <2>1. q \in 1 .. begun
    <3> SUFFICES ASSUME q = p PROVE FALSE
      BY <1>2
    <3>1. ~ Counting(w)'
      BY <1>1 DEF Counting
    <3> QED
      BY <1>1, <3>1 DEF Entered
  <2>2. Undisturbed(q)
    <3> SUFFICES ASSUME NEW x \in q .. begun PROVE ran[x] = {x}
      BY DEF Undisturbed
    <3>1. x \in 1 .. begun /\ x \in q .. p
      BY <1>2, <2>1
    <3>2. ran'[x] = {x}
      BY <1>1, <3>1 DEF Undisturbed
    <3> QED
      BY <1>5, <3>1, <3>2
  <2>3. Entered(q)
    <3> SUFFICES ASSUME NEW v \in Workers, frame[v].packet = q PROVE Counting(v)
      BY DEF Entered
    <3>1. v # w
      BY <1>6, <2>1
    <3>2. Counting(v)'
      BY <1>1, <3>1 DEF Entered
    <3> QED
      BY <1>1, <3>1, <3>2 DEF Counting
  <2>4. clock[q] + Window >= clock[begun]
    <3>1. begun \in 1 .. begun
      BY <1>2, <2>1
    <3> QED
      BY <1>2, <1>3, <1>4, <2>1, <3>1
  <2> QED
    BY <2>1, <2>2, <2>3, <2>4 DEF Keeping, Retained
<1>8. Complete'
  <2> SUFFICES ASSUME ~ capped, NEW x \in 1 .. p, traffic[x].kind = "counted",
                      Judged(x)', Unshared(x)'
               PROVE  Due(x)' \subseteq counted[x]
    BY <1>1 DEF Complete
  <2>1. x \in 1 .. begun
    <3> SUFFICES ASSUME x = p PROVE FALSE
      BY <1>2
    <3> QED
      BY <1>1 DEF Judged
  <2>2. Due(x)' = Due(x)
    <3>1. \A q \in 1 .. x : q \in 1 .. begun
      BY <1>2, <2>1
    <3> QED
      BY <1>1, <1>3, <2>1, <3>1 DEF Due, Key
  <2>3. Judged(x)
    <3> SUFFICES ASSUME NEW v \in Workers, frame[v].packet = x
                 PROVE  frame[v].at \in {"alert", "block"}
      BY DEF Judged
    <3>1. v # w
      BY <1>6, <2>1
    <3> QED
      BY <1>1, <3>1 DEF Judged
  <2>4. Unshared(x)
    <3> SUFFICES ASSUME NEW q \in 1 .. x, \E d \in Due(x) : d <= q PROVE ran[q] = {q}
      BY DEF Unshared
    <3>1. q \in 1 .. begun
      BY <1>2, <2>1
    <3>2. ran'[q] = {q}
      BY <2>2 DEF Unshared
    <3> QED
      BY <1>5, <3>1, <3>2
  <2> QED
    BY <2>1, <2>2, <2>3, <2>4 DEF Keeping, Complete
<1> QED
  BY <1>7, <1>8

\* The clock concerns none of this, and neither does the limit on keys.
WindowSound == /\ KeysOnce /\ Sized /\ Ordered /\ NewListsEmpty /\ Excuses /\ CountsWhatIsFresh
               /\ CountsOwn /\ Undisturbing /\ Retained /\ Complete

\* A step that changes nothing of the windows.
LEMMA QuietKeeps ==
    ASSUME WindowSound,
           UNCHANGED <<traffic, engine, begun, table, content, frame, clock, ran, counted, capped>>
    PROVE  WindowSound'
<1>1. /\ Packets' = Packets /\ Present' = Present /\ \A p : Key(traffic[p])' = Key(traffic[p])
      /\ \A p : Mates(p)' = Mates(p)
  BY DEF Packets, Present, Key, Mates
<1>2. KeysOnce' /\ Sized'
  BY <1>1 DEF WindowSound, KeysOnce, Sized, Once
<1>3. Ordered'
  BY <1>1 DEF WindowSound, Ordered, PacketsApart, ClocksInOrder, Met
<1>4. NewListsEmpty'
  BY <1>1 DEF WindowSound, NewListsEmpty, Unmade
<1>5. Excuses'
  BY <1>1 DEF WindowSound, Excuses, Excusing, ListExcused, Excused, Fresh
<1>6. CountsWhatIsFresh' /\ CountsOwn'
  BY <1>1 DEF WindowSound, CountsWhatIsFresh, CountsOwn
<1>7. Undisturbing'
  BY <1>1 DEF WindowSound, Undisturbing, Alone, Tidy, Fresh, Slot, Key
<1>8. Retained'
  BY <1>1 DEF WindowSound, Retained, Undisturbed, Entered, Counting, Key
<1>9. Complete'
  BY <1>1, ZenonT(60) DEF WindowSound, Complete, Judged, Unshared, Due, Key
<1> QED
  BY <1>2, <1>3, <1>4, <1>5, <1>6, <1>7, <1>8, <1>9 DEF WindowSound

\* The initial states satisfy the invariant of the windows,
LEMMA InitWindow == Init => WindowSound
<1> SUFFICES ASSUME Init PROVE WindowSound
  OBVIOUS
<1>1. /\ begun = 0 /\ table = << >> /\ content = [p \in Packets |-> << >>]
      /\ clock = [p \in Packets |-> 0] /\ ran = [p \in Packets |-> {p}]
      /\ counted = [p \in Packets |-> {}]
  BY DEF Init
<1>2. \A w \in Workers : /\ frame[w].at = "idle" /\ frame[w].packet = 0 /\ frame[w].todo = << >>
                         /\ frame[w].list = 0
  BY DEF Init, Idle
<1>3. DOMAIN << >> = {} /\ 1 .. 0 = {} /\ 0 \notin Packets /\ \A p \in Packets : p > 0
  BY InitShape, PacketsAre
<1>4. Present = {} /\ Len(table) = 0
  BY <1>1, <1>3, EmptySeq DEF Present
<1>5. KeysOnce /\ Sized
  BY <1>1, <1>2, <1>3, <1>4, FS_EmptySet DEF KeysOnce, Once, Sized
<1>6. Ordered
  BY <1>1, <1>2, <1>3 DEF Ordered, PacketsApart, ClocksInOrder, Met
<1>7. NewListsEmpty
  BY <1>1, <1>2, <1>3, <1>4 DEF NewListsEmpty
<1>8. Excuses
  BY <1>2 DEF Excuses, Excusing, Capping, Holding, Sifting
<1>9. CountsWhatIsFresh /\ CountsOwn
  BY <1>1, <1>3 DEF CountsWhatIsFresh, CountsOwn
<1>10. Undisturbing /\ Retained /\ Complete
  BY <1>1, <1>2, <1>3 DEF Undisturbing, Alone, Retained, Complete
<1> QED
  BY <1>5, <1>6, <1>7, <1>8, <1>9, <1>10 DEF WindowSound

\* and every step keeps it.
LEMMA NextWindow ==
    ASSUME WindowShape, IInv, WindowSound, WindowShape', [Next]_vars
    PROVE  WindowSound'
<1>0. Cleaning /\ Keeping /\ Shape
  BY DEF Cleaning, Keeping, IInv, WindowSound
<1>1. ASSUME NEW w \in Workers, Begin(w) PROVE WindowSound'
  <2>1. Ordered' /\ NewListsEmpty'
    BY <1>1, <1>0, BeginOrdered, BeginNew DEF WindowSound
  <2>2. Excuses' /\ CountsWhatIsFresh' /\ CountsOwn'
    BY <1>0, <1>1, BeginExcuses DEF WindowSound
  <2>3. Undisturbing' /\ Retained' /\ Complete'
    BY <1>0, <1>1, BeginTidy, BeginRetains DEF WindowSound
  <2>4. KeysOnce' /\ Sized'
    <3>1. /\ frame'[w].at = "snapshot" /\ table' = table
          /\ \A v \in Workers : v # w => frame'[v] = frame[v]
      BY <1>0, <1>1, BeginDoes DEF Keeps, Stands
    <3> QED
      BY <3>1 DEF WindowSound, KeysOnce, Sized, Present
  <2> QED
    BY <2>1, <2>2, <2>3, <2>4 DEF WindowSound
<1>2. ASSUME NEW w \in Workers, Analyses(w) PROVE WindowSound'
  <2>1. Ordered' /\ NewListsEmpty' /\ KeysOnce' /\ Sized'
    BY <1>2, <1>0, AnalysesOrdered, AnalysesNew, AnalysesKeys DEF WindowSound, Ordered
  <2>2. Excuses' /\ CountsWhatIsFresh' /\ CountsOwn'
    BY <1>0, <1>2, AnalysesExcuses, AnalysesCounts DEF WindowSound
  <2>3. Undisturbing' /\ Retained' /\ Complete'
    BY <1>0, <1>2, AnalysesTidy, AnalysesRetains, AnalysesCompletes DEF WindowSound
  <2> QED
    BY <2>1, <2>2, <2>3 DEF WindowSound
<1>3. CASE Tick \/ UNCHANGED vars
  BY <1>3, QuietKeeps DEF Tick, vars, windows, history
<1> QED
  BY <1>1, <1>2, <1>3 DEF Next, WorkerStep, Analyses

-----------------------------------------------------------------------------
(* The limit on keys *)

\* Those about to add a key and those that have measured the table are different workers.
LEMMA KeyRoom ==
    ASSUME NEW A \in SUBSET Workers, NEW M \in SUBSET Workers, A \cap M = {}
    PROVE  /\ IsFiniteSet(A) /\ IsFiniteSet(M) /\ Cardinality(Workers) \in Nat
           /\ Cardinality(A) \in Nat /\ Cardinality(M) \in Nat
           /\ Cardinality(A) + Cardinality(M) <= Cardinality(Workers)
<1>1. IsFiniteSet(A) /\ IsFiniteSet(M) /\ Cardinality(Workers) \in Nat
  <2>1. IsFiniteSet(Workers)
    BY WorkersAssumption
  <2>2. IsFiniteSet(A) /\ IsFiniteSet(M)
    BY <2>1, FS_Subset
  <2> QED
    BY <2>1, <2>2, FS_CardinalityType
<1>2. Cardinality(A) \in Nat /\ Cardinality(M) \in Nat
  BY <1>1, FS_CardinalityType
<1>3. Cardinality(A \cup M) = Cardinality(A) + Cardinality(M) - Cardinality(A \cap M)
  BY <1>1, FS_Union
<1>4. Cardinality(A \cap M) = 0
  BY FS_EmptySet
<1>5. A \cup M \in SUBSET Workers
  OBVIOUS
<1>6. Cardinality(A \cup M) <= Cardinality(Workers)
  BY <1>5, WorkersAssumption, FS_Subset
<1> QED
  BY <1>1, <1>2, <1>3, <1>4, <1>6

\* The room for keys.
LEMMA KeyRooms ==
    /\ Cardinality(Workers) \in Nat /\ MaxKeys \in Nat
    /\ IsFiniteSet(Adders) /\ IsFiniteSet(Measured)
    /\ Cardinality(Adders) \in Nat /\ Cardinality(Measured) \in Nat
    /\ Cardinality(Adders) + Cardinality(Measured) <= Cardinality(Workers)
    /\ Vacant \in Int /\ Vacant >= MaxKeys + Cardinality(Measured)
<1>1. Adders \in SUBSET Workers /\ Measured \in SUBSET Workers /\ Adders \cap Measured = {}
  BY DEF Adders, Measured
<1>2. MaxKeys \in Nat
  BY LimitsAssumption
<1>3. /\ IsFiniteSet(Adders) /\ IsFiniteSet(Measured) /\ Cardinality(Workers) \in Nat
      /\ Cardinality(Adders) \in Nat /\ Cardinality(Measured) \in Nat
      /\ Cardinality(Adders) + Cardinality(Measured) <= Cardinality(Workers)
  BY <1>1, KeyRoom
<1>4. Vacant \in Int /\ Vacant >= MaxKeys + Cardinality(Measured)
  BY <1>2, <1>3 DEF Vacant
<1> QED
  BY <1>2, <1>3, <1>4

\* The same after a step.
LEMMA KeyRoomsThen ==
    /\ Cardinality(Adders') \in Nat /\ Cardinality(Measured') \in Nat
    /\ Vacant' = MaxKeys + Cardinality(Workers) - Cardinality(Adders')
    /\ Vacant' \in Int /\ Vacant' >= MaxKeys + Cardinality(Measured')
<1>1. /\ Adders' \in SUBSET Workers /\ Measured' \in SUBSET Workers
      /\ Adders' \cap Measured' = {}
  BY DEF Adders, Measured
<1>2. MaxKeys \in Nat
  BY LimitsAssumption
<1>3. /\ Cardinality(Adders') \in Nat /\ Cardinality(Measured') \in Nat
      /\ Cardinality(Workers) \in Nat
      /\ Cardinality(Adders') + Cardinality(Measured') <= Cardinality(Workers)
  BY <1>1, KeyRoom
<1>4. Vacant' = MaxKeys + Cardinality(Workers) - Cardinality(Adders')
  BY DEF Vacant
<1> QED
  BY <1>2, <1>3, <1>4

\* No more stays of the table than there is in it.
LEMMA StayingIs ==
    ASSUME table \in Seq(Slots), Sized, NEW w
    PROVE  /\ IsFiniteSet(Staying(w)) /\ Cardinality(Staying(w)) \in Nat
           /\ Cardinality(Staying(w)) <= Len(table) /\ Len(table) \in Nat
<1>1. IsFiniteSet(Present) /\ Cardinality(Present) \in Nat /\ Len(table) = Cardinality(Present)
  BY SizeSlots DEF Sized
<1>2. Staying(w) \in SUBSET Present
  BY DEF Staying
<1>3. IsFiniteSet(Staying(w)) /\ Cardinality(Staying(w)) <= Cardinality(Present)
  BY <1>1, <1>2, FS_Subset
<1>4. Cardinality(Staying(w)) \in Nat
  BY <1>3, FS_CardinalityType
<1> QED
  BY <1>1, <1>3, <1>4

\* A claim stands while the table only loses keys and the room does not shrink.
LEMMA ClaimStands ==
    ASSUME WindowShape, Sized, NEW v \in Workers, frame'[v] = frame[v],
           NEW m \in Int, NEW n \in Int, Claim(v, m),
           Present' \subseteq Present, Len(table') <= Len(table), Len(table') \in Nat,
           Vacant - m <= Vacant' - n
    PROVE  Claim(v, n)'
<1>1. Vacant \in Int /\ Vacant' \in Int /\ Len(table) \in Nat
  BY KeyRooms, KeyRoomsThen, StayingIs DEF WindowShape
<1>2. frame[v].over \in Int /\ table \in Seq(Slots)
  BY DEF WindowShape, FrameTyped
<1>3. ASSUME frame[v].at = "list"
      PROVE  \/ frame[v].over < 0 /\ -frame[v].over <= MaxKeys
             \/ frame[v].over >= 0 /\ Len(table') - frame[v].over <= Vacant' - n
  <2>1. \/ frame[v].over < 0 /\ -frame[v].over <= MaxKeys
        \/ frame[v].over >= 0 /\ Len(table) - frame[v].over <= Vacant - m
    BY <1>3 DEF Claim
  <2> QED
    BY <1>1, <1>2, <2>1, SMTT(40)
<1>4. ASSUME frame[v].at = "pop" PROVE Cardinality(Staying(v)') <= Vacant' - n
  <2>1. Staying(v)' \in SUBSET Staying(v)
    BY DEF Staying
  <2>2. IsFiniteSet(Staying(v)) /\ Cardinality(Staying(v)) \in Nat
    BY <1>2, StayingIs
  <2>3. IsFiniteSet(Staying(v)') /\ Cardinality(Staying(v)') <= Cardinality(Staying(v))
    BY <2>1, <2>2, FS_Subset
  <2>4. Cardinality(Staying(v)') \in Nat
    BY <2>3, FS_CardinalityType
  <2>5. Cardinality(Staying(v)) <= Vacant - m
    BY <1>4 DEF Claim
  <2> QED
    BY <1>1, <2>2, <2>3, <2>4, <2>5
<1> QED
  BY <1>3, <1>4 DEF Claim

\* It also stands when the whole table fits.
LEMMA ClaimFits ==
    ASSUME WindowShape, Sized, NEW v \in Workers, frame'[v] = frame[v],
           NEW m, NEW n \in Int, Claim(v, m),
           table' = table, Len(table) <= Vacant' - n
    PROVE  Claim(v, n)'
<1>1. Vacant' \in Int /\ Len(table) \in Nat
  BY KeyRoomsThen, StayingIs DEF WindowShape
<1>2. frame[v].over \in Int /\ table \in Seq(Slots)
  BY DEF WindowShape, FrameTyped
<1>3. ASSUME frame[v].at = "list"
      PROVE  \/ frame[v].over < 0 /\ -frame[v].over <= MaxKeys
             \/ frame[v].over >= 0 /\ Len(table) - frame[v].over <= Vacant' - n
  <2>1. \/ frame[v].over < 0 /\ -frame[v].over <= MaxKeys
        \/ frame[v].over >= 0
    BY <1>3 DEF Claim
  <2> QED
    BY <1>1, <1>2, <2>1
<1>4. Cardinality(Staying(v)') <= Vacant' - n
  <2>1. Staying(v)' = Staying(v)
    BY DEF Staying, Present
  <2>2. Cardinality(Staying(v)) \in Nat /\ Cardinality(Staying(v)) <= Len(table)
    BY <1>2, StayingIs
  <2> QED
    BY <1>1, <2>1, <2>2
<1> QED
  BY <1>3, <1>4 DEF Claim

\* One key more takes the place of the worker that adds it.
LEMMA ClaimGrows ==
    ASSUME WindowShape, Sized, NEW v \in Workers, frame'[v] = frame[v],
           NEW n \in Int, Claim(v, n), NEW s,
           Present' = Present \cup {s}, Len(table') = Len(table) + 1, Vacant' = Vacant + 1
    PROVE  Claim(v, n)'
<1>1. Vacant \in Int /\ Vacant' \in Int /\ Len(table) \in Nat
  BY KeyRooms, KeyRoomsThen, StayingIs DEF WindowShape
<1>2. frame[v].over \in Int /\ table \in Seq(Slots)
  BY DEF WindowShape, FrameTyped
<1>3. ASSUME frame[v].at = "list"
      PROVE  \/ frame[v].over < 0 /\ -frame[v].over <= MaxKeys
             \/ frame[v].over >= 0 /\ Len(table') - frame[v].over <= Vacant' - n
  <2>1. \/ frame[v].over < 0 /\ -frame[v].over <= MaxKeys
        \/ frame[v].over >= 0 /\ Len(table) - frame[v].over <= Vacant - n
    BY <1>3 DEF Claim
  <2> QED
    BY <1>1, <1>2, <2>1
<1>4. ASSUME frame[v].at = "pop" PROVE Cardinality(Staying(v)') <= Vacant' - n
  <2>1. Staying(v)' \in SUBSET (Staying(v) \cup {s})
    BY DEF Staying
  <2>2. IsFiniteSet(Staying(v)) /\ Cardinality(Staying(v)) \in Nat
    BY <1>2, StayingIs
  <2>3. /\ IsFiniteSet(Staying(v) \cup {s})
        /\ Cardinality(Staying(v) \cup {s}) = IF s \in Staying(v) THEN Cardinality(Staying(v))
                                              ELSE Cardinality(Staying(v)) + 1
    BY <2>2, FS_AddElement
  <2>4. /\ IsFiniteSet(Staying(v)')
        /\ Cardinality(Staying(v)') <= Cardinality(Staying(v) \cup {s})
    BY <2>1, <2>3, FS_Subset
  <2>5. Cardinality(Staying(v)') \in Nat
    BY <2>4, FS_CardinalityType
  <2>6. Cardinality(Staying(v)) <= Vacant - n
    BY <1>4 DEF Claim
  <2>7. Cardinality(Staying(v)') <= Cardinality(Staying(v)) + 1
    BY <2>2, <2>3, <2>4, <2>5
  <2> QED
    BY <1>1, <2>2, <2>5, <2>6, <2>7
<1> QED
  BY <1>3, <1>4 DEF Claim

\* The order among those who measured stays while they are the same and their claims stand.
LEMMA SameRanks ==
    ASSUME Limited, engine = "application", Measured' = Measured, Len(table') <= Vacant',
           \A v \in Measured : \A n \in 1 .. Cardinality(Measured) : Claim(v, n) => Claim(v, n)'
    PROVE  Limited'
<1>1. PICK rank \in [Measured -> 1 .. Cardinality(Measured)] : Ranked(rank)
  BY DEF Limited
<1>2. \A v, w \in Measured : v # w => rank[v] # rank[w]
  BY <1>1 DEF Ranked
<1>3. ASSUME NEW w \in Measured PROVE Claim(w, rank[w])'
  <2>1. PICK n \in 1 .. Cardinality(Measured) : n = rank[w]
    BY <1>1
  <2>2. Claim(w, n)
    BY <1>1, <1>3, <2>1 DEF Ranked
  <2>3. Claim(w, n)'
    BY <1>3, <2>2
  <2> QED
    BY <2>1, <2>3
<1>4. Ranked(rank)'
  BY <1>2, <1>3 DEF Ranked
<1> QED
  BY <1>1, <1>4 DEF Limited

\* Who has measured, and who is about to add a key, after a step of worker w.
LEMMA Whereabouts ==
    ASSUME NEW w \in Workers, Keeps(w)
    PROVE  /\ Measured' = (Measured \ {w}) \cup (IF frame'[w].at \in {"list", "pop"} THEN {w} ELSE {})
           /\ Adders' = (Adders \ {w}) \cup (IF frame'[w].at = "fetch" THEN {w} ELSE {})
           /\ w \in Measured <=> frame[w].at \in {"list", "pop"}
           /\ w \in Adders <=> frame[w].at = "fetch"
  BY DEF Measured, Adders, Keeps

\* A step that loses a key or leaves the table, of a worker that is elsewhere before and after.
LEMMA OutsideLimited ==
    ASSUME WindowShape, KeysOnce, Sized, Limited, engine = "application",
           NEW w \in Workers, Keeps(w), table' = table \/ \E key : Loses(key),
           frame[w].at \notin {"list", "pop", "fetch"}, frame'[w].at \notin {"list", "pop", "fetch"}
    PROVE  Limited'
<1>1. Measured' = Measured /\ Adders' = Adders /\ w \notin Measured
  BY Whereabouts
<1>2. Vacant' = Vacant /\ Vacant \in Int
  BY <1>1, KeyRooms DEF Vacant
<1>3. Present' \subseteq Present /\ Len(table') <= Len(table) /\ Len(table') \in Nat
  <2>1. Len(table) \in Nat /\ Once(table) /\ table \in Seq(Slots)
    BY StayingIs DEF WindowShape, KeysOnce
  <2>2. CASE table' = table
    BY <2>1, <2>2 DEF Present
  <2>3. ASSUME NEW key, Loses(key)
        PROVE  Present' \subseteq Present /\ Len(table') <= Len(table) /\ Len(table') \in Nat
    <3>1. Len(table') = Len(table) \/ Len(table') = Len(table) - 1
      BY <2>1, <2>3, LosesIs
    <3>2. table' \in Seq(Slots)
      BY <2>1, <2>3, WithoutIs DEF Loses
    <3>3. Len(table') \in Nat
      BY <3>2, LenProperties
    <3> QED
      BY <2>1, <2>3, <3>1, <3>3, LosesIs
  <2> QED
    BY <2>2, <2>3
<1>4. ASSUME NEW v \in Measured, NEW n \in 1 .. Cardinality(Measured), Claim(v, n)
      PROVE  Claim(v, n)'
  <2>1. v \in Workers /\ frame'[v] = frame[v] /\ n \in Int
    BY <1>1 DEF Measured, Keeps
  <2>2. Vacant - n <= Vacant' - n
    BY <1>2, <2>1
  <2> QED
    BY <1>3, <1>4, <2>1, <2>2, ClaimStands
<1>5. Len(table') <= Vacant'
  <2>1. Len(table) <= Vacant /\ Len(table) \in Nat
    BY StayingIs DEF Limited, WindowShape
  <2> QED
    BY <1>2, <1>3, <2>1
<1> QED
  BY <1>1, <1>4, <1>5, SameRanks

\* The table was within its limit: whoever saw that may add a key.
LEMMA TestLimited ==
    ASSUME WindowShape, KeysOnce, Sized, Shape, Limited, engine = "application",
           NEW w \in Workers, CapTest(w)
    PROVE  Limited'
<1>1. /\ frame[w].at = "cap" /\ table' = table
      /\ \/ frame'[w].at = "measure"
         \/ ~ OverLimit > 0 /\ frame'[w].at \in {"fetch", "alert", "idle"}
  BY CapTestDoes DEF Stands, Visits, Enters, Leaves, Hand
<1>2. Keeps(w) /\ frame[w].at # "idle"
  BY AnalysesDoes DEF Analyses
<1>3. CASE frame'[w].at # "fetch"
  BY <1>1, <1>2, <1>3, OutsideLimited
<1>4. CASE frame'[w].at = "fetch"
  <2>1. Measured' = Measured /\ w \notin Measured
    BY <1>1, <1>2, <1>4, Whereabouts
  <2>2. Len(table) <= MaxKeys /\ Len(table) \in Nat /\ MaxKeys \in Nat
    <3>1. Len(table) \in Nat /\ MaxKeys \in Nat
      BY StayingIs, KeyRooms DEF WindowShape
    <3>2. ~ Len(table) - MaxKeys > 0
      BY <1>1, <1>4 DEF OverLimit
    <3> QED
      BY <3>1, <3>2
  <2>3. Vacant' \in Int /\ Vacant' >= MaxKeys + Cardinality(Measured) /\ Cardinality(Measured) \in Nat
    BY <2>1, KeyRoomsThen
  <2>4. Len(table') <= Vacant'
    BY <1>1, <2>2, <2>3
  <2>5. ASSUME NEW v \in Measured, NEW n \in 1 .. Cardinality(Measured), Claim(v, n)
        PROVE  Claim(v, n)'
    <3>1. v \in Workers /\ frame'[v] = frame[v] /\ n \in Int
      BY <1>2, <2>1 DEF Measured, Keeps
    <3>2. Len(table) <= Vacant' - n
      BY <2>2, <2>3
    <3> QED
      BY <1>1, <2>5, <3>1, <3>2, ClaimFits
  <2> QED
    BY <2>1, <2>4, <2>5, SameRanks
<1> QED
  BY <1>3, <1>4

\* Whoever measures comes last.
LEMMA MeasureLimited ==
    ASSUME WindowShape, Sized, Shape, Limited, engine = "application",
           NEW w \in Workers, CapMeasure(w)
    PROVE  Limited'
<1>1. /\ frame[w].at = "measure" /\ table' = table
      /\ frame'[w].at = "list" /\ frame'[w].over = Len(table) - MaxKeys /\ Keeps(w)
  BY CapMeasureDoes DEF Stands, Hand, OverLimit
<1> DEFINE c == Cardinality(Measured)
<1>2. Measured' = Measured \cup {w} /\ w \notin Measured /\ Adders' = Adders
  BY <1>1, Whereabouts
<1>3. IsFiniteSet(Measured) /\ c \in Nat /\ Vacant \in Int /\ MaxKeys \in Nat
  BY KeyRooms
<1>4. Cardinality(Measured') = c + 1 /\ Vacant' = Vacant
  BY <1>2, <1>3, FS_AddElement DEF Vacant
<1>5. Vacant >= MaxKeys + c + 1
  BY <1>3, <1>4, KeyRoomsThen
<1>6. Len(table) \in Nat /\ Len(table) <= Vacant
  BY StayingIs DEF WindowShape, Limited
<1>7. PICK rank \in [Measured -> 1 .. c] : Ranked(rank)
  BY DEF Limited
<1>0. PICK next : next = [v \in Measured' |-> IF v = w THEN c + 1 ELSE rank[v]]
  OBVIOUS
<1> HIDE DEF c
<1>8. next \in [Measured' -> 1 .. c + 1]
  BY <1>2, <1>3, <1>7, <1>0
<1>9. \A v, x \in Measured' : v # x => next[v] # next[x]
  <2>1. \A v, x \in Measured : v # x => rank[v] # rank[x]
    BY <1>7 DEF Ranked
  <2>2. \A v \in Measured : rank[v] # c + 1
    BY <1>3, <1>7
  <2> QED
    BY <1>2, <1>0, <2>1, <2>2
<1>10. ASSUME NEW v \in Measured' PROVE Claim(v, next[v])'
  <2>1. PICK n \in 1 .. c + 1 : n = next[v]
    BY <1>8
  <2>2. CASE v = w
    <3>1. n = c + 1
      BY <1>0, <2>1, <2>2
    <3>2. \/ frame'[w].over < 0 /\ -frame'[w].over <= MaxKeys
          \/ frame'[w].over >= 0 /\ Len(table') - frame'[w].over <= Vacant' - n
      BY <1>1, <1>3, <1>4, <1>5, <1>6, <3>1
    <3>3. Claim(w, n)'
      BY <1>1, <3>2 DEF Claim
    <3> QED
      BY <2>1, <2>2, <3>3
  <2>3. CASE v # w
    <3>1. v \in Measured /\ n = rank[v] /\ v \in Workers /\ frame'[v] = frame[v]
      BY <1>1, <1>2, <1>0, <2>1, <2>3 DEF Measured, Keeps
    <3>2. Claim(v, n)
      BY <1>7, <3>1 DEF Ranked
    <3>3. /\ Present' \subseteq Present /\ Len(table') <= Len(table) /\ Len(table') \in Nat
          /\ Vacant - n <= Vacant' - n /\ n \in Int
      BY <1>1, <1>3, <1>4, <1>6, <2>1 DEF Present
    <3>4. Claim(v, n)'
      BY <3>1, <3>2, <3>3, ClaimStands
    <3> QED
      BY <2>1, <3>4
  <2> QED
    BY <2>2, <2>3
<1>11. Ranked(next)'
  BY <1>9, <1>10 DEF Ranked
<1> QED
  BY <1>1, <1>4, <1>6, <1>8, <1>11 DEF Limited

\* What is listed leaves no more than was to stay.
LEMMA ListLimited ==
    ASSUME WindowShape, Sized, Shape, Limited, engine = "application",
           NEW w \in Workers, CapList(w)
    PROVE  Limited'
<1> DEFINE over == frame[w].over
           last == LastListed(over)
           N == Len(table)
<1>1. /\ frame[w].at = "list" /\ table' = table /\ frame'[w].at = "pop" /\ Keeps(w)
      /\ frame'[w].todo = SubSeq(table, 1, last)
  BY CapListDoes DEF Stands, Hand
<1>2. Measured' = Measured /\ Adders' = Adders /\ Present' = Present
  <2>1. Present' = Present
    BY <1>1 DEF Present
  <2>2. Measured' = Measured /\ Adders' = Adders
    BY <1>1, Whereabouts
  <2> QED
    BY <2>1, <2>2
<1>3. /\ Vacant' = Vacant /\ Vacant \in Int /\ MaxKeys \in Nat /\ Cardinality(Measured) \in Nat
      /\ Vacant >= MaxKeys + Cardinality(Measured)
  BY <1>2, KeyRooms DEF Vacant
<1>4. N \in Nat /\ N <= Vacant /\ over \in Int /\ table \in Seq(Slots)
  BY StayingIs DEF WindowShape, Limited, FrameTyped
<1>5. last = IF over < 0 THEN N + over ELSE IF over <= N THEN over ELSE N
  BY <1>4, Smaller DEF LastListed
<1> DEFINE m == IF last < 0 THEN 0 ELSE last
<1>6. m \in 0 .. N /\ last \in Int /\ last <= N
  BY <1>4, <1>5
<1>7. Cardinality(Staying(w)') \in Nat /\ Cardinality(Staying(w)') <= N - m
  <2> DEFINE rest == {table[j] : j \in m + 1 .. N}
  <2>1. IsFiniteSet(m + 1 .. N) /\ Cardinality(m + 1 .. N) = N - m
    <3>1. m + 1 \in Int /\ N \in Int /\ (m + 1 > N => N - m = 0) /\ N - (m + 1) + 1 = N - m
      BY <1>4, <1>6
    <3> HIDE DEF m, N
    <3>2. /\ IsFiniteSet(m + 1 .. N)
          /\ Cardinality(m + 1 .. N) = IF m + 1 > N THEN 0 ELSE N - (m + 1) + 1
      BY <3>1, FS_Interval
    <3> QED
      BY <3>1, <3>2
  <2>2. [j \in m + 1 .. N |-> table[j]] \in Surjection(m + 1 .. N, rest)
    BY DEF Surjection
  <2>3. IsFiniteSet(rest) /\ Cardinality(rest) <= N - m
    BY <2>1, <2>2, FS_Surjection
  <2>4. Staying(w)' \subseteq rest
    <3> SUFFICES ASSUME NEW e \in Present, \A k \in DOMAIN frame'[w].todo : e.key # frame'[w].todo[k].key
                 PROVE  e \in rest
      BY <1>2 DEF Staying
    <3>1. PICK j \in 1 .. N : e = table[j]
      BY <1>4, PresentSlots DEF Present
    <3>2. j \notin 1 .. m
      <4> SUFFICES ASSUME j \in 1 .. m PROVE FALSE
        OBVIOUS
      <4>1. m = last /\ 1 <= last /\ j \in 1 .. last
        BY <1>6
      <4>2. \A k \in 1 .. last : table[k] \in Slots
        BY <1>4, <1>6, ElementOfSeq
      <4> DEFINE s == SubSeq(table, 1, last)
      <4> HIDE DEF last
      <4>3. /\ s \in Seq(Slots) /\ Len(s) = IF 1 <= last THEN last - 1 + 1 ELSE 0
            /\ \A k \in 1 .. last - 1 + 1 : s[k] = table[1 + k - 1]
        BY <1>6, <4>2, SubSeqProperties
      <4>4. DOMAIN s = 1 .. Len(s) /\ Len(s) = last
        BY <1>6, <4>1, <4>3, LenProperties
      <4>5. j \in DOMAIN s /\ s[j] = table[j]
        <5>1. j \in 1 .. last - 1 + 1 /\ 1 + j - 1 = j
          BY <1>6, <4>1
        <5> HIDE DEF s
        <5> QED
          BY <4>1, <4>3, <4>4, <5>1
      <4> QED
        BY <1>1, <3>1, <4>5
    <3>3. j \in m + 1 .. N
      BY <1>6, <3>2
    <3> QED
      BY <3>1, <3>3
  <2>5. IsFiniteSet(Staying(w)') /\ Cardinality(Staying(w)') <= Cardinality(rest)
    BY <2>3, <2>4, FS_Subset
  <2>6. Cardinality(Staying(w)') \in Nat /\ Cardinality(rest) \in Nat
    BY <2>3, <2>5, FS_CardinalityType
  <2> HIDE DEF rest
  <2> QED
    BY <1>4, <1>6, <2>3, <2>5, <2>6
<1>8. ASSUME NEW v \in Measured, NEW n \in 1 .. Cardinality(Measured), Claim(v, n)
      PROVE  Claim(v, n)'
  <2>1. CASE v = w
    <3>1. \/ over < 0 /\ -over <= MaxKeys
          \/ over >= 0 /\ N - over <= Vacant - n
      BY <1>1, <1>8, <2>1 DEF Claim
    <3>2. N - m <= Vacant - n
      BY <1>3, <1>4, <1>5, <3>1, SMTT(40)
    <3> HIDE DEF m
    <3>3. Cardinality(Staying(w)') <= Vacant' - n
      BY <1>3, <1>4, <1>6, <1>7, <3>2
    <3> QED
      BY <1>1, <2>1, <3>3 DEF Claim
  <2>2. CASE v # w
    <3>1. v \in Workers /\ frame'[v] = frame[v] /\ n \in Int
      BY <1>1, <2>2 DEF Measured, Keeps
    <3>2. Vacant - n <= Vacant' - n /\ Len(table') <= Len(table) /\ Len(table') \in Nat
      BY <1>1, <1>3, <1>4, <3>1
    <3> QED
      BY <1>2, <1>8, <3>1, <3>2, ClaimStands
  <2> QED
    BY <2>1, <2>2
<1>9. Len(table') <= Vacant'
  BY <1>1, <1>3, <1>4
<1> QED
  BY <1>2, <1>8, <1>9, SameRanks

\* A key that is dropped was not to stay.
LEMMA PopLimited ==
    ASSUME WindowShape, KeysOnce, Sized, Shape, Limited, engine = "application",
           NEW w \in Workers, CapPop(w), frame[w].todo # << >>
    PROVE  Limited'
<1> DEFINE key == frame[w].todo[1].key
<1>1. /\ frame[w].at = "pop" /\ frame'[w].at = "pop" /\ Keeps(w) /\ Loses(key)
      /\ frame'[w].todo = Tail(frame[w].todo)
  BY CapPopDoes DEF Hand, Loses
<1>2. Measured' = Measured /\ Adders' = Adders
  BY <1>1, Whereabouts
<1>3. Vacant' = Vacant /\ Vacant \in Int
  BY <1>2, KeyRooms DEF Vacant
<1>4. /\ Len(table) \in Nat /\ Len(table) <= Vacant /\ table \in Seq(Slots) /\ Once(table)
      /\ frame[w].todo \in Seq(Slots)
  BY StayingIs DEF WindowShape, Limited, FrameTyped, KeysOnce
<1>5. Len(table') \in Nat /\ Len(table') <= Len(table)
  <2>1. Len(table') = Len(table) \/ Len(table') = Len(table) - 1
    BY <1>1, <1>4, LosesIs
  <2>2. Len(table') \in Nat
    BY <1>1, <1>4, WithoutIs, LenProperties DEF Loses
  <2> QED
    BY <1>4, <2>1, <2>2
<1>6. Present' = {e \in Present : e.key # key}
  BY <1>1, <1>4, LosesIs
<1>7. Staying(w)' \subseteq Staying(w)
  <2> SUFFICES ASSUME NEW e \in Present', NEW j \in DOMAIN frame[w].todo,
                      \A k \in DOMAIN frame'[w].todo : e.key # frame'[w].todo[k].key
               PROVE  e.key # frame[w].todo[j].key
    BY <1>6 DEF Staying
  <2>1. CASE j = 1
    BY <1>6, <2>1
  <2>2. CASE j # 1
    <3>1. j - 1 \in DOMAIN Tail(frame[w].todo) /\ j \in Nat
      BY <1>4, <2>2, TailIs
    <3>2. Tail(frame[w].todo)[j - 1] = frame[w].todo[j - 1 + 1]
      BY <1>4, <3>1, TailIs
    <3>3. j - 1 + 1 = j
      BY <3>1
    <3> QED
      BY <1>1, <3>1, <3>2, <3>3
  <2> QED
    BY <2>1, <2>2
<1>8. ASSUME NEW v \in Measured, NEW n \in 1 .. Cardinality(Measured), Claim(v, n)
      PROVE  Claim(v, n)'
  <2>1. CASE v = w
    <3>1. Cardinality(Staying(w)) <= Vacant - n
      BY <1>1, <1>8, <2>1 DEF Claim
    <3>2. IsFiniteSet(Staying(w)) /\ Cardinality(Staying(w)) \in Nat
      BY <1>4, StayingIs
    <3>3. IsFiniteSet(Staying(w)') /\ Cardinality(Staying(w)') <= Cardinality(Staying(w))
      BY <1>7, <3>2, FS_Subset
    <3>4. Cardinality(Staying(w)') \in Nat
      BY <3>3, FS_CardinalityType
    <3>5. Cardinality(Staying(w)') <= Vacant' - n
      BY <1>3, <3>1, <3>2, <3>3, <3>4
    <3> QED
      BY <1>1, <2>1, <3>5 DEF Claim
  <2>2. CASE v # w
    <3>1. v \in Workers /\ frame'[v] = frame[v] /\ n \in Int
      BY <1>1, <2>2 DEF Measured, Keeps
    <3>2. Vacant - n <= Vacant' - n /\ Present' \subseteq Present
      BY <1>3, <1>6, <3>1
    <3> QED
      BY <1>5, <1>8, <3>1, <3>2, ClaimStands
  <2> QED
    BY <2>1, <2>2
<1>9. Len(table') <= Vacant'
  BY <1>3, <1>4, <1>5
<1> QED
  BY <1>2, <1>8, <1>9, SameRanks

\* One more element makes a set larger by at most one.
LEMMA AtMostOneMore ==
    ASSUME NEW S, IsFiniteSet(S), NEW x
    PROVE  Cardinality(S \cup {x}) <= Cardinality(S) + 1
<1>1. Cardinality(S) \in Nat
  BY FS_CardinalityType
<1>2. Cardinality(S \cup {x}) = IF x \in S THEN Cardinality(S) ELSE Cardinality(S) + 1
  BY FS_AddElement
<1>3. CASE x \in S
  BY <1>1, <1>2, <1>3
<1>4. CASE x \notin S
  BY <1>1, <1>2, <1>4
<1> QED
  BY <1>3, <1>4

\* One worker less to wait for makes up for the room that is lost.
LEMMA OneFewer ==
    \A a, b, m, n \in Int : b >= a - 1 /\ n = m - 1 => a - m <= b - n
OBVIOUS

\* Whoever is done with dropping makes room for those behind, and may add a key.
LEMMA LeaveLimited ==
    ASSUME WindowShape, KeysOnce, Sized, Shape, Limited, engine = "application",
           NEW w \in Workers, CapPop(w), frame[w].todo = << >>
    PROVE  Limited'
<1>1. /\ frame[w].at = "pop" /\ table' = table
      /\ frame'[w].at \in {"fetch", "alert", "idle"}
  BY CapPopDoes DEF Visits, Enters, Leaves, Hand
<1>2. Keeps(w)
  BY AnalysesDoes DEF Analyses
<1> DEFINE c == Cardinality(Measured)
<1>3. /\ Measured' = Measured \ {w} /\ w \in Measured
      /\ Adders' = Adders \/ Adders' = Adders \cup {w}
  BY <1>1, <1>2, Whereabouts
<1>4. /\ IsFiniteSet(Measured) /\ IsFiniteSet(Adders) /\ c \in Nat /\ Vacant \in Int
      /\ Cardinality(Adders) \in Nat /\ Cardinality(Workers) \in Nat /\ MaxKeys \in Nat
  BY KeyRooms
<1>5. Cardinality(Measured') = c - 1
  BY <1>3, <1>4, FS_RemoveElement
<1>6. Vacant' \in Int /\ Vacant' >= Vacant - 1
  <2>1. Cardinality(Adders') <= Cardinality(Adders) + 1
    <3>1. CASE Adders' = Adders
      BY <1>4, <3>1
    <3>2. CASE Adders' = Adders \cup {w}
      BY <1>4, <3>2, AtMostOneMore
    <3> QED
      BY <1>3, <3>1, <3>2
  <2> QED
    BY <1>4, <2>1, KeyRoomsThen DEF Vacant
<1>7. PICK rank \in [Measured -> 1 .. c] : Ranked(rank)
  BY DEF Limited
<1>8. PICK r \in 1 .. c : r = rank[w]
  BY <1>3, <1>7
<1>9. Len(table) \in Nat /\ Len(table) <= Vacant - r
  <2>1. Staying(w) = Present
    <3>1. DOMAIN << >> = {}
      OBVIOUS
    <3> QED
      BY <3>1 DEF Staying
  <2>2. Cardinality(Staying(w)) <= Vacant - r
    BY <1>1, <1>3, <1>7, <1>8 DEF Ranked, Claim
  <2>3. Len(table) = Cardinality(Present) /\ Len(table) \in Nat
    BY StayingIs DEF Sized, WindowShape
  <2> QED
    BY <2>1, <2>2, <2>3
<1>10. PICK next : next = [v \in Measured' |-> IF rank[v] > r THEN rank[v] - 1 ELSE rank[v]]
  OBVIOUS
<1> HIDE DEF c
<1>11. ASSUME NEW v \in Measured'
       PROVE  /\ v \in Measured /\ v \in Workers /\ frame'[v] = frame[v]
              /\ rank[v] \in 1 .. c /\ rank[v] # r /\ next[v] \in 1 .. c - 1
              /\ next[v] = IF rank[v] > r THEN rank[v] - 1 ELSE rank[v]
  <2>1. v \in Measured /\ v # w /\ v \in Workers /\ frame'[v] = frame[v]
    BY <1>2, <1>3 DEF Measured, Keeps
  <2>2. rank[v] \in 1 .. c /\ rank[v] # r
    BY <1>3, <1>7, <1>8, <2>1 DEF Ranked
  <2>3. next[v] = IF rank[v] > r THEN rank[v] - 1 ELSE rank[v]
    BY <1>10
  <2>4. next[v] \in 1 .. c - 1
    BY <1>4, <1>8, <2>2, <2>3
  <2> QED
    BY <2>1, <2>2, <2>3, <2>4
<1>12. next \in [Measured' -> 1 .. c - 1]
  <2>1. DOMAIN next = Measured' /\ next = [v \in DOMAIN next |-> next[v]]
    BY <1>10
  <2> QED
    BY <1>11, <2>1
<1>13. ASSUME NEW v \in Measured', NEW x \in Measured', v # x PROVE next[v] # next[x]
  <2>1. rank[v] # rank[x]
    BY <1>7, <1>11, <1>13 DEF Ranked
  <2>2. rank[v] \in Int /\ rank[x] \in Int /\ r \in Int
    BY <1>4, <1>11
  <2>3. rank[v] # r /\ rank[x] # r
    BY <1>11
  <2>4. /\ next[v] = IF rank[v] > r THEN rank[v] - 1 ELSE rank[v]
        /\ next[x] = IF rank[x] > r THEN rank[x] - 1 ELSE rank[x]
    BY <1>11
  <2> QED
    BY <2>1, <2>2, <2>3, <2>4
<1>14. ASSUME NEW v \in Measured' PROVE Claim(v, next[v])'
  <2>1. PICK n \in 1 .. c - 1 : n = next[v]
    BY <1>11
  <2>2. PICK m \in 1 .. c : m = rank[v]
    BY <1>11
  <2>3. Claim(v, m) /\ v \in Workers /\ frame'[v] = frame[v] /\ n \in Int /\ m \in Int
    BY <1>4, <1>7, <1>11, <2>2 DEF Ranked
  <2>4. m # r /\ n = IF m > r THEN m - 1 ELSE m
    BY <1>11, <2>1, <2>2
  <2>5. /\ Vacant \in Int /\ Vacant' \in Int /\ Vacant' >= Vacant - 1
        /\ n \in Int /\ m \in Int
    BY <1>4, <1>6, <2>3
  <2>6. r \in Int /\ Len(table) \in Int /\ Len(table) <= Vacant - r
    BY <1>4, <1>8, <1>9
  <2>7. CASE m > r
    <3>0. n = m - 1
      BY <2>4, <2>7
    <3>1. Vacant - m <= Vacant' - n
      BY <2>5, <3>0, OneFewer
    <3>2. Present' \subseteq Present /\ Len(table') <= Len(table) /\ Len(table') \in Nat
      BY <1>1, <1>9 DEF Present
    <3>3. Claim(v, n)'
      BY <2>3, <3>1, <3>2, ClaimStands
    <3> QED
      BY <2>1, <3>3
  <2>8. CASE ~ m > r
    <3>1. Len(table) <= Vacant' - n
      <4>1. n = m /\ m < r
        BY <2>4, <2>8, <2>5, <2>6
      <4> QED
        BY <2>5, <2>6, <4>1
    <3>2. Claim(v, n)'
      BY <1>1, <2>3, <3>1, ClaimFits
    <3> QED
      BY <2>1, <3>2
  <2> QED
    BY <2>7, <2>8
<1>15. Ranked(next)'
  BY <1>13, <1>14 DEF Ranked
<1>16. Len(table') <= Vacant'
  BY <1>1, <1>4, <1>6, <1>8, <1>9
<1> QED
  BY <1>5, <1>12, <1>15, <1>16 DEF Limited

\* The key that is added takes the room of the worker that was to add it.
LEMMA FetchLimited ==
    ASSUME WindowShape, KeysOnce, Sized, Shape, Limited, engine = "application",
           NEW w \in Workers, Fetch(w)
    PROVE  Limited'
<1>1. /\ frame[w].at = "fetch" /\ frame'[w].at \in {"filter", "append"} /\ Keeps(w)
      /\ table' = table \/ Gains(w)
  BY FetchDoes DEF Hand, Gains, Slot, MyKey, Mine
<1>2. Measured' = Measured /\ Adders' = Adders \ {w} /\ w \in Adders
  BY <1>1, Whereabouts
<1>3. /\ IsFiniteSet(Adders) /\ Vacant \in Int /\ Cardinality(Adders) \in Nat
      /\ Cardinality(Workers) \in Nat /\ MaxKeys \in Nat
  BY KeyRooms
<1>4. Vacant' = Vacant + 1
  <2>1. Cardinality(Adders') = Cardinality(Adders) - 1
    BY <1>2, <1>3, FS_RemoveElement
  <2> QED
    BY <1>3, <2>1, KeyRoomsThen DEF Vacant
<1>5. Len(table) \in Nat /\ Len(table) <= Vacant
  BY StayingIs DEF WindowShape, Limited
<1>6. ASSUME NEW v \in Measured PROVE v \in Workers /\ frame'[v] = frame[v]
  BY <1>1, <1>6 DEF Measured, Keeps
<1>7. CASE table' = table
  <2>1. ASSUME NEW v \in Measured, NEW n \in 1 .. Cardinality(Measured), Claim(v, n)
        PROVE  Claim(v, n)'
    <3>1. Vacant - n <= Vacant' - n /\ n \in Int
      BY <1>3, <1>4
    <3>2. Present' \subseteq Present /\ Len(table') <= Len(table) /\ Len(table') \in Nat
      BY <1>5, <1>7 DEF Present
    <3> QED
      BY <1>6, <2>1, <3>1, <3>2, ClaimStands
  <2>2. Len(table') <= Vacant'
    BY <1>3, <1>4, <1>5, <1>7
  <2> QED
    BY <1>2, <2>1, <2>2, SameRanks
<1>8. CASE Gains(w)
  <2>1. Present' = Present \cup {Slot(frame[w].packet)} /\ Len(table') = Len(table) + 1
    BY <1>8, GainsIs DEF KeysOnce
  <2>2. PICK s : s = Slot(frame[w].packet)
    OBVIOUS
  <2>3. ASSUME NEW v \in Measured, NEW n \in 1 .. Cardinality(Measured), Claim(v, n)
        PROVE  Claim(v, n)'
    <3>1. n \in Int /\ Present' = Present \cup {s}
      BY <2>1, <2>2
    <3> QED
      BY <1>4, <1>6, <2>1, <2>3, <3>1, ClaimGrows
  <2>4. Len(table') <= Vacant'
    BY <1>3, <1>4, <1>5, <2>1
  <2> QED
    BY <1>2, <2>3, <2>4, SameRanks
<1> QED
  BY <1>1, <1>7, <1>8

\* A step of an analysis keeps the table within its limit.
LEMMA AnalysesLimited ==
    ASSUME WindowShape, KeysOnce, Sized, Shape, Limited, NEW w \in Workers, Analyses(w)
    PROVE  Limited'
<1>1. Steady /\ Keeps(w)
  BY AnalysesDoes
<1>2. CASE engine # "application"
  BY <1>1, <1>2 DEF Limited, Steady
<1>3. CASE engine = "application"
  <2>1. ASSUME frame[w].at \notin {"list", "pop", "fetch"},
               frame'[w].at \notin {"list", "pop", "fetch"},
               table' = table \/ \E key : Loses(key)
        PROVE  Limited'
    BY <1>1, <1>3, <2>1, OutsideLimited
  <2>2. \A entries : Onward(w, entries) => frame'[w].at \in {"clean", "cap"}
    BY <1>3 DEF Onward, Cleans, Enters, Hand
  <2>3. CASE Snapshot(w)
    BY <2>1, <2>2, <2>3, SnapshotDoes DEF Stands
  <2>4. CASE Sift(w)
    BY <2>1, <2>4, SiftDoes DEF Stands, Sifting, Hand
  <2>5. CASE Cleaned(w)
    <3>1. /\ frame[w].at = "clean"
          /\ table' = table \/ \E key : Loses(key)
          /\ frame'[w].at \in {"clean", "cap", "alert", "idle"}
      BY <2>2, <2>5, CleanedDoes DEF Loses, Enters, Leaves, Hand
    <3> QED
      BY <2>1, <3>1
  <2>6. CASE CapTest(w)
    BY <1>3, <2>6, TestLimited
  <2>7. CASE CapMeasure(w)
    BY <1>3, <2>7, MeasureLimited
  <2>8. CASE CapList(w)
    BY <1>3, <2>8, ListLimited
  <2>9. CASE CapPop(w)
    BY <1>3, <2>9, PopLimited, LeaveLimited
  <2>10. CASE Fetch(w)
    BY <1>3, <2>10, FetchLimited
  <2>11. CASE Filtered(w)
    BY <1>3, <2>1, <2>11, FilteredDoes DEF Hand
  <2>12. CASE AppendSample(w)
    BY <1>3, <2>1, <2>12, AppendDoes DEF Hand
  <2>13. CASE Count(w)
    BY <2>1, <2>13, CountDoes DEF Enters, Leaves, Hand
  <2>14. CASE Consider(w) \/ BlockFails(w) \/ BlockRecorded(w)
    BY <2>1, <2>14, BlockDoes DEF Enters, Leaves, Hand, Stands
  <2> QED
    BY <2>3, <2>4, <2>5, <2>6, <2>7, <2>8, <2>9, <2>10, <2>11, <2>12, <2>13, <2>14 DEF Analyses
<1> QED
  BY <1>2, <1>3

\* So does every step;
LEMMA NextLimited ==
    ASSUME WindowShape, IInv, WindowSound, Limited, [Next]_vars
    PROVE  Limited'
<1>0. Shape /\ KeysOnce /\ Sized
  BY DEF IInv, WindowSound
<1>1. ASSUME NEW w \in Workers, Begin(w) PROVE Limited'
  <2>1. /\ frame[w].at = "idle" /\ frame'[w].at = "snapshot" /\ Keeps(w) /\ table' = table
        /\ engine' = engine
    BY <1>0, <1>1, BeginDoes DEF Stands
  <2>2. CASE engine = "application"
    BY <1>0, <2>1, <2>2, OutsideLimited
  <2>3. CASE engine # "application"
    BY <2>1, <2>3 DEF Limited
  <2> QED
    BY <2>2, <2>3
<1>2. ASSUME NEW w \in Workers, Analyses(w) PROVE Limited'
  BY <1>0, <1>2, AnalysesLimited
<1>3. CASE UNCHANGED <<engine, table, frame>>
  <2>1. CASE engine # "application"
    BY <1>3, <2>1 DEF Limited
  <2>2. CASE engine = "application"
    <3>1. Measured' = Measured /\ Vacant' = Vacant /\ Present' = Present
      BY <1>3 DEF Measured, Vacant, Adders, Present
    <3>2. \A v, n : Claim(v, n) => Claim(v, n)'
      BY <1>3, <3>1 DEF Claim, Staying
    <3>3. Len(table') <= Vacant'
      BY <1>3, <2>2, <3>1 DEF Limited
    <3> QED
      BY <2>2, <3>1, <3>2, <3>3, SameRanks
  <2> QED
    BY <2>1, <2>2
<1> QED
  BY <1>1, <1>2, <1>3 DEF Next, WorkerStep, Analyses, Tick, vars, windows

\* and the table is empty at first.
LEMMA InitLimited == Init => Limited
<1> SUFFICES ASSUME Init, engine = "application" PROVE Limited
  BY DEF Limited
<1>1. table = << >> /\ \A w \in Workers : frame[w].at = "idle"
  BY DEF Init, Idle
<1>2. Measured = {} /\ Adders = {} /\ Len(table) = 0
  BY <1>1, EmptySeq DEF Measured, Adders
<1>3. Len(table) <= Vacant
  BY <1>2, KeyRooms
<1>4. PICK rank : rank = [w \in {} |-> 1]
  OBVIOUS
<1>5. rank \in [Measured -> 1 .. Cardinality(Measured)] /\ Ranked(rank)
  BY <1>2, <1>4 DEF Ranked
<1> QED
  BY <1>3, <1>5 DEF Limited

-----------------------------------------------------------------------------
(* The theorem *)

CInv == IInv /\ WindowShape /\ WindowSound /\ Limited

\* The invariant implies the types, with the limits on the table and on the tracked addresses,
LEMMA TypesFollow == CInv => TypeOK
<1> SUFFICES ASSUME CInv PROVE TypeOK
  OBVIOUS
<1>1. Shape /\ WindowShape /\ WindowSound /\ Limited
  BY DEF CInv, IInv
<1>2. \A k \in DOMAIN table : table[k].list \in Packets
  <2>1. table \in Seq(Slots)
    BY <1>1 DEF WindowShape
  <2> QED
    BY <2>1, PresentSlots, SlotIs DEF Present
<1>3. ASSUME NEW p \in Packets PROVE ToSet(content[p]) \subseteq 1 .. begun /\ clock[p] <= now
  <2>1. \A k \in DOMAIN content[p] : content[p][k] \in 1 .. begun
    BY <1>1, BegunPackets, ContentTyped
  <2>2. clock[p] \in 0 .. now
    BY <1>1 DEF WindowShape
  <2> QED
    BY <2>1, <2>2 DEF ToSet
<1>4. ASSUME NEW w \in Workers PROVE frame[w].packet \in 0 .. begun
  <2>1. begun \in Nat /\ (frame[w].at = "idle" => frame[w].packet = 0)
    BY <1>1 DEF Shape, WindowShape, FrameTyped
  <2>2. frame[w].at # "idle" => frame[w].packet \in 1 .. begun
    BY <1>1 DEF Shape
  <2> QED
    BY <2>1, <2>2
<1>5. engine = "application" => Len(table) <= MaxKeys + Cardinality(Workers)
  <2> SUFFICES ASSUME engine = "application" PROVE Len(table) <= MaxKeys + Cardinality(Workers)
    OBVIOUS
  <2>1. Len(table) <= Vacant /\ Len(table) \in Nat
    BY <1>1, StayingIs DEF Limited, WindowShape, WindowSound
  <2> QED
    BY <2>1, KeyRooms DEF Vacant
<1>6. /\ traffic \in Traffics /\ engine \in Engines /\ now \in 0 .. Duration
      /\ begun \in 0 .. Len(traffic) /\ capped \in BOOLEAN /\ Len(recent) <= MaxTracked
  BY <1>1 DEF Shape, WindowShape
<1> QED
  BY <1>2, <1>3, <1>4, <1>5, <1>6 DEF TypeOK

\* and that a packet nobody disturbed is judged on exactly what is due.
LEMMA ExactFollows == CInv => ExactAlone
<1> SUFFICES ASSUME CInv, NEW p \in 1 .. begun, Analysed(p), traffic[p].kind = "counted",
                    ~ capped, Unshared(p)
             PROVE  counted[p] = Due(p)
  BY DEF ExactAlone, Unshared
<1>1. Shape /\ WindowShape /\ WindowSound
  BY DEF CInv, IInv
<1>2. p \in Packets /\ p \in Nat /\ begun \in Nat /\ Window \in Nat /\ clock[p] \in Nat
  BY <1>1, BegunPackets, PacketsAre, ClockNat
<1>3. ran[p] = {p}
  <2>1. p \in Due(p)
    BY <1>2 DEF Due
  <2> QED
    BY <1>2, <2>1 DEF Unshared
<1>4. Due(p) \subseteq counted[p]
  BY <1>1 DEF WindowSound, Complete, Judged, Analysed
<1>5. ASSUME NEW q \in counted[p] PROVE q \in Due(p)
  <2>1. q \in Mates(p) /\ (q <= p \/ q \in ran[p])
    BY <1>1, <1>2, <1>5 DEF WindowSound, CountsOwn
  <2>2. \E r \in ran[p] : clock[q] + Window >= clock[r]
    BY <1>1, <1>5 DEF WindowSound, CountsWhatIsFresh
  <2>3. q \in 1 .. begun /\ traffic[q].kind = "counted" /\ Key(traffic[q]) = Key(traffic[p])
    BY <2>1 DEF Mates
  <2>4. q \in 1 .. p
    BY <1>2, <1>3, <2>1, <2>3
  <2> QED
    BY <1>3, <2>2, <2>3, <2>4 DEF Due
<1> QED
  BY <1>4, <1>5

\* Whatever the workers do to the unlocked windows, the table and the tracked addresses stay
\* within their limits, a packet that nobody overlapped within its window is judged on exactly
\* the samples that are due, and nothing older than the window is counted, except what a worker
\* with an earlier clock put back (analyze, _prune_state and the counters of SignatureIDS).
THEOREM DetectorsCountWhatIsDue == Spec => []CountsSound
<1>1. Init => CInv
  BY InitInv, InitShape, InitWindow, InitLimited DEF CInv
<1>2. CInv /\ [Next]_vars => CInv'
  <2> SUFFICES ASSUME CInv, [Next]_vars PROVE CInv'
    OBVIOUS
  <2>1. IInv'
    BY NextKeeps DEF CInv
  <2>2. WindowShape'
    BY NextShape DEF CInv, WindowSound, KeysOnce
  <2>3. WindowSound'
    BY <2>2, NextWindow DEF CInv
  <2>4. Limited'
    BY NextLimited DEF CInv
  <2> QED
    BY <2>1, <2>2, <2>3, <2>4 DEF CInv
<1>3. CInv => CountsSound
  <2>1. CInv => CountsWhatIsFresh
    BY DEF CInv, WindowSound
  <2> QED
    BY <2>1, TypesFollow, ExactFollows DEF CountsSound
<1> QED
  BY <1>1, <1>2, <1>3, PTL DEF Spec
=============================================================================
