------------------------- MODULE SnifferServiceProofs -------------------------
(***************************************************************************)
(* First the life cycle (SnifferService).  For any number of request       *)
(* threads, sessions and packets, and any size of the intake queue: no     *)
(* running session is lost track of (SessionsAccounted), and a stop() that *)
(* has seen the sniff loop end and both stages drained leaves no packet of *)
(* its session behind (StopDrains).                                        *)
(*                                                                         *)
(* The first rests on _lock: who waits for a session holds it (Starting),  *)
(* so that nobody else sets or takes _engine meanwhile.  The second on     *)
(* where a packet can be (Conserved), on a loop that has ended delivering  *)
(* nothing more (LoopsEnd), and on packets only moving towards the end of  *)
(* the pipeline, so that a stage found empty stays empty of the session's  *)
(* packets (Draining).                                                     *)
(*                                                                         *)
(* Then what a running capture shows (LiveSession), for any workers,       *)
(* packets, resets, limits and readers: the counters agree with what they  *)
(* count (CountersAgree), a request fails only by a reset                  *)
(* (ConversationAnswered), the risk of a flow falls only with its protocol *)
(* (RiskFallsOnlyWhenRecognised), the views agree (ViewsAgree), and the    *)
(* flow table is what its log makes of it (TableMatchesLog).               *)
(*                                                                         *)
(* These rest on the shape of a state (Shape); on what each step does to   *)
(* the one frame that moves; on the lanes, by which the packets of a       *)
(* conversation are in one worker's hands, one at a time and in their      *)
(* order (Orderly); and on what is owed: a packet that is past a step of   *)
(* _process_packet is in that step's view (Seen), and what a worker will   *)
(* still show is later than what the ring has of its conversation          *)
(* (Abreast).                                                              *)
(***************************************************************************)
EXTENDS SnifferService, LiveSession, QueueLemmas, SequenceTheorems, TLAPS

\* The thread that waits for its session holds the lock, and no session is held meanwhile.
Starting ==
    /\ lock # None => lock \in Threads /\ pc[lock] = "startWait"
    /\ \A t \in Threads : pc[t] = "startWait" =>
           /\ lock = t /\ engine = None
           /\ mine[t] \in Session /\ mine[t] <= opened
           /\ mine[t] \notin abandoned /\ runner[mine[t]] # "none"

\* A session that is held, or being stopped, has been opened completely.
Held ==
    /\ engine # None => runner[engine] = "done"
    /\ \A t \in Threads : pc[t] \in {"signal", "join"} =>
           mine[t] \in Session /\ runner[mine[t]] = "done"

\* A session that is still being opened belongs to a start(), or was given up.
Opening ==
    /\ \A s \in Session : s > opened <=> runner[s] = "none"
    /\ \A s \in abandoned : s <= opened
    /\ \A s \in Session : runner[s] \in {"none", "creating"} => ~run[s] /\ ~looping[s]
    /\ \A s \in Session : runner[s] \in {"creating", "live"} =>
           s \in abandoned \/ Doing("startWait", s)

\* A loop that has ended has no packet in its hands.
LoopsEnd == \A s \in Session : ~looping[s] => calling[s] = NoPacket

Queued(x) == \E n \in 1 .. Len(intake) : intake[n] = x
InPool(x) == x \in pool \cup processed \cup lost
Conserved ==
    \A s \in Session : \A i \in 1 .. delivered[s] :
        calling[s] = <<s, i>> \/ Queued(<<s, i>>) \/ held = <<s, i>> \/ InPool(<<s, i>>)

\* What stop() knows of its session once it has seen the loop end, and a stage drained.
Stopping(t) == pc[t] \in {"drainIntake", "drainPool", "stopped"} /\ mine[t] # None
Knows(t) ==
    Stopping(t) /\ joined[t] =>
        /\ runner[mine[t]] = "done" /\ ~looping[mine[t]]
        /\ pc[t] = "drainPool" /\ drained[t] =>
              \A i \in 1 .. delivered[mine[t]] : InPool(<<mine[t], i>>)
        /\ pc[t] = "stopped" /\ drained[t] =>
              \A i \in 1 .. delivered[mine[t]] : <<mine[t], i>> \in processed \cup lost
Draining == \A t \in Threads : Knows(t)

SessionInv == Starting /\ Held /\ Opening /\ RunningIsReachable
Inv == TypeOK /\ SessionInv /\ LoopsEnd /\ Conserved /\ Draining
-----------------------------------------------------------------------------
(* Types. *)

LEMMA Constants ==
    /\ Sessions \in Nat /\ Packets \in Nat /\ Calls \in Nat /\ IntakeMax \in Nat \ {0}
    /\ Session = 1 .. Sessions /\ Packet = Session \X (1 .. Packets)
    /\ None = 0 /\ None \notin Threads /\ None \notin Session
BY ThreadsAssumption, BoundsAssumption, IntakeAssumption
DEF Session, Packet, Threads, None

RequestsOK ==
    /\ lock \in Threads \cup {None} /\ engine \in Session \cup {None}
    /\ pc \in [Threads -> Steps] /\ mine \in [Threads -> Session \cup {None}]
    /\ calls \in 0 .. Calls
    /\ joined \in [Threads -> BOOLEAN] /\ drained \in [Threads -> BOOLEAN]
    /\ abandoned \subseteq Session
SessionsOK ==
    /\ opened \in 0 .. Sessions
    /\ runner \in [Session -> {"none", "creating", "live", "done", "failed"}]
    /\ run \in [Session -> BOOLEAN] /\ looping \in [Session -> BOOLEAN]
    /\ calling \in [Session -> Packet \cup {NoPacket}]
    /\ delivered \in [Session -> 0 .. Packets]
PipelineOK ==
    /\ intake \in Seq(Packet) /\ Len(intake) <= IntakeMax
    /\ held \in Packet \cup {NoPacket}
    /\ worker \in BOOLEAN /\ stopWorker \in BOOLEAN /\ accepting \in BOOLEAN
    /\ pool \subseteq Packet /\ processed \subseteq Packet /\ lost \subseteq Packet

LEMMA TypeParts == TypeOK <=> RequestsOK /\ SessionsOK /\ PipelineOK
BY DEF TypeOK, RequestsOK, SessionsOK, PipelineOK

LEMMA Unmoved ==
    /\ RequestsOK /\ UNCHANGED requests => RequestsOK'
    /\ SessionsOK /\ UNCHANGED sessions => SessionsOK'
    /\ PipelineOK /\ UNCHANGED pipeline => PipelineOK'
BY DEF RequestsOK, SessionsOK, PipelineOK, requests, sessions, pipeline

\* Putting a packet into the intake queue, with room made for it or not, and taking one.
LEMMA IntakeTypes ==
    ASSUME intake \in Seq(Packet), Len(intake) <= IntakeMax
    PROVE  /\ Len(intake) \in Nat
           /\ \A x \in Packet : /\ Append(intake, x) \in Seq(Packet)
                                /\ Len(Append(intake, x)) = Len(intake) + 1
           /\ intake # << >> => /\ Len(intake) > 0
                                /\ Head(intake) \in Packet /\ Tail(intake) \in Seq(Packet)
                                /\ Len(Tail(intake)) = Len(intake) - 1
                                /\ \A x \in Packet : /\ Append(Tail(intake), x) \in Seq(Packet)
                                                     /\ Len(Append(Tail(intake), x)) = Len(intake)
BY Constants

LEMMA InitType == Init => TypeOK
<1> SUFFICES ASSUME Init PROVE TypeOK
  OBVIOUS
<1>1. RequestsOK
  BY Constants DEF Init, RequestsOK, Steps
<1>2. SessionsOK
  BY Constants DEF Init, SessionsOK
<1>3. PipelineOK
  <2>1. << >> \in Seq(Packet) /\ Len(<< >>) = 0
    BY EmptySeq
  <2>2. Len(<< >>) <= IntakeMax
    BY <2>1, IntakeAssumption
  <2>3. intake = << >> /\ held = NoPacket /\ pool = {} /\ processed = {} /\ lost = {}
        /\ worker = TRUE /\ stopWorker = FALSE /\ accepting = TRUE
    BY DEF Init
  <2> QED BY <2>1, <2>2, <2>3 DEF PipelineOK
<1> QED BY <1>1, <1>2, <1>3, TypeParts

LEMMA TypeStep == TypeOK /\ Starting /\ [Next]_vars => TypeOK'
<1> SUFFICES ASSUME RequestsOK, SessionsOK, PipelineOK, Starting, [Next]_vars
             PROVE  RequestsOK' /\ SessionsOK' /\ PipelineOK'
  BY DEF TypeOK, RequestsOK, SessionsOK, PipelineOK
<1>1. ASSUME NEW t \in Threads, Call(t) PROVE RequestsOK' /\ SessionsOK' /\ PipelineOK'
  <2>1. RequestsOK'
    BY <1>1, Constants DEF Call, Goto, RequestsOK, Steps
  <2>2. UNCHANGED sessions /\ UNCHANGED pipeline
    BY <1>1 DEF Call, sessions, pipeline
  <2> QED BY <2>1, <2>2, Unmoved
<1>2. ASSUME NEW t \in Threads, StartEnter(t) PROVE RequestsOK' /\ SessionsOK' /\ PipelineOK'
  <2>1. RequestsOK'
    <3>1. opened < Sessions => opened + 1 \in Session
      BY Constants DEF SessionsOK
    <3> QED BY <1>2, <3>1, Constants DEF StartEnter, HeldByStart, Goto, RequestsOK, Steps
  <2>2. SessionsOK'
    BY <1>2, Constants, SMTT(40) DEF StartEnter, HeldByStart, Goto, SessionsOK
  <2>3. UNCHANGED pipeline
    BY <1>2 DEF StartEnter, pipeline
  <2> QED BY <2>1, <2>2, <2>3, Unmoved
<1>3. ASSUME NEW t \in Threads, StartSucceeds(t) PROVE RequestsOK' /\ SessionsOK' /\ PipelineOK'
  <2>1. RequestsOK'
    BY <1>3, Constants DEF StartSucceeds, Release, Goto, RequestsOK, Steps
  <2>2. UNCHANGED sessions /\ UNCHANGED pipeline
    BY <1>3 DEF StartSucceeds, sessions, pipeline
  <2> QED BY <2>1, <2>2, Unmoved
<1>4. ASSUME NEW t \in Threads, StartGivesUp(t) PROVE RequestsOK' /\ SessionsOK' /\ PipelineOK'
  <2>1. RequestsOK'
    <3>1. mine[t] \in Session
      BY <1>4 DEF StartGivesUp, Starting
    <3> QED BY <1>4, <3>1, Constants DEF StartGivesUp, Release, Return, Goto, RequestsOK, Steps
  <2>2. UNCHANGED sessions /\ UNCHANGED pipeline
    BY <1>4 DEF StartGivesUp, sessions, pipeline
  <2> QED BY <2>1, <2>2, Unmoved
<1>5. ASSUME NEW t \in Threads, Started(t) PROVE RequestsOK' /\ SessionsOK' /\ PipelineOK'
  <2>1. RequestsOK'
    BY <1>5, Constants DEF Started, Return, Goto, RequestsOK, Steps
  <2>2. UNCHANGED sessions /\ UNCHANGED pipeline
    BY <1>5 DEF Started, sessions, pipeline
  <2> QED BY <2>1, <2>2, Unmoved
<1>6. ASSUME NEW t \in Threads, StopTakes(t) PROVE RequestsOK' /\ SessionsOK' /\ PipelineOK'
  <2>1. RequestsOK'
    BY <1>6, Constants DEF StopTakes, Goto, RequestsOK, Steps
  <2>2. UNCHANGED sessions /\ UNCHANGED pipeline
    BY <1>6 DEF StopTakes, sessions, pipeline
  <2> QED BY <2>1, <2>2, Unmoved
<1>7. ASSUME NEW t \in Threads, StopSignals(t) PROVE RequestsOK' /\ SessionsOK' /\ PipelineOK'
  <2>1. RequestsOK'
    BY <1>7, Constants DEF StopSignals, Goto, RequestsOK, Steps
  <2>2. SessionsOK'
    BY <1>7, Constants DEF StopSignals, Goto, SessionsOK
  <2>3. UNCHANGED pipeline
    BY <1>7 DEF StopSignals, pipeline
  <2> QED BY <2>1, <2>2, <2>3, Unmoved
<1>8. ASSUME NEW t \in Threads, StopJoins(t) PROVE RequestsOK' /\ SessionsOK' /\ PipelineOK'
  <2>1. RequestsOK'
    BY <1>8, Constants DEF StopJoins, Goto, RequestsOK, Steps
  <2>2. UNCHANGED sessions /\ UNCHANGED pipeline
    BY <1>8 DEF StopJoins, sessions, pipeline
  <2> QED BY <2>1, <2>2, Unmoved
<1>9. ASSUME NEW t \in Threads, DrainIntake(t) PROVE RequestsOK' /\ SessionsOK' /\ PipelineOK'
  <2>1. RequestsOK'
    BY <1>9, Constants DEF DrainIntake, IntakeIdle, Goto, RequestsOK, Steps
  <2>2. UNCHANGED sessions /\ UNCHANGED pipeline
    BY <1>9 DEF DrainIntake, sessions, pipeline
  <2> QED BY <2>1, <2>2, Unmoved
<1>10. ASSUME NEW t \in Threads, DrainPool(t) PROVE RequestsOK' /\ SessionsOK' /\ PipelineOK'
  <2>1. RequestsOK'
    BY <1>10, Constants DEF DrainPool, PoolIdle, Goto, RequestsOK, Steps
  <2>2. UNCHANGED sessions /\ UNCHANGED pipeline
    BY <1>10 DEF DrainPool, sessions, pipeline
  <2> QED BY <2>1, <2>2, Unmoved
<1>11. ASSUME NEW t \in Threads, Stopped(t) PROVE RequestsOK' /\ SessionsOK' /\ PipelineOK'
  <2>1. RequestsOK'
    BY <1>11, Constants DEF Stopped, Return, Goto, RequestsOK, Steps
  <2>2. PipelineOK'
    BY <1>11, Constants DEF Stopped, Return, Goto, PipelineOK
  <2>3. UNCHANGED sessions
    BY <1>11 DEF Stopped, sessions
  <2> QED BY <2>1, <2>2, <2>3, Unmoved
<1>12. ASSUME NEW t \in Threads, ClosePool(t) PROVE RequestsOK' /\ SessionsOK' /\ PipelineOK'
  <2>1. RequestsOK'
    BY <1>12, Constants DEF ClosePool, Goto, RequestsOK, Steps
  <2>2. PipelineOK'
    BY <1>12, Constants DEF ClosePool, Goto, PipelineOK
  <2>3. UNCHANGED sessions
    BY <1>12 DEF ClosePool, sessions
  <2> QED BY <2>1, <2>2, <2>3, Unmoved
<1>13. ASSUME NEW s \in Session, RunnerOpens(s) PROVE RequestsOK' /\ SessionsOK' /\ PipelineOK'
  <2>1. SessionsOK'
    BY <1>13, Constants DEF RunnerOpens, SessionsOK
  <2>2. UNCHANGED requests /\ UNCHANGED pipeline
    BY <1>13 DEF RunnerOpens, requests, pipeline
  <2> QED BY <2>1, <2>2, Unmoved
<1>14. ASSUME NEW s \in Session, RunnerEnds(s) PROVE RequestsOK' /\ SessionsOK' /\ PipelineOK'
  <2>1. SessionsOK'
    BY <1>14, Constants DEF RunnerEnds, SessionsOK
  <2>2. UNCHANGED requests /\ UNCHANGED pipeline
    BY <1>14 DEF RunnerEnds, requests, pipeline
  <2> QED BY <2>1, <2>2, Unmoved
<1>15. ASSUME NEW s \in Session, Callback(s) PROVE RequestsOK' /\ SessionsOK' /\ PipelineOK'
  <2>1. SessionsOK'
    BY <1>15, Constants, SMTT(40) DEF Callback, SessionsOK
  <2>2. UNCHANGED requests /\ UNCHANGED pipeline
    BY <1>15 DEF Callback, requests, pipeline
  <2> QED BY <2>1, <2>2, Unmoved
<1>16. ASSUME NEW s \in Session, CallbackPut(s) PROVE RequestsOK' /\ SessionsOK' /\ PipelineOK'
  <2>1. SessionsOK'
    BY <1>16, Constants DEF CallbackPut, IntakeFull, SessionsOK
  <2>2. PipelineOK'
    <3>1. calling[s] \in Packet
      BY <1>16 DEF CallbackPut, SessionsOK
    <3>2. IntakeFull => intake # << >>
      BY IntakeAssumption, EmptySeq DEF IntakeFull
    <3>3. intake' \in Seq(Packet) /\ Len(intake') <= IntakeMax
      BY <1>16, <3>1, <3>2, IntakeTypes, IntakeAssumption, SMTT(40) DEF CallbackPut, IntakeFull, PipelineOK
    <3>4. lost' \subseteq Packet
      BY <1>16, <3>1, <3>2, IntakeTypes DEF CallbackPut, PipelineOK
    <3> QED BY <1>16, <3>3, <3>4 DEF CallbackPut, PipelineOK
  <2>3. UNCHANGED requests
    BY <1>16 DEF CallbackPut, requests
  <2> QED BY <2>1, <2>2, <2>3, Unmoved
<1>17. ASSUME NEW s \in Session, LoopEnds(s) PROVE RequestsOK' /\ SessionsOK' /\ PipelineOK'
  <2>1. SessionsOK'
    BY <1>17, Constants DEF LoopEnds, SessionsOK
  <2>2. UNCHANGED requests /\ UNCHANGED pipeline
    BY <1>17 DEF LoopEnds, requests, pipeline
  <2> QED BY <2>1, <2>2, Unmoved
<1>18. CASE WorkerGet
  <2>1. PipelineOK'
    <3>1. CASE /\ intake # << >>
               /\ held' = Head(intake) /\ intake' = Tail(intake) /\ UNCHANGED worker
      <4>1. /\ Head(intake) \in Packet /\ Tail(intake) \in Seq(Packet)
            /\ Len(Tail(intake)) = Len(intake) - 1 /\ Len(intake) \in Nat
        BY <3>1, IntakeTypes DEF PipelineOK
      <4>2. Len(Tail(intake)) <= IntakeMax
        BY <4>1, IntakeAssumption DEF PipelineOK
      <4> QED BY <1>18, <3>1, <4>1, <4>2 DEF WorkerGet, PipelineOK
    <3>2. CASE worker' = FALSE /\ UNCHANGED <<held, intake>>
      BY <1>18, <3>2 DEF WorkerGet, PipelineOK
    <3> QED BY <1>18, <3>1, <3>2 DEF WorkerGet
  <2>2. UNCHANGED requests /\ UNCHANGED sessions
    BY <1>18 DEF WorkerGet, requests, sessions
  <2> QED BY <2>1, <2>2, Unmoved
<1>19. CASE WorkerSubmit
  <2>1. PipelineOK'
    BY <1>19, Constants, IntakeTypes DEF WorkerSubmit, PipelineOK
  <2>2. UNCHANGED requests /\ UNCHANGED sessions
    BY <1>19 DEF WorkerSubmit, requests, sessions
  <2> QED BY <2>1, <2>2, Unmoved
<1>20. CASE Process
  <2>1. PipelineOK'
    BY <1>20, Constants, IntakeTypes DEF Process, PipelineOK
  <2>2. UNCHANGED requests /\ UNCHANGED sessions
    BY <1>20 DEF Process, requests, sessions
  <2> QED BY <2>1, <2>2, Unmoved
<1>21. CASE UNCHANGED vars
  BY <1>21, Unmoved DEF vars
<1> QED
  BY <1>1, <1>2, <1>3, <1>4, <1>5, <1>6, <1>7, <1>8, <1>9, <1>10, <1>11, <1>12, <1>13,
     <1>14, <1>15, <1>16, <1>17, <1>18, <1>19, <1>20, <1>21
  DEF Next, CallStep, SessionStep
-----------------------------------------------------------------------------
(* Who holds which session. *)

LEMMA InitSessions == Init => SessionInv
BY Constants DEF Init, SessionInv, Starting, Held, Opening, RunningIsReachable, Doing

\* A thread that is not waiting for a session, nor about to stop one, does something else.
LEMMA Elsewhere ==
    ASSUME TypeOK, SessionInv, NEW t \in Threads, NEW step,
           pc[t] \notin {"startWait", "signal"}, step \notin {"startWait", "signal", "join"},
           Goto(t, step), \A u \in Threads : u # t => mine'[u] = mine[u],
           UNCHANGED <<lock, engine, abandoned, opened, runner, run, looping>>
    PROVE  SessionInv'
<1>1. /\ pc'[t] = step
      /\ \A u \in Threads : u # t => pc'[u] = pc[u] /\ mine'[u] = mine[u]
  BY DEF Goto, TypeOK
<1>2. \A s : /\ Doing("startWait", s) => Doing("startWait", s)'
             /\ Doing("signal", s) => Doing("signal", s)'
  BY <1>1 DEF Doing
<1>3. Starting'
  BY <1>1 DEF SessionInv, Starting
<1>4. Held'
  BY <1>1 DEF SessionInv, Held
<1>5. Opening'
  BY <1>2 DEF SessionInv, Opening
<1>6. RunningIsReachable'
  BY <1>2 DEF SessionInv, RunningIsReachable
<1> QED BY <1>3, <1>4, <1>5, <1>6 DEF SessionInv

LEMMA SessionsAtStartEnter ==
    ASSUME TypeOK, SessionInv, NEW t \in Threads, StartEnter(t)
    PROVE  SessionInv'
<1>1. CASE pc' = [pc EXCEPT ![t] = "started"] /\ UNCHANGED <<lock, mine, opened, runner>>
  BY <1>1, Elsewhere DEF StartEnter, Goto
<1>2. CASE pc' = [pc EXCEPT ![t] = "idle"] /\ UNCHANGED <<lock, mine, opened, runner>>
  BY <1>2, Elsewhere DEF StartEnter, Goto
<1>3. CASE /\ engine = None /\ opened < Sessions
           /\ opened' = opened + 1
           /\ runner' = [runner EXCEPT ![opened + 1] = "creating"]
           /\ mine' = [mine EXCEPT ![t] = opened + 1]
           /\ lock' = HeldByStart(t)
           /\ Goto(t, "startWait")
  <2>1. /\ opened \in 0 .. Sessions /\ opened + 1 \in Session
        /\ runner[opened + 1] = "none" /\ ~run[opened + 1] /\ ~looping[opened + 1]
        /\ opened + 1 \notin abandoned
    BY <1>3, Constants DEF TypeOK, SessionInv, Opening
  <2>2. pc[t] = "start" /\ lock = None /\ UNCHANGED <<engine, abandoned, run, looping>>
    BY DEF StartEnter
  <2>3. \A u \in Threads : pc[u] # "startWait"
    BY <2>2, Constants DEF SessionInv, Starting
  <2>4. /\ pc'[t] = "startWait" /\ mine'[t] = opened + 1 /\ runner'[opened + 1] = "creating"
        /\ \A u \in Threads : u # t => pc'[u] = pc[u] /\ mine'[u] = mine[u]
        /\ \A s \in Session : s # opened + 1 => runner'[s] = runner[s]
    BY <1>3, <2>1 DEF Goto, TypeOK
  <2>5. Starting'
    BY <1>3, <2>1, <2>2, <2>3, <2>4 DEF Starting, HeldByStart
  <2>6. Held'
    BY <1>3, <2>1, <2>2, <2>4 DEF SessionInv, Held, TypeOK
  <2>7. \A s : Doing("signal", s) => Doing("signal", s)'
    BY <2>2, <2>4 DEF Doing
  <2>8. \A s : ~Doing("startWait", s)
    BY <2>3 DEF Doing
  <2>9. \A s : s = opened + 1 => Doing("startWait", s)'
    BY <2>4 DEF Doing
  <2>10. Opening'
    <3>1. \A s \in Session : s > opened' <=> runner'[s] = "none"
      BY <1>3, <2>1, <2>4, Constants DEF SessionInv, Opening
    <3>2. \A s \in abandoned' : s <= opened'
      BY <1>3, <2>1, <2>2, Constants DEF SessionInv, Opening, TypeOK
    <3>3. \A s \in Session : runner'[s] \in {"none", "creating"} => ~run'[s] /\ ~looping'[s]
      BY <2>1, <2>2, <2>4 DEF SessionInv, Opening
    <3>4. \A s \in Session : runner'[s] \in {"creating", "live"} =>
              s \in abandoned' \/ Doing("startWait", s)'
      BY <2>2, <2>4, <2>8, <2>9 DEF SessionInv, Opening
    <3> QED BY <3>1, <3>2, <3>3, <3>4 DEF Opening
  <2>11. RunningIsReachable'
    BY <2>2, <2>7, <2>8 DEF SessionInv, RunningIsReachable
  <2> QED BY <2>5, <2>6, <2>10, <2>11 DEF SessionInv
<1> QED BY <1>1, <1>2, <1>3 DEF StartEnter, Goto

LEMMA SessionsAtStartSucceeds ==
    ASSUME TypeOK, SessionInv, NEW t \in Threads, StartSucceeds(t)
    PROVE  SessionInv'
<1>1. /\ pc[t] = "startWait" /\ runner[mine[t]] = "done" /\ engine' = mine[t]
      /\ Release(t) /\ Goto(t, "started")
      /\ UNCHANGED <<mine, abandoned, opened, runner, run, looping>>
  BY DEF StartSucceeds, sessions
<1>2. /\ lock = t /\ engine = None /\ mine[t] \in Session /\ mine[t] \notin abandoned
      /\ lock' = None /\ \A u \in Threads : u # t => pc[u] # "startWait"
  BY <1>1 DEF SessionInv, Starting, Release
<1>3. pc'[t] = "started" /\ \A u \in Threads : u # t => pc'[u] = pc[u]
  BY <1>1 DEF Goto, TypeOK
<1>4. Starting'
  BY <1>2, <1>3 DEF Starting
<1>5. Held'
  BY <1>1, <1>2, <1>3 DEF SessionInv, Held
<1>6. \A s : Doing("signal", s) => Doing("signal", s)'
  BY <1>1, <1>3 DEF Doing
<1>7. \A s : Doing("startWait", s) => s = mine[t]
  BY <1>2 DEF Doing
<1>8. Opening'
  BY <1>1, <1>7 DEF SessionInv, Opening
<1>9. RunningIsReachable'
  BY <1>1, <1>2, <1>6, <1>7, Constants DEF SessionInv, RunningIsReachable
<1> QED BY <1>4, <1>5, <1>8, <1>9 DEF SessionInv

LEMMA SessionsAtStartGivesUp ==
    ASSUME TypeOK, SessionInv, NEW t \in Threads, StartGivesUp(t)
    PROVE  SessionInv'
<1>1. /\ pc[t] = "startWait" /\ abandoned' = abandoned \cup {mine[t]}
      /\ Release(t) /\ Return(t)
      /\ UNCHANGED <<engine, opened, runner, run, looping>>
  BY DEF StartGivesUp, sessions
<1>2. /\ lock = t /\ engine = None /\ mine[t] \in Session /\ mine[t] <= opened
      /\ lock' = None /\ \A u \in Threads : u # t => pc[u] # "startWait"
  BY <1>1 DEF SessionInv, Starting, Release
<1>3. pc'[t] = "idle" /\ \A u \in Threads : u # t => pc'[u] = pc[u] /\ mine'[u] = mine[u]
  BY <1>1 DEF Return, Goto, TypeOK
<1>4. Starting'
  BY <1>2, <1>3 DEF Starting
<1>5. Held'
  BY <1>1, <1>3 DEF SessionInv, Held
<1>6. \A s : Doing("signal", s) => Doing("signal", s)'
  BY <1>1, <1>3 DEF Doing
<1>7. \A s : Doing("startWait", s) => s = mine[t]
  BY <1>2 DEF Doing
<1>8. Opening'
  BY <1>1, <1>2, <1>7 DEF SessionInv, Opening
<1>9. RunningIsReachable'
  BY <1>1, <1>2, <1>6, <1>7, Constants DEF SessionInv, RunningIsReachable
<1> QED BY <1>4, <1>5, <1>8, <1>9 DEF SessionInv

LEMMA SessionsAtStopTakes ==
    ASSUME TypeOK, SessionInv, NEW t \in Threads, StopTakes(t)
    PROVE  SessionInv'
<1>1. CASE engine = None
  <2>1. Goto(t, "drainIntake") /\ UNCHANGED <<lock, engine, abandoned, opened, runner, run, looping>>
    BY <1>1 DEF StopTakes, sessions
  <2>2. pc[t] = "stop" /\ \A u \in Threads : u # t => mine'[u] = mine[u]
    BY DEF StopTakes, TypeOK
  <2> QED BY <2>1, <2>2, Elsewhere
<1>2. CASE engine # None
  <2>1. /\ pc[t] = "stop" /\ lock = None /\ engine' = None /\ Goto(t, "signal")
        /\ UNCHANGED <<lock, abandoned, opened, runner, run, looping>>
    BY <1>2 DEF StopTakes, sessions
  <2>2. /\ pc'[t] = "signal" /\ mine'[t] = engine
        /\ \A u \in Threads : u # t => pc'[u] = pc[u] /\ mine'[u] = mine[u]
    BY <2>1 DEF StopTakes, Goto, TypeOK
  <2>3. engine \in Session /\ runner[engine] = "done" /\ None \notin abandoned
    BY <1>2, Constants DEF TypeOK, SessionInv, Held
  <2>4. \A u \in Threads : pc[u] # "startWait"
    BY <2>1, Constants DEF SessionInv, Starting
  <2>5. Starting'
    BY <2>1, <2>2, <2>4 DEF Starting
  <2>6. Held'
    BY <2>1, <2>2, <2>3 DEF SessionInv, Held
  <2>7. \A s : /\ Doing("signal", s) => Doing("signal", s)'
               /\ ~Doing("startWait", s)
    BY <2>1, <2>2, <2>4 DEF Doing
  <2>8. \A s : s = engine => Doing("signal", s)'
    BY <2>2 DEF Doing
  <2>9. Opening'
    BY <2>1, <2>7 DEF SessionInv, Opening
  <2>10. RunningIsReachable'
    BY <2>1, <2>3, <2>7, <2>8 DEF SessionInv, RunningIsReachable
  <2> QED BY <2>5, <2>6, <2>9, <2>10 DEF SessionInv
<1> QED BY <1>1, <1>2

LEMMA SessionsAtStopSignals ==
    ASSUME TypeOK, SessionInv, NEW t \in Threads, StopSignals(t)
    PROVE  SessionInv'
<1>1. /\ pc[t] = "signal" /\ run' = [run EXCEPT ![mine[t]] = FALSE] /\ Goto(t, "join")
      /\ UNCHANGED <<lock, engine, mine, abandoned, opened, runner, looping>>
  BY DEF StopSignals
<1>2. pc'[t] = "join" /\ \A u \in Threads : u # t => pc'[u] = pc[u]
  BY <1>1 DEF Goto, TypeOK
<1>3. mine[t] \in Session /\ runner[mine[t]] = "done"
  BY <1>1 DEF SessionInv, Held
<1>4. ~run'[mine[t]] /\ \A s \in Session : s # mine[t] => run'[s] = run[s]
  BY <1>1, <1>3 DEF TypeOK
<1>5. Starting'
  BY <1>1, <1>2 DEF SessionInv, Starting
<1>6. Held'
  BY <1>1, <1>2, <1>3 DEF SessionInv, Held
<1>7. \A s : /\ Doing("startWait", s) => Doing("startWait", s)'
             /\ Doing("signal", s) => s = mine[t] \/ Doing("signal", s)'
  BY <1>1, <1>2 DEF Doing
<1>8. Opening'
  BY <1>1, <1>4, <1>7 DEF SessionInv, Opening
<1>9. RunningIsReachable'
  BY <1>1, <1>4, <1>7 DEF SessionInv, RunningIsReachable
<1> QED BY <1>5, <1>6, <1>8, <1>9 DEF SessionInv

\* What the threads of the capture library do to session s.
LEMMA SessionsAtRunner ==
    ASSUME TypeOK, SessionInv, NEW s \in Session, RunnerOpens(s) \/ RunnerEnds(s) \/ LoopEnds(s)
    PROVE  SessionInv'
<1>1. /\ UNCHANGED <<lock, engine, pc, mine, abandoned, opened>>
      /\ \A u \in Session : u # s =>
             runner'[u] = runner[u] /\ run'[u] = run[u] /\ looping'[u] = looping[u]
  BY DEF RunnerOpens, RunnerEnds, LoopEnds, requests, TypeOK
<1>2. \/ /\ runner[s] = "creating"
         /\ runner'[s] = "live" \/ (runner'[s] = "failed" /\ UNCHANGED <<run, looping>>)
      \/ /\ runner[s] = "live" /\ runner'[s] \in {"done", "failed"} /\ UNCHANGED <<run, looping>>
      \/ /\ UNCHANGED runner /\ ~run'[s] /\ ~looping'[s]
  BY DEF RunnerOpens, RunnerEnds, LoopEnds, TypeOK
<1>3. \A u, step : Doing(step, u)' <=> Doing(step, u)
  BY <1>1 DEF Doing
<1>4. Starting'
  BY <1>1, <1>2 DEF SessionInv, Starting
<1>5. Held'
  BY <1>1, <1>2 DEF SessionInv, Held, TypeOK
<1>6. Opening'
  BY <1>1, <1>2, <1>3 DEF SessionInv, Opening
<1>7. RunningIsReachable'
  BY <1>1, <1>2, <1>3 DEF SessionInv, RunningIsReachable, Opening
<1> QED BY <1>4, <1>5, <1>6, <1>7 DEF SessionInv

\* No other step changes who holds a session.
LEMMA SessionsElsewhere ==
    ASSUME SessionInv, UNCHANGED <<lock, engine, pc, mine, abandoned, opened, runner, run, looping>>
    PROVE  SessionInv'
BY DEF SessionInv, Starting, Held, Opening, RunningIsReachable, Doing

LEMMA SessionsStep == TypeOK /\ SessionInv /\ [Next]_vars => SessionInv'
<1> SUFFICES ASSUME TypeOK, SessionInv, [Next]_vars PROVE SessionInv'
  OBVIOUS
<1>1. ASSUME NEW t \in Threads, Call(t) PROVE SessionInv'
  BY <1>1, Elsewhere DEF Call, Goto, sessions
<1>2. ASSUME NEW t \in Threads, Started(t) PROVE SessionInv'
  BY <1>2, Elsewhere DEF Started, Return, TypeOK, sessions
<1>3. ASSUME NEW t \in Threads, StopJoins(t) PROVE SessionInv'
  BY <1>3, Elsewhere DEF StopJoins, sessions
<1>4. ASSUME NEW t \in Threads, DrainIntake(t) \/ DrainPool(t) \/ ClosePool(t) PROVE SessionInv'
  BY <1>4, Elsewhere DEF DrainIntake, DrainPool, ClosePool, sessions
<1>5. ASSUME NEW t \in Threads, Stopped(t) PROVE SessionInv'
  BY <1>5, Elsewhere DEF Stopped, Return, TypeOK, sessions
<1>6. ASSUME NEW s \in Session, Callback(s) \/ CallbackPut(s) PROVE SessionInv'
  BY <1>6, SessionsElsewhere DEF Callback, CallbackPut, requests
<1>7. CASE WorkerGet \/ WorkerSubmit \/ Process
  BY <1>7, SessionsElsewhere DEF WorkerGet, WorkerSubmit, Process, requests, sessions
<1>8. CASE UNCHANGED vars
  BY <1>8, SessionsElsewhere DEF vars, requests, sessions
<1> QED
  BY <1>1, <1>2, <1>3, <1>4, <1>5, <1>6, <1>7, <1>8, SessionsAtStartEnter,
     SessionsAtStartSucceeds, SessionsAtStartGivesUp, SessionsAtStopTakes, SessionsAtStopSignals,
     SessionsAtRunner
  DEF Next, CallStep, SessionStep
-----------------------------------------------------------------------------
(* Where packets can be. *)

LEMMA NoPacketIsOne == \A s, i : <<s, i>> # NoPacket
BY DEF NoPacket

LEMMA QueuedAfterAppend ==
    ASSUME NEW q \in Seq(Packet), NEW x \in Packet
    PROVE  /\ Append(q, x)[Len(q) + 1] = x /\ Len(q) + 1 \in 1 .. Len(Append(q, x))
           /\ \A n \in 1 .. Len(q) : n \in 1 .. Len(Append(q, x)) /\ Append(q, x)[n] = q[n]
BY AppendProperties, LenProperties

LEMMA QueuedAfterTail ==
    ASSUME NEW q \in Seq(Packet), q # << >>, NEW n \in 1 .. Len(q)
    PROVE  q[n] = Head(q) \/ \E m \in 1 .. Len(Tail(q)) : Tail(q)[m] = q[n]
<1>1. CASE n = 1
  BY <1>1, HeadTailProperties
<1>2. CASE n # 1
  <2>1. n - 1 \in 1 .. Len(Tail(q)) /\ Tail(q)[n - 1] = q[n]
    BY <1>2, HeadTailProperties, LenProperties
  <2> QED BY <2>1
<1> QED BY <1>1, <1>2

LEMMA LoopsEndStep == TypeOK /\ LoopsEnd /\ [Next]_vars => LoopsEnd'
<1> SUFFICES ASSUME TypeOK, LoopsEnd, [Next]_vars, NEW s \in Session, ~looping'[s]
             PROVE  calling'[s] = NoPacket
  BY DEF LoopsEnd
<1>1. CASE UNCHANGED <<looping, calling>>
  BY <1>1 DEF LoopsEnd
<1>2. ASSUME NEW u \in Session, SessionStep(u) PROVE calling'[s] = NoPacket
  BY <1>2 DEF SessionStep, RunnerOpens, RunnerEnds, Callback, CallbackPut, LoopEnds, LoopsEnd, TypeOK
<1>3. ASSUME NEW t \in Threads, Call(t) \/ CallStep(t) PROVE UNCHANGED <<looping, calling>>
  BY <1>3
  DEF Call, CallStep, StartEnter, StartSucceeds, StartGivesUp, Started, StopTakes, StopSignals,
      StopJoins, DrainIntake, DrainPool, Stopped, ClosePool, sessions
<1>4. CASE WorkerGet \/ WorkerSubmit \/ Process \/ UNCHANGED vars
  BY <1>1, <1>4 DEF WorkerGet, WorkerSubmit, Process, vars, sessions
<1> QED BY <1>1, <1>2, <1>3, <1>4 DEF Next

\* What a step of the service's threads leaves of the pipeline.
LEMMA RequestsLeave ==
    ASSUME NEW t \in Threads, Call(t) \/ CallStep(t)
    PROVE  UNCHANGED <<intake, held, pool, processed, lost, calling, delivered>>
BY DEF Call, CallStep, StartEnter, StartSucceeds, StartGivesUp, Started, StopTakes, StopSignals,
       StopJoins, DrainIntake, DrainPool, Stopped, ClosePool, sessions, pipeline

\* Packets that are in the pool, processed or lost stay so, and so do the last two.
LEMMA Onwards ==
    ASSUME [Next]_vars
    PROVE  /\ \A x : InPool(x) => InPool(x)'
           /\ processed \cup lost \subseteq processed' \cup lost'
<1>1. CASE UNCHANGED <<pool, processed, lost>>
  BY <1>1 DEF InPool
<1>2. ASSUME NEW s \in Session, SessionStep(s)
      PROVE  UNCHANGED <<pool, processed>> /\ lost \subseteq lost'
  BY <1>2
  DEF SessionStep, RunnerOpens, RunnerEnds, Callback, CallbackPut, LoopEnds, pipeline
<1>3. CASE WorkerSubmit
  BY <1>3 DEF WorkerSubmit, InPool
<1>4. CASE Process
  BY <1>4 DEF Process, InPool
<1>5. CASE WorkerGet \/ UNCHANGED vars
  BY <1>1, <1>5 DEF WorkerGet, vars, pipeline
<1> QED BY <1>1, <1>2, <1>3, <1>4, <1>5, RequestsLeave DEF Next, InPool

LEMMA ConservedStep == TypeOK /\ Conserved /\ [Next]_vars => Conserved'
<1> SUFFICES ASSUME TypeOK, Conserved, [Next]_vars PROVE Conserved'
  OBVIOUS
<1>1. \A x : InPool(x) => InPool(x)'
  BY Onwards
<1>2. ASSUME UNCHANGED <<intake, held, pool, processed, lost, calling, delivered>> PROVE Conserved'
  BY <1>2 DEF Conserved, Queued, InPool
<1>3. ASSUME NEW s \in Session, Callback(s) PROVE Conserved'
  <2>1. /\ calling[s] = NoPacket /\ calling'[s] = <<s, delivered[s] + 1>>
        /\ delivered'[s] = delivered[s] + 1 /\ delivered[s] \in Nat
        /\ \A u \in Session : u # s => calling'[u] = calling[u] /\ delivered'[u] = delivered[u]
        /\ UNCHANGED <<intake, held, pool, processed, lost>>
    BY <1>3, Constants DEF Callback, TypeOK, pipeline
  <2>2. ASSUME NEW u \in Session, NEW i \in 1 .. delivered'[u]
        PROVE  calling'[u] = <<u, i>> \/ Queued(<<u, i>>)' \/ held' = <<u, i>> \/ InPool(<<u, i>>)'
    <3>1. CASE u = s /\ i = delivered[s] + 1
      BY <2>1, <3>1
    <3>2. CASE ~(u = s /\ i = delivered[s] + 1)
      <4>1. i \in 1 .. delivered[u] /\ (u = s \/ calling'[u] = calling[u])
        BY <2>1, <2>2, <3>2
      <4>2. calling[u] = <<u, i>> \/ Queued(<<u, i>>) \/ held = <<u, i>> \/ InPool(<<u, i>>)
        BY <4>1 DEF Conserved
      <4>3. Queued(<<u, i>>) => Queued(<<u, i>>)'
        BY <2>1 DEF Queued
      <4> QED BY <1>1, <2>1, <4>1, <4>2, <4>3, NoPacketIsOne
    <3> QED BY <3>1, <3>2
  <2> QED BY <2>2 DEF Conserved
<1>4. ASSUME NEW s \in Session, CallbackPut(s) PROVE Conserved'
  <2> PICK p : p = calling[s]
    OBVIOUS
  <2>1. /\ p \in Packet /\ calling'[s] = NoPacket
        /\ \A u \in Session : u # s => calling'[u] = calling[u]
        /\ UNCHANGED <<held, pool, processed, delivered>>
        /\ intake \in Seq(Packet)
    BY <1>4 DEF CallbackPut, TypeOK, requests
  <2>2. IntakeFull => intake # << >>
    BY <2>1, IntakeAssumption, EmptySeq DEF IntakeFull
  <2>3. /\ Queued(p)' \/ p \in lost'
        /\ \A x : Queued(x) => Queued(x)' \/ x \in lost'
    <3>1. CASE intake' = Append(intake, p)
      BY <2>1, <3>1, QueuedAfterAppend DEF Queued
    <3>2. CASE lost' = lost \cup {p} /\ UNCHANGED intake
      BY <3>2 DEF Queued
    <3>3. CASE /\ IntakeFull /\ intake' = Append(Tail(intake), p)
               /\ lost' = lost \cup {Head(intake)}
      <4>1. intake # << >> /\ Tail(intake) \in Seq(Packet)
        BY <2>1, <2>2, <3>3, HeadTailProperties
      <4>2. Queued(p)'
        BY <2>1, <3>3, <4>1, QueuedAfterAppend DEF Queued
      <4>3. \A n \in 1 .. Len(Tail(intake)) : \A x : x = Tail(intake)[n] => Queued(x)'
        BY <2>1, <3>3, <4>1, QueuedAfterAppend DEF Queued
      <4>4. \A x : Queued(x) => Queued(x)' \/ x \in lost'
        <5>1. \A n \in 1 .. Len(intake) :
                  intake[n] = Head(intake) \/ \E m \in 1 .. Len(Tail(intake)) : Tail(intake)[m] = intake[n]
          BY <2>1, <4>1, QueuedAfterTail
        <5>2. \A x : Queued(x) => x = Head(intake) \/ Queued(x)'
          BY <4>3, <5>1 DEF Queued
        <5> QED BY <3>3, <5>2
      <4> QED BY <4>2, <4>4
    <3> QED BY <1>4, <3>1, <3>2, <3>3 DEF CallbackPut
  <2>4. ASSUME NEW u \in Session, NEW i \in 1 .. delivered'[u]
        PROVE  calling'[u] = <<u, i>> \/ Queued(<<u, i>>)' \/ held' = <<u, i>> \/ InPool(<<u, i>>)'
    <3>1. calling[u] = <<u, i>> \/ Queued(<<u, i>>) \/ held = <<u, i>> \/ InPool(<<u, i>>)
      BY <2>1, <2>4 DEF Conserved
    <3> QED BY <1>1, <2>1, <2>3, <3>1 DEF InPool
  <2> QED BY <2>4 DEF Conserved
<1>5. CASE WorkerGet
  <2>1. /\ held = NoPacket /\ intake \in Seq(Packet)
        /\ UNCHANGED <<calling, delivered, pool, processed, lost>>
    BY <1>5 DEF WorkerGet, TypeOK, sessions
  <2>2. CASE intake # << >> /\ held' = Head(intake) /\ intake' = Tail(intake)
    <3>1. \A x : Queued(x) => x = held' \/ Queued(x)'
      BY <2>1, <2>2, QueuedAfterTail DEF Queued
    <3> QED BY <1>1, <2>1, <3>1, NoPacketIsOne DEF Conserved
  <2>3. CASE UNCHANGED <<held, intake>>
    BY <1>2, <2>1, <2>3
  <2> QED BY <1>5, <2>2, <2>3 DEF WorkerGet
<1>6. CASE WorkerSubmit
  <2>1. UNCHANGED <<calling, delivered, intake>> /\ (held \in pool' \/ held \in lost')
    BY <1>6 DEF WorkerSubmit, sessions
  <2>2. \A x : Queued(x)' <=> Queued(x)
    BY <2>1 DEF Queued
  <2> QED BY <1>1, <2>1, <2>2 DEF Conserved, InPool
<1>7. CASE Process
  <2>1. UNCHANGED <<calling, delivered, intake, held>>
    BY <1>7 DEF Process, sessions
  <2>2. \A x : Queued(x)' <=> Queued(x)
    BY <2>1 DEF Queued
  <2> QED BY <1>1, <2>1, <2>2 DEF Conserved
<1>8. ASSUME NEW s \in Session, RunnerOpens(s) \/ RunnerEnds(s) \/ LoopEnds(s) PROVE Conserved'
  BY <1>2, <1>8 DEF RunnerOpens, RunnerEnds, LoopEnds, pipeline
<1>9. CASE UNCHANGED vars
  BY <1>2, <1>9 DEF vars, sessions, pipeline
<1>10. ASSUME NEW t \in Threads, Call(t) \/ CallStep(t) PROVE Conserved'
  BY <1>2, <1>10, RequestsLeave
<1> QED BY <1>3, <1>4, <1>5, <1>6, <1>7, <1>8, <1>9, <1>10 DEF Next, SessionStep

-----------------------------------------------------------------------------
(* What stop() knows. *)

\* A session that was opened completely and whose loop has ended delivers nothing more.
LEMMA Frozen ==
    ASSUME TypeOK, Opening, [Next]_vars, NEW s \in Session, runner[s] = "done", ~looping[s]
    PROVE  runner'[s] = "done" /\ ~looping'[s] /\ delivered'[s] = delivered[s]
<1>1. ASSUME NEW u \in Session, SessionStep(u)
      PROVE  runner'[s] = "done" /\ ~looping'[s] /\ delivered'[s] = delivered[s]
  BY <1>1 DEF SessionStep, RunnerOpens, RunnerEnds, Callback, CallbackPut, LoopEnds, TypeOK
<1>2. ASSUME NEW t \in Threads, StartEnter(t)
      PROVE  runner'[s] = "done" /\ ~looping'[s] /\ delivered'[s] = delivered[s]
  <2>1. s # opened + 1
    BY Constants DEF Opening, TypeOK
  <2> QED BY <1>2, <2>1 DEF StartEnter, TypeOK
<1>3. CASE UNCHANGED <<runner, looping, delivered>>
  BY <1>3
<1>4. ASSUME NEW t \in Threads, Call(t) \/ CallStep(t), ~StartEnter(t)
      PROVE  UNCHANGED <<runner, looping, delivered>>
  BY <1>4
  DEF Call, CallStep, StartSucceeds, StartGivesUp, Started, StopTakes, StopSignals,
      StopJoins, DrainIntake, DrainPool, Stopped, ClosePool, sessions
<1>5. CASE WorkerGet \/ WorkerSubmit \/ Process \/ UNCHANGED vars
  BY <1>3, <1>5 DEF WorkerGet, WorkerSubmit, Process, vars, sessions
<1> QED BY <1>1, <1>2, <1>3, <1>4, <1>5 DEF Next

\* What a thread knows stays true while others act.
LEMMA KnowsKept ==
    ASSUME TypeOK, Opening, [Next]_vars, NEW t \in Threads, Knows(t),
           pc'[t] = pc[t], mine'[t] = mine[t], joined'[t] = joined[t], drained'[t] = drained[t]
    PROVE  Knows(t)'
<1>1. CASE ~(Stopping(t) /\ joined[t])
  BY <1>1 DEF Knows, Stopping
<1>2. CASE Stopping(t) /\ joined[t]
  <2> PICK s : s = mine[t]
    OBVIOUS
  <2>1. s \in Session /\ runner[s] = "done" /\ ~looping[s]
    BY <1>2 DEF Knows, Stopping, TypeOK
  <2>2. runner'[s] = "done" /\ ~looping'[s] /\ delivered'[s] = delivered[s]
    BY <2>1, Frozen
  <2>3. pc[t] = "drainPool" /\ drained[t] => \A i \in 1 .. delivered[s] : InPool(<<s, i>>)
    BY <1>2 DEF Knows
  <2>4. pc[t] = "stopped" /\ drained[t] => \A i \in 1 .. delivered[s] : <<s, i>> \in processed \cup lost
    BY <1>2 DEF Knows
  <2>5. /\ \A x : InPool(x) => InPool(x)'
        /\ processed \cup lost \subseteq processed' \cup lost'
    BY Onwards
  <2>6. pc'[t] = "drainPool" /\ drained'[t] => \A i \in 1 .. delivered'[s] : InPool(<<s, i>>)'
    BY <2>2, <2>3, <2>5
  <2>7. pc'[t] = "stopped" /\ drained'[t] => \A i \in 1 .. delivered'[s] : <<s, i>> \in processed' \cup lost'
    BY <2>2, <2>4, <2>5
  <2>8. mine'[t] = s
    OBVIOUS
  <2> QED BY <2>2, <2>6, <2>7, <2>8 DEF Knows
<1> QED BY <1>1, <1>2

\* What the acting thread knows.
LEMMA KnowsAtOthers ==
    ASSUME TypeOK, NEW t \in Threads, Call(t) \/ CallStep(t),
           ~StopJoins(t), ~DrainIntake(t), ~DrainPool(t)
    PROVE  ~Stopping(t)'
<1>1. CASE StopTakes(t)
  BY <1>1 DEF StopTakes, Goto, Stopping, TypeOK
<1>2. CASE ~StopTakes(t)
  BY <1>2
  DEF Call, CallStep, StartEnter, StartSucceeds, StartGivesUp, Started, StopSignals,
      Stopped, ClosePool, Goto, Return, Stopping, TypeOK
<1> QED BY <1>1, <1>2

LEMMA KnowsAtStopJoins ==
    ASSUME TypeOK, Held, NEW t \in Threads, StopJoins(t)
    PROVE  Knows(t)'
<1>1. pc'[t] = "drainIntake" /\ mine' = mine /\ joined'[t] = ~looping[mine[t]]
      /\ UNCHANGED <<runner, looping>>
  BY DEF StopJoins, Goto, sessions, TypeOK
<1>2. runner[mine[t]] = "done"
  BY DEF StopJoins, Held
<1> QED BY <1>1, <1>2 DEF Knows

LEMMA KnowsAtDrainIntake ==
    ASSUME TypeOK, LoopsEnd, Conserved, NEW t \in Threads, Knows(t), DrainIntake(t)
    PROVE  Knows(t)'
<1> PICK s : s = mine[t]
  OBVIOUS
<1>1. /\ pc[t] = "drainIntake" /\ pc'[t] = "drainPool" /\ mine'[t] = s
      /\ joined'[t] = joined[t] /\ drained'[t] = IntakeIdle
      /\ UNCHANGED <<runner, looping, calling, delivered, intake, held, pool, processed, lost>>
  BY DEF DrainIntake, Goto, sessions, pipeline, TypeOK
<1>2. CASE s # None /\ joined[t]
  <2>1. s \in Session /\ runner[s] = "done" /\ ~looping[s]
    BY <1>1, <1>2 DEF Knows, Stopping, TypeOK
  <2>2. calling[s] = NoPacket
    BY <2>1 DEF LoopsEnd
  <2>3. IntakeIdle => held = NoPacket /\ \A x : ~Queued(x)
    <3>1. intake = << >> => Len(intake) = 0
      BY EmptySeq
    <3> QED BY <3>1 DEF IntakeIdle, IntakeEmpty, Queued
  <2>4. IntakeIdle => \A i \in 1 .. delivered[s] : InPool(<<s, i>>)
    BY <2>1, <2>2, <2>3, NoPacketIsOne DEF Conserved
  <2>5. \A x : InPool(x) => InPool(x)'
    BY <1>1 DEF InPool
  <2>6. drained'[t] => \A i \in 1 .. delivered'[s] : InPool(<<s, i>>)'
    BY <1>1, <2>4, <2>5
  <2>7. runner'[s] = "done" /\ ~looping'[s]
    BY <1>1, <2>1
  <2> QED BY <1>1, <2>6, <2>7 DEF Knows
<1>3. CASE ~(s # None /\ joined[t])
  BY <1>1, <1>3 DEF Knows, Stopping
<1> QED BY <1>2, <1>3

LEMMA KnowsAtDrainPool ==
    ASSUME TypeOK, NEW t \in Threads, Knows(t), DrainPool(t)
    PROVE  Knows(t)'
<1> PICK s : s = mine[t]
  OBVIOUS
<1>1. /\ pc[t] = "drainPool" /\ pc'[t] = "stopped" /\ mine'[t] = s
      /\ joined'[t] = joined[t] /\ (drained'[t] => drained[t] /\ PoolIdle)
      /\ UNCHANGED <<runner, looping, delivered, processed, lost>>
  BY DEF DrainPool, Goto, sessions, pipeline, TypeOK
<1>2. CASE s # None /\ joined[t]
  <2>1. /\ runner[s] = "done" /\ ~looping[s]
        /\ drained[t] => \A i \in 1 .. delivered[s] : InPool(<<s, i>>)
    BY <1>1, <1>2 DEF Knows, Stopping
  <2>2. PoolIdle => \A x : InPool(x) => x \in processed \cup lost
    BY DEF PoolIdle, InPool
  <2>3. drained'[t] => \A i \in 1 .. delivered'[s] : <<s, i>> \in processed' \cup lost'
    BY <1>1, <2>1, <2>2
  <2> QED BY <1>1, <2>1, <2>3 DEF Knows
<1>3. CASE ~(s # None /\ joined[t])
  BY <1>1, <1>3 DEF Knows, Stopping
<1> QED BY <1>2, <1>3

LEMMA DrainingStep == Inv /\ [Next]_vars => Draining'
<1> SUFFICES ASSUME Inv, [Next]_vars, NEW t \in Threads PROVE Knows(t)'
  BY DEF Draining
<1>1. TypeOK /\ Held /\ Opening /\ LoopsEnd /\ Conserved /\ Knows(t)
  BY DEF Inv, SessionInv, Draining
<1>2. CASE pc'[t] = pc[t] /\ mine'[t] = mine[t] /\ joined'[t] = joined[t] /\ drained'[t] = drained[t]
  BY <1>1, <1>2, KnowsKept
<1>3. CASE Call(t) \/ CallStep(t)
  BY <1>1, <1>3, KnowsAtOthers, KnowsAtStopJoins, KnowsAtDrainIntake, KnowsAtDrainPool DEF Knows
<1>4. ASSUME NEW u \in Threads, Call(u) \/ CallStep(u), u # t
      PROVE  pc'[t] = pc[t] /\ mine'[t] = mine[t] /\ joined'[t] = joined[t] /\ drained'[t] = drained[t]
  BY <1>1, <1>4
  DEF Call, CallStep, StartEnter, StartSucceeds, StartGivesUp, Started, StopTakes, StopSignals,
      StopJoins, DrainIntake, DrainPool, Stopped, ClosePool, Goto, Return, TypeOK
<1>5. ASSUME NEW s \in Session, SessionStep(s) PROVE UNCHANGED <<pc, mine, joined, drained>>
  BY <1>5
  DEF SessionStep, RunnerOpens, RunnerEnds, Callback, CallbackPut, LoopEnds, requests
<1>6. CASE WorkerGet \/ WorkerSubmit \/ Process \/ UNCHANGED vars
  BY <1>2, <1>6 DEF WorkerGet, WorkerSubmit, Process, vars, requests
<1> QED BY <1>2, <1>3, <1>4, <1>5, <1>6 DEF Next
-----------------------------------------------------------------------------

LEMMA InitInv == Init => Inv
<1> SUFFICES ASSUME Init PROVE LoopsEnd /\ Conserved /\ Draining
  BY InitType, InitSessions DEF Inv
<1>1. LoopsEnd
  BY DEF Init, LoopsEnd
<1>2. Conserved
  BY DEF Init, Conserved
<1>3. Draining
  BY DEF Init, Draining, Knows, Stopping
<1> QED BY <1>1, <1>2, <1>3

LEMMA StepInv == Inv /\ [Next]_vars => Inv'
BY TypeStep, SessionsStep, LoopsEndStep, ConservedStep, DrainingStep DEF Inv, SessionInv

\* However many requests start and stop captures at a time, and however long the capture
\* library hangs: a session that runs is held by the service, by a request, or was given
\* up by the start() that told its caller so; and none that was given up is ever held.
THEOREM SessionsTracked == Spec => []SessionsAccounted
<1>1. Inv => SessionsAccounted
  BY DEF Inv, SessionInv, SessionsAccounted
<1> QED BY <1>1, InitInv, StepInv, PTL DEF Spec

\* However many packets are on their way and whatever the limits: when stop() saw its
\* sniff loop end and both stages drained, its session's packets are all processed, or
\* counted as lost.
THEOREM StopIsComplete == Spec => []StopDrains
<1>1. Inv => StopDrains
  BY DEF Inv, Draining, Knows, Stopping, StopDrains
<1> QED BY <1>1, InitInv, StepInv, PTL DEF Spec

-----------------------------------------------------------------------------
(* The live ring *)

\* What a record of the live ring says.
Contents == [packet : Nat, era : Nat, count : Nat]
Shown == [time : Int, content : Contents]

\* What the ring holds, within its capacities, and its counters.
RingTyped ==
    /\ ring \in [Categories -> Seq(Shown)]
    /\ evicted \in [Categories -> Nat] /\ cleared \in [Categories -> Nat] /\ added \in Nat
    /\ \A c \in Categories : Len(ring[c]) <= Capacity[c]

\* r is the end of s.
Ends(r, s) ==
    /\ Len(r) \in 0 .. Len(s)
    /\ \A k \in DOMAIN r : k + (Len(s) - Len(r)) \in DOMAIN s /\ r[k] = s[k + (Len(s) - Len(r))]

\* What has expired is at the beginning.
LEMMA PrunedIs ==
    ASSUME NEW S, NEW s \in Seq(S)
    PROVE  Pruned(s) \in Seq(S) /\ Ends(Pruned(s), s)
<1> DEFINE alive == {k \in DOMAIN s : ~Expired(s[k])}
<1>1. DOMAIN s = 1 .. Len(s) /\ Len(s) \in Nat /\ \A k \in 1 .. Len(s) : s[k] \in S
  BY LenProperties
<1>2. CASE alive = {}
  <2>1. Pruned(s) = << >>
    BY <1>2 DEF Pruned
  <2> QED
    BY <1>1, <2>1 DEF Ends
<1>3. CASE alive # {}
  <2>1. PICK m \in alive : m = CHOOSE k \in alive : \A j \in alive : k <= j
    <3>1. alive \subseteq Nat
      BY <1>1
    <3> HIDE DEF alive
    <3>2. \E k \in alive : \A j \in alive : k <= j
      BY <1>3, <3>1, Least
    <3> QED
      BY <3>2
  <2>2. Pruned(s) = SubSeq(s, m, Len(s))
    BY <1>3, <2>1 DEF Pruned
  <2>3. m \in 1 .. Len(s)
    BY <1>1
  <2> DEFINE r == SubSeq(s, m, Len(s))
  <2>4. /\ r \in Seq(S) /\ Len(r) = Len(s) - m + 1 /\ DOMAIN r = 1 .. Len(r)
        /\ \A k \in 1 .. Len(s) - m + 1 : r[k] = s[k + m - 1]
    BY <1>1, <2>3
  <2>5. Ends(r, s)
    BY <1>1, <2>3, <2>4 DEF Ends
  <2> QED
    BY <2>2, <2>4, <2>5
<1> QED
  BY <1>2, <1>3

\* The end of an end is an end; without its first element a sequence is its own end.
LEMMA EndsEnd ==
    ASSUME NEW S, NEW r \in Seq(S), NEW s \in Seq(S), NEW t \in Seq(S), Ends(r, s), Ends(s, t)
    PROVE  Ends(r, t)
<1>1. /\ Len(r) \in Nat /\ Len(s) \in Nat /\ Len(t) \in Nat
      /\ DOMAIN r = 1 .. Len(r) /\ DOMAIN s = 1 .. Len(s) /\ DOMAIN t = 1 .. Len(t)
  BY LenProperties
<1>2. ASSUME NEW k \in DOMAIN r
      PROVE  k + (Len(t) - Len(r)) \in DOMAIN t /\ r[k] = t[k + (Len(t) - Len(r))]
  <2>1. PICK n \in DOMAIN s : n = k + (Len(s) - Len(r)) /\ r[k] = s[n]
    BY DEF Ends
  <2>2. n + (Len(t) - Len(s)) \in DOMAIN t /\ s[n] = t[n + (Len(t) - Len(s))]
    BY DEF Ends
  <2>3. n + (Len(t) - Len(s)) = k + (Len(t) - Len(r))
    BY <1>1, <2>1
  <2> QED
    BY <2>1, <2>2, <2>3
<1> QED
  BY <1>1, <1>2 DEF Ends

LEMMA TailEnds ==
    ASSUME NEW S, NEW s \in Seq(S), s # << >>
    PROVE  Tail(s) \in Seq(S) /\ Len(Tail(s)) = Len(s) - 1 /\ Ends(Tail(s), s)
<1>1. /\ Tail(s) \in Seq(S) /\ Len(Tail(s)) = Len(s) - 1 /\ Len(s) \in Nat \ {0}
      /\ DOMAIN s = 1 .. Len(s) /\ DOMAIN Tail(s) = 1 .. Len(Tail(s))
      /\ \A k \in 1 .. Len(Tail(s)) : Tail(s)[k] = s[k + 1]
  BY HeadTailProperties, LenProperties, EmptySeq
<1>2. Len(s) - Len(Tail(s)) = 1
  BY <1>1
<1> QED
  BY <1>1, <1>2 DEF Ends

\* What a category keeps when a record of category c comes.
LEMMA RoomIs ==
    ASSUME RingAssumption, RingTyped, NEW c \in Categories
    PROVE  /\ Pruned(ring[c]) \in Seq(Shown) /\ Ends(Pruned(ring[c]), ring[c])
           /\ Room(c, Pruned(ring[c])) \in Seq(Shown) /\ Ends(Room(c, Pruned(ring[c])), ring[c])
           /\ Len(Room(c, Pruned(ring[c]))) < Capacity[c]
<1> DEFINE r == Pruned(ring[c])
<1>1. /\ ring[c] \in Seq(Shown) /\ Capacity[c] \in Nat \ {0} /\ Len(ring[c]) <= Capacity[c]
      /\ Len(ring[c]) \in Nat
  BY DEF RingAssumption, RingTyped
<1>5. r \in Seq(Shown) /\ Ends(r, ring[c])
  BY <1>1, PrunedIs
<1> HIDE DEF r
<1>2. r \in Seq(Shown) /\ Ends(r, ring[c]) /\ Len(r) \in Nat /\ Len(r) <= Len(ring[c])
  BY <1>1, <1>5 DEF Ends
<1>3. CASE Len(r) >= Capacity[c]
  <2>1. Room(c, r) = Tail(r) /\ r # << >>
    BY <1>1, <1>2, <1>3, EmptySeq DEF Room
  <2>2. Tail(r) \in Seq(Shown) /\ Len(Tail(r)) = Len(r) - 1 /\ Ends(Tail(r), r)
    BY <1>2, <2>1, TailEnds
  <2>3. Ends(Tail(r), ring[c])
    BY <1>1, <1>2, <2>2, EndsEnd
  <2>4. Len(r) - 1 < Capacity[c]
    BY <1>1, <1>2
  <2> QED
    BY <1>2, <2>1, <2>2, <2>3, <2>4 DEF r
<1>4. CASE ~ Len(r) >= Capacity[c]
  <2>1. Room(c, r) = r
    BY <1>4 DEF Room
  <2>2. Len(r) < Capacity[c]
    BY <1>1, <1>2, <1>4
  <2> QED
    BY <1>2, <2>1, <2>2 DEF r
<1> QED
  BY <1>3, <1>4

\* What a step of the ring does: a category keeps the end of its records, and may gain one.
Holds(c) == evicted[c] + cleared[c] + Len(ring[c])
Keeping(c, d, record) ==
    \E r \in Seq(Shown) :
        /\ Ends(r, ring[d]) /\ ring'[d] = IF d = c THEN Append(r, record) ELSE r
        /\ evicted'[d] = evicted[d] + Len(ring[d]) - Len(r)

LEMMA AppendRingDoes ==
    ASSUME RingTyped, NEW c \in Categories, NEW record \in Shown, AppendRecord(c, record)
    PROVE  /\ \A d \in Categories : Keeping(c, d, record)
           /\ RingTyped' /\ Holds(c)' = Holds(c) + 1
           /\ \A d \in Categories \ {c} : Holds(d)' = Holds(d)
<1> DEFINE left(d) == IF d = c THEN Room(d, Pruned(ring[d])) ELSE Pruned(ring[d])
<1>1. /\ \A d \in Categories : ring'[d] = IF d = c THEN Append(left(d), record) ELSE left(d)
      /\ \A d \in Categories : evicted'[d] = evicted[d] + Len(ring[d]) - Len(left(d))
      /\ DOMAIN ring' = Categories /\ DOMAIN evicted' = Categories
      /\ ring' = [d \in Categories |-> ring'[d]] /\ evicted' = [d \in Categories |-> evicted'[d]]
      /\ added' = added + 1 /\ cleared' = cleared
  BY DEF AppendRecord, PrunedRing, CountedRoom
<1>2. ASSUME NEW d \in Categories
      PROVE  /\ left(d) \in Seq(Shown) /\ Ends(left(d), ring[d])
             /\ d = c => Len(left(d)) < Capacity[d]
  BY RoomIs, RingAssumption
<1>3. ASSUME NEW d \in Categories
      PROVE  /\ ring[d] \in Seq(Shown) /\ Len(ring[d]) \in Nat /\ Len(ring[d]) <= Capacity[d]
             /\ Capacity[d] \in Nat /\ evicted[d] \in Nat /\ cleared[d] \in Nat
  BY RingAssumption DEF RingTyped
<1> HIDE DEF left
<1>4. ASSUME NEW d \in Categories
      PROVE  /\ Keeping(c, d, record) /\ ring'[d] \in Seq(Shown) /\ evicted'[d] \in Nat
             /\ Len(ring'[d]) <= Capacity[d] /\ Holds(d)' = Holds(d) + (IF d = c THEN 1 ELSE 0)
  <2>1. PICK r \in Seq(Shown) : r = left(d) /\ Ends(r, ring[d])
    BY <1>2
  <2>2. /\ Len(r) \in Nat /\ Len(r) <= Len(ring[d]) /\ Len(ring[d]) - Len(r) \in Nat
    BY <1>3, <2>1 DEF Ends
  <2>3. /\ ring'[d] = IF d = c THEN Append(r, record) ELSE r
        /\ evicted'[d] = evicted[d] + Len(ring[d]) - Len(r) /\ cleared'[d] = cleared[d]
    BY <1>1, <2>1
  <2>4. /\ ring'[d] \in Seq(Shown) /\ Len(ring'[d]) = Len(r) + (IF d = c THEN 1 ELSE 0)
    <3>1. Append(r, record) \in Seq(Shown) /\ Len(Append(r, record)) = Len(r) + 1
      BY AppendProperties
    <3> QED
      BY <2>2, <2>3, <3>1
  <2>5. Len(ring'[d]) <= Capacity[d]
    BY <1>2, <1>3, <2>1, <2>2, <2>4
  <2>6. Keeping(c, d, record) /\ evicted'[d] \in Nat
    BY <1>3, <2>1, <2>2, <2>3 DEF Keeping
  <2>7. Holds(d)' = evicted'[d] + cleared'[d] + Len(ring'[d])
    BY DEF Holds
  <2>8. Holds(d)' = Holds(d) + (IF d = c THEN 1 ELSE 0)
    BY <1>3, <2>2, <2>3, <2>4, <2>7 DEF Holds
  <2> QED
    BY <2>4, <2>5, <2>6, <2>8
<1>5. RingTyped'
  <2>1. /\ ring' \in [Categories -> Seq(Shown)] /\ evicted' \in [Categories -> Nat]
        /\ \A d \in Categories : Len(ring'[d]) <= Capacity[d]
    BY <1>1, <1>4
  <2>2. cleared' \in [Categories -> Nat] /\ added' \in Nat /\ Shown' = Shown
    BY <1>1 DEF RingTyped, Shown
  <2> QED
    BY <2>1, <2>2 DEF RingTyped
<1> QED
  BY <1>3, <1>4, <1>5 DEF Holds

\* Queries drop what has expired and count it; a reset drops everything and counts it.
LEMMA QueryRingDoes ==
    ASSUME RingTyped, QueryRing
    PROVE  /\ \A d \in Categories : /\ Ends(ring'[d], ring[d])
                                    /\ evicted'[d] = evicted[d] + Len(ring[d]) - Len(ring'[d])
           /\ RingTyped' /\ \A d \in Categories : Holds(d)' = Holds(d)
           /\ added' = added
<1>1. /\ ring' = [d \in Categories |-> Pruned(ring[d])]
      /\ evicted' = [d \in Categories |-> evicted[d] + Len(ring[d]) - Len(ring'[d])]
      /\ added' = added /\ cleared' = cleared
  BY DEF QueryRing, PrunedRing, CountedRoom
<1>2. ASSUME NEW d \in Categories
      PROVE  /\ ring[d] \in Seq(Shown) /\ Len(ring[d]) \in Nat /\ Len(ring[d]) <= Capacity[d]
             /\ Capacity[d] \in Nat /\ evicted[d] \in Nat /\ cleared[d] \in Nat
  BY RingAssumption DEF RingTyped
<1>3. ASSUME NEW d \in Categories
      PROVE  /\ ring'[d] \in Seq(Shown) /\ Ends(ring'[d], ring[d]) /\ evicted'[d] \in Nat
             /\ evicted'[d] = evicted[d] + Len(ring[d]) - Len(ring'[d])
             /\ Len(ring'[d]) <= Capacity[d] /\ Holds(d)' = Holds(d)
  <2>1. PICK r \in Seq(Shown) : r = ring'[d] /\ Ends(r, ring[d])
    BY <1>1, <1>2, PrunedIs
  <2>2. Len(r) \in Nat /\ Len(r) <= Len(ring[d]) /\ Len(ring[d]) - Len(r) \in Nat
    BY <1>2, <2>1 DEF Ends
  <2>3. evicted'[d] = evicted[d] + Len(ring[d]) - Len(r) /\ cleared'[d] = cleared[d]
    BY <1>1, <2>1
  <2>4. Len(r) <= Capacity[d] /\ evicted'[d] \in Nat
    BY <1>2, <2>2, <2>3
  <2>5. Holds(d)' = evicted'[d] + cleared'[d] + Len(ring'[d])
    BY DEF Holds
  <2>6. Holds(d)' = Holds(d)
    <3>1. Holds(d)' = (evicted[d] + Len(ring[d]) - Len(r)) + cleared[d] + Len(r)
      BY <2>1, <2>3, <2>5
    <3>2. Holds(d) = evicted[d] + cleared[d] + Len(ring[d])
      BY DEF Holds
    <3> QED
      BY <1>2, <2>2, <3>1, <3>2
  <2> QED
    BY <2>1, <2>3, <2>4, <2>6
<1>4. RingTyped'
  <2>1. /\ ring' \in [Categories -> Seq(Shown)] /\ evicted' \in [Categories -> Nat]
        /\ \A d \in Categories : Len(ring'[d]) <= Capacity[d]
    BY <1>1, <1>3
  <2>2. cleared' \in [Categories -> Nat] /\ added' \in Nat /\ Shown' = Shown
    BY <1>1 DEF RingTyped, Shown, Contents
  <2> QED
    BY <2>1, <2>2 DEF RingTyped
<1> QED
  BY <1>1, <1>3, <1>4

LEMMA ClearRingDoes ==
    ASSUME RingTyped, ClearRing
    PROVE  /\ \A d \in Categories : ring'[d] = << >>
           /\ RingTyped' /\ \A d \in Categories : Holds(d)' = Holds(d)
           /\ added' = added /\ evicted' = evicted
<1>1. /\ ring' = [d \in Categories |-> << >>] /\ evicted' = evicted /\ added' = added
      /\ cleared' = [d \in Categories |-> cleared[d] + Len(ring[d]) - Len(NothingLeft[d])]
  BY DEF ClearRing, NothingLeft
<1>2. ASSUME NEW d \in Categories
      PROVE  /\ ring[d] \in Seq(Shown) /\ Len(ring[d]) \in Nat
             /\ Capacity[d] \in Nat /\ evicted[d] \in Nat /\ cleared[d] \in Nat
  BY RingAssumption DEF RingTyped
<1>3. ASSUME NEW d \in Categories
      PROVE  /\ ring'[d] = << >> /\ Len(ring'[d]) = 0 /\ evicted'[d] = evicted[d]
             /\ cleared'[d] = cleared[d] + Len(ring[d]) /\ cleared'[d] \in Nat
             /\ Holds(d)' = Holds(d)
  <2>1. NothingLeft[d] = << >> /\ Len(<< >>) = 0
    BY DEF NothingLeft
  <2>2. /\ ring'[d] = << >> /\ evicted'[d] = evicted[d]
        /\ cleared'[d] = cleared[d] + Len(ring[d]) - Len(NothingLeft[d])
    BY <1>1
  <2>3. cleared'[d] = cleared[d] + Len(ring[d]) /\ cleared'[d] \in Nat
    BY <1>2, <2>1, <2>2
  <2>4. Holds(d)' = evicted'[d] + cleared'[d] + Len(ring'[d])
    BY DEF Holds
  <2>5. Holds(d)' = Holds(d)
    BY <1>2, <2>1, <2>2, <2>3, <2>4 DEF Holds
  <2> QED
    BY <2>1, <2>2, <2>3, <2>5
<1>4. RingTyped'
  <2>1. /\ ring' \in [Categories -> Seq(Shown)] /\ evicted' \in [Categories -> Nat]
        /\ cleared' \in [Categories -> Nat] /\ added' \in Nat /\ Shown' = Shown
    BY <1>1, <1>3 DEF RingTyped, Shown, Contents
  <2>2. \A d \in Categories : Len(ring'[d]) <= Capacity[d]
    BY <1>2, <1>3
  <2> QED
    BY <2>1, <2>2 DEF RingTyped
<1> QED
  BY <1>1, <1>3, <1>4

\* The number of all records that there were, from those of each category.
Entries == Cardinality(UNION {{c} \X (1 .. Holds(c)) : c \in Categories})
LEMMA HeldIs ==
    ASSUME RingTyped
    PROVE  \A c \in Categories : Holds(c) \in Nat /\ IsFiniteSet(1 .. Holds(c))
                                 /\ Cardinality(1 .. Holds(c)) = Holds(c)
<1>1. ASSUME NEW c \in Categories PROVE Holds(c) \in Nat
  BY LenProperties DEF RingTyped, Holds
<1> QED
  BY <1>1, UpTo

LEMMA HeldThen ==
    ASSUME RingTyped'
    PROVE  \A c \in Categories : Holds(c)' \in Nat /\ IsFiniteSet(1 .. Holds(c)')
                                 /\ Cardinality(1 .. Holds(c)') = Holds(c)'
<1>1. ASSUME NEW c \in Categories PROVE Holds(c)' \in Nat
  <2>1. ring'[c] \in Seq(Shown') /\ evicted'[c] \in Nat /\ cleared'[c] \in Nat
    BY DEF RingTyped
  <2>2. Len(ring'[c]) \in Nat
    BY <2>1, LenProperties
  <2> QED
    BY <2>1, <2>2 DEF Holds
<1> QED
  BY <1>1, UpTo

LEMMA SameEntries ==
    ASSUME \A d \in Categories : Holds(d)' = Holds(d) PROVE Entries' = Entries
  BY DEF Entries

LEMMA OneMoreEntry ==
    ASSUME RingTyped, RingTyped', NEW c \in Categories, Holds(c)' = Holds(c) + 1,
           \A d \in Categories \ {c} : Holds(d)' = Holds(d)
    PROVE  Entries' = Entries + 1 /\ Entries \in Nat
<1> DEFINE S == [d \in Categories |-> 1 .. Holds(d)]
           R == [d \in Categories |-> 1 .. Holds(d)']
<1>1. IsFiniteSet(Categories)
  BY RingAssumption
<1>2. /\ \A d \in Categories : /\ S[d] = 1 .. Holds(d) /\ R[d] = 1 .. Holds(d)'
                               /\ IsFiniteSet(S[d]) /\ IsFiniteSet(R[d])
      /\ Cardinality(S[c]) = Holds(c) /\ Cardinality(R[c]) = Holds(c)' /\ Holds(c) \in Nat
  BY HeldIs, HeldThen
<1>3. \A d \in Categories \ {c} : R[d] = S[d]
  OBVIOUS
<1>4. Entries = Cardinality(Tagged(Categories, S)) /\ Entries' = Cardinality(Tagged(Categories, R))
  <2>1. UNION {{d} \X (1 .. Holds(d)) : d \in Categories} = Tagged(Categories, S)
    BY DEF Tagged
  <2>2. UNION {{d} \X (1 .. Holds(d)') : d \in Categories} = Tagged(Categories, R)
    BY DEF Tagged
  <2> QED
    BY <2>1, <2>2 DEF Entries
<1> HIDE DEF S, R
<1>5. Cardinality(Tagged(Categories, R)) - Cardinality(Tagged(Categories, S))
          = Cardinality(R[c]) - Cardinality(S[c])
  BY <1>1, <1>2, <1>3, TaggedMoves
<1>6. Cardinality(Tagged(Categories, R)) \in Nat /\ Cardinality(Tagged(Categories, S)) \in Nat
  BY <1>1, <1>2, TaggedFinite, SMTT(40)
<1> QED
  BY <1>2, <1>4, <1>5, <1>6

-----------------------------------------------------------------------------
(* Who changes what *)

\* Every action leaves the session and the lanes; each part is changed by a few actions.
LEMMA SameSession == SessionNext => session' = session /\ lane' = lane
  BY ZenonT(60) DEF SessionNext, WorkerStep, Reset, Request, Begin, Enrich, Ingest, Correlate, AddPacket,
     AddAlerts, Show, End, ResetDashboard, ResetFlowTable, ResetRing, ResetServices,
     ResetIncidents, ListConversations, ReadFlow, ReadRing, Tick

LEMMA WhoAttributes ==
    SessionNext => \/ UNCHANGED attributionVars \/ (\E w \in Workers : Enrich(w)) \/ ResetServices
  BY ZenonT(60) DEF SessionNext, WorkerStep, Reset, Request, Begin, Ingest, Correlate, AddPacket, views,
     AddAlerts, Show, End, ResetDashboard, ResetFlowTable, ResetRing,
     ResetIncidents, ListConversations, ReadFlow, ReadRing, Tick

LEMMA WhoRings ==
    SessionNext => \/ UNCHANGED ringVars \/ (\E w \in Workers : Show(w)) \/ ResetRing \/ ReadRing
  BY ZenonT(60) DEF SessionNext, WorkerStep, Reset, Request, Begin, Enrich, Ingest, Correlate, AddPacket,
     views, AddAlerts, End, ResetDashboard, ResetFlowTable, ResetServices,
     ResetIncidents, ListConversations, ReadFlow, Tick

LEMMA WhoIngests ==
    SessionNext => \/ UNCHANGED <<flowVars, log, era>>
                   \/ (\E w \in Workers : Ingest(w)) \/ ResetFlowTable
  BY ZenonT(60) DEF SessionNext, WorkerStep, Reset, Request, Begin, Enrich, Correlate, AddPacket,
     views, history, AddAlerts, Show, End, ResetDashboard, ResetRing, ResetServices,
     ResetIncidents, ListConversations, ReadFlow, ReadRing, Tick

LEMMA WhoTakes ==
    SessionNext => \/ UNCHANGED taken \/ (\E w \in Workers : \E p \in Arrivals : Begin(w, p))
  BY ZenonT(60) DEF SessionNext, WorkerStep, Reset, Request, Enrich, Ingest, Correlate, AddPacket,
     AddAlerts, Show, End, ResetDashboard, ResetFlowTable, ResetRing, ResetServices,
     ResetIncidents, ListConversations, ReadFlow, ReadRing, Tick

LEMMA WhoseFrame ==
    SessionNext => \/ UNCHANGED frame \/ (\E w \in Workers : WorkerStep(w))
  BY DEF SessionNext, Reset, Request, ResetDashboard, ResetFlowTable, ResetRing, ResetServices,
     ResetIncidents, ListConversations, ReadFlow, ReadRing, Tick

LEMMA WhoTicks == SessionNext => UNCHANGED now \/ Tick
  BY ZenonT(60) DEF SessionNext, WorkerStep, Reset, Request, Begin, Enrich, Ingest, Correlate, AddPacket,
     AddAlerts, Show, End, ResetDashboard, ResetFlowTable, ResetRing, ResetServices,
     ResetIncidents, ListConversations, ReadFlow, ReadRing

LEMMA WhoSignals ==
    SessionNext => \/ UNCHANGED signalled \/ (\E w \in Workers : Correlate(w)) \/ ResetIncidents
  BY ZenonT(60) DEF SessionNext, WorkerStep, Reset, Request, Begin, Enrich, Ingest, AddPacket, views,
     AddAlerts, Show, End, ResetDashboard, ResetFlowTable, ResetRing, ResetServices,
     ListConversations, ReadFlow, ReadRing, Tick

LEMMA WhoShows ==
    SessionNext => \/ UNCHANGED dashboard \/ (\E w \in Workers : AddPacket(w) \/ AddAlerts(w))
                   \/ ResetDashboard
  BY ZenonT(60) DEF SessionNext, WorkerStep, Reset, Request, Begin, Enrich, Ingest, Correlate, views,
     Show, End, ResetFlowTable, ResetRing, ResetServices,
     ResetIncidents, ListConversations, ReadFlow, ReadRing, Tick

LEMMA WhoCalls ==
    SessionNext => \/ UNCHANGED call \/ ListConversations
                   \/ (\E flow \in DOMAIN flows \cup call.flows : ReadFlow(flow))
  BY ZenonT(60) DEF SessionNext, WorkerStep, Reset, Request, Begin, Enrich, Ingest, Correlate, AddPacket,
     AddAlerts, Show, End, ResetDashboard, ResetFlowTable, ResetRing, ResetServices,
     ResetIncidents, ReadRing, Tick

LEMMA WhoOverlaps == SessionNext => UNCHANGED overlapped \/ ResetFlowTable
  BY ZenonT(60) DEF SessionNext, WorkerStep, Reset, Request, Begin, Enrich, Ingest, Correlate, AddPacket,
     history, AddAlerts, Show, End, ResetDashboard, ResetRing, ResetServices,
     ResetIncidents, ListConversations, ReadFlow, ReadRing, Tick

LEMMA WhoDisturbs ==
    SessionNext => \/ UNCHANGED disturbed \/ ResetDashboard
                   \/ (\E w \in Workers : \E p \in Arrivals : Begin(w, p))
  BY ZenonT(60) DEF SessionNext, WorkerStep, Reset, Request, Enrich, Ingest, Correlate, AddPacket,
     history, AddAlerts, Show, End, ResetFlowTable, ResetRing, ResetServices,
     ResetIncidents, ListConversations, ReadFlow, ReadRing, Tick

LEMMA WhoSweeps == SessionNext => UNCHANGED swept \/ ResetDashboard
  BY ZenonT(60) DEF SessionNext, WorkerStep, Reset, Request, Begin, Enrich, Ingest, Correlate, AddPacket,
     history, AddAlerts, Show, End, ResetFlowTable, ResetRing, ResetServices,
     ResetIncidents, ListConversations, ReadFlow, ReadRing, Tick

LEMMA WhoResets == SessionNext => UNCHANGED reset \/ Reset
  BY ZenonT(60) DEF SessionNext, WorkerStep, Request, Begin, Enrich, Ingest, Correlate, AddPacket,
     history, AddAlerts, Show, End, ListConversations, ReadFlow, ReadRing, Tick

LEMMA WhoFinishes == SessionNext => UNCHANGED finished \/ (\E w \in Workers : End(w))
  BY DEF SessionNext, WorkerStep, Reset, Request, Begin, Enrich, Ingest, Correlate, AddPacket,
     history, AddAlerts, Show, ResetDashboard, ResetFlowTable, ResetRing, ResetServices,
     ResetIncidents, ListConversations, ReadFlow, ReadRing, Tick

-----------------------------------------------------------------------------
(* The counters of the attribution *)

\* How a flow of K is judged; how many outcomes of s count as c.
Outcome(K) == [flow : K, classes : SUBSET Counted]
CountingAs(K, c) == {o \in Outcome(K) : c \in o.classes}
DroppedAs(c) == {classes \in SUBSET Counted : c \in classes}

\* The attribution remembers one outcome for each of some flows of K.
AttributionTyped(K) ==
    /\ outcomes \in Seq(Outcome(K)) /\ uncached \in Seq(SUBSET Counted)
    /\ counts \in [Counted -> Int]

\* The counters are right, as sums over sequences.
Tallied(K) ==
    \A c \in Counted : counts[c] = Cardinality(Where(outcomes, CountingAs(K, c)))
                                   + Cardinality(Where(uncached, DroppedAs(c)))

LEMMA TalliedCounts ==
    ASSUME NEW K, AttributionTyped(K), Tallied(K)
    PROVE  OutcomesCounted
<1>1. /\ DOMAIN outcomes = 1 .. Len(outcomes) /\ DOMAIN uncached = 1 .. Len(uncached)
      /\ \A k \in DOMAIN outcomes : outcomes[k] \in Outcome(K)
      /\ \A k \in DOMAIN uncached : uncached[k] \in SUBSET Counted
  BY LenProperties, ElementOfSeq DEF AttributionTyped
<1>2. ASSUME NEW c \in Counted
      PROVE  /\ {k \in DOMAIN outcomes : c \in outcomes[k].classes} = Where(outcomes, CountingAs(K, c))
             /\ {k \in DOMAIN uncached : c \in uncached[k]} = Where(uncached, DroppedAs(c))
  BY <1>1 DEF Where, CountingAs, DroppedAs
<1> QED
  BY <1>2 DEF Tallied, OutcomesCounted

LEMMA ClassesCounted ==
    ASSUME NEW packet, NEW result PROVE Classes(packet, result) \subseteq Counted
  BY DEF Classes, Counted

\* The outcome of a flow is found where it is.
KnownAt(flow) == SelectInSeq(outcomes, LAMBDA o : o.flow = flow)
LEMMA KnownFinds ==
    ASSUME NEW K, AttributionTyped(K), NEW flow
    PROVE  KnownAt(flow) \in {0} \cup DOMAIN outcomes
<1> DEFINE I == {k \in 1 .. Len(outcomes) : outcomes[k].flow = flow}
<1>1. KnownAt(flow) = IF I # {} THEN Min(I) ELSE 0
  BY DEF KnownAt, SelectInSeq
<1>2. I \subseteq Nat /\ DOMAIN outcomes = 1 .. Len(outcomes) /\ Len(outcomes) \in Nat
  BY LenProperties DEF AttributionTyped
<1>3. ASSUME I # {} PROVE Min(I) \in I
  BY <1>2, <1>3, Least DEF Min
<1> QED
  BY <1>1, <1>2, <1>3

LEMMA RecordTallies ==
    ASSUME NEW K, AttributionTyped(K), Tallied(K), NEW packet, MetricKey(packet) \in K,
           RecordResult(packet)
    PROVE  AttributionTyped(K)' /\ Tallied(K)'
<1> DEFINE flow == MetricKey(packet)
           classes == Classes(packet, Attribution(packet))
           known == KnownAt(flow)
           kept == IF known = 0 THEN outcomes ELSE RemoveAt(outcomes, known)
           entry == [flow |-> flow, classes |-> classes]
           moved == Append(kept, entry)
           full == Len(moved) > OutcomeCacheMax
<1>1. known \in {0} \cup DOMAIN outcomes
  BY KnownFinds
<1>2. CASE known # 0 /\ outcomes[known].classes = classes
  <2>1. UNCHANGED attributionVars
    BY <1>2 DEF RecordResult, KnownAt
  <2> QED
    BY <2>1 DEF attributionVars, AttributionTyped, Tallied
<1>3. CASE ~ (known # 0 /\ outcomes[known].classes = classes)
  <2>1. /\ outcomes' = IF full THEN Tail(moved) ELSE moved
        /\ uncached' = IF full THEN Append(uncached, moved[1].classes) ELSE uncached
        /\ counts' = Adjusted(WithoutEarlier(known), classes, 1)
    BY <1>3 DEF RecordResult, KnownAt
  <2>2. classes \subseteq Counted /\ entry \in Outcome(K)
    BY ClassesCounted DEF Outcome
  <2>3. /\ outcomes \in Seq(Outcome(K)) /\ uncached \in Seq(SUBSET Counted)
        /\ counts \in [Counted -> Int]
        /\ \A k \in DOMAIN outcomes : outcomes[k] \in Outcome(K)
    BY ElementOfSeq, LenProperties DEF AttributionTyped
  <2>4. /\ kept \in Seq(Outcome(K))
        /\ \A c \in Counted :
              Cardinality(Where(kept, CountingAs(K, c))) =
                  Cardinality(Where(outcomes, CountingAs(K, c)))
                  - (IF known # 0 /\ c \in outcomes[known].classes THEN 1 ELSE 0)
    <3>1. CASE known = 0
      <4>1. kept = outcomes
        BY <3>1
      <4>2. \A c \in Counted : Cardinality(Where(outcomes, CountingAs(K, c))) \in Nat
        BY <2>3, WhereFinite
      <4> QED
        BY <2>3, <3>1, <4>1, <4>2
    <3>2. CASE known # 0
      <4> HIDE DEF known
      <4>1. known \in DOMAIN outcomes
        BY <1>1, <3>2
      <4>2. kept = SubSeq(outcomes, 1, known - 1) \o SubSeq(outcomes, known + 1, Len(outcomes))
        BY <3>2 DEF RemoveAt
      <4> HIDE DEF kept
      <4>3. kept \in Seq(Outcome(K)) /\ Lacking(kept, outcomes, known)
        BY <2>3, <4>1, <4>2, Spliced DEF Lacking
      <4>4. \A T : Cardinality(Where(kept, T)) =
                       Cardinality(Where(outcomes, T)) - (IF outcomes[known] \in T THEN 1 ELSE 0)
        BY <2>3, <4>1, <4>3, WhereLacking
      <4>5. \A c \in Counted : outcomes[known] \in CountingAs(K, c) <=> c \in outcomes[known].classes
        BY <2>3, <4>1 DEF CountingAs
      <4> QED
        BY <3>2, <4>3, <4>4, <4>5
    <3> QED
      BY <3>1, <3>2
  <2> HIDE DEF kept, known, classes
  <2>5. /\ moved \in Seq(Outcome(K)) /\ moved # << >> /\ Head(moved) = moved[1]
        /\ moved[1] \in Outcome(K)
    <3>1. moved \in Seq(Outcome(K)) /\ Len(moved) = Len(kept) + 1 /\ Len(kept) \in Nat
      BY <2>2, <2>4, AppendProperties, LenProperties
    <3>2. moved # << >>
      BY <3>1, EmptySeq
    <3> QED
      BY <3>1, <3>2, HeadTailProperties, EmptySeq
  <2>6. ASSUME NEW c \in Counted
        PROVE  Cardinality(Where(moved, CountingAs(K, c))) =
                   Cardinality(Where(kept, CountingAs(K, c))) + (IF c \in classes THEN 1 ELSE 0)
    <3>1. Cardinality(Where(moved, CountingAs(K, c))) =
              Cardinality(Where(kept, CountingAs(K, c))) + (IF entry \in CountingAs(K, c) THEN 1 ELSE 0)
      BY <2>2, <2>4, WhereAppend
    <3>2. entry \in CountingAs(K, c) <=> c \in classes
      BY <2>2 DEF CountingAs
    <3> QED
      BY <3>1, <3>2
  <2> HIDE DEF moved, entry
  <2>7. /\ outcomes' \in Seq(Outcome(K)) /\ uncached' \in Seq(SUBSET Counted)
        /\ \A c \in Counted :
              Cardinality(Where(outcomes', CountingAs(K, c))) + Cardinality(Where(uncached', DroppedAs(c)))
                  = Cardinality(Where(moved, CountingAs(K, c))) + Cardinality(Where(uncached, DroppedAs(c)))
    <3>1. CASE ~ full
      BY <2>1, <2>3, <2>5, <3>1
    <3>2. CASE full
      <4>1. outcomes' = Tail(moved) /\ uncached' = Append(uncached, moved[1].classes)
        BY <2>1, <3>2
      <4>2. moved[1].classes \in SUBSET Counted
        BY <2>5 DEF Outcome
      <4>3. outcomes' \in Seq(Outcome(K)) /\ uncached' \in Seq(SUBSET Counted)
        <5>1. Tail(moved) \in Seq(Outcome(K))
          BY <2>5, HeadTailProperties
        <5>2. Append(uncached, moved[1].classes) \in Seq(SUBSET Counted)
          BY <2>3, <4>2, AppendProperties
        <5> QED
          BY <4>1, <5>1, <5>2
      <4>4. ASSUME NEW c \in Counted
            PROVE  Cardinality(Where(outcomes', CountingAs(K, c)))
                   + Cardinality(Where(uncached', DroppedAs(c)))
                  = Cardinality(Where(moved, CountingAs(K, c))) + Cardinality(Where(uncached, DroppedAs(c)))
        <5>1. Cardinality(Where(outcomes', CountingAs(K, c))) =
                  Cardinality(Where(moved, CountingAs(K, c)))
                  - (IF moved[1] \in CountingAs(K, c) THEN 1 ELSE 0)
          BY <2>5, <4>1, WhereTail
        <5>2. Cardinality(Where(uncached', DroppedAs(c))) =
                  Cardinality(Where(uncached, DroppedAs(c)))
                  + (IF moved[1].classes \in DroppedAs(c) THEN 1 ELSE 0)
          <6>1. uncached \in Seq(SUBSET Counted)
            BY <2>3
          <6>2. Cardinality(Where(Append(uncached, moved[1].classes), DroppedAs(c))) =
                    Cardinality(Where(uncached, DroppedAs(c)))
                    + (IF moved[1].classes \in DroppedAs(c) THEN 1 ELSE 0)
            BY <4>2, <6>1, WhereAppend
          <6> QED
            BY <4>1, <6>2
        <5>3. moved[1] \in CountingAs(K, c) <=> moved[1].classes \in DroppedAs(c)
          BY <2>5, <4>2 DEF CountingAs, DroppedAs
        <5>4. /\ Cardinality(Where(moved, CountingAs(K, c))) \in Nat
              /\ Cardinality(Where(uncached, DroppedAs(c))) \in Nat
          BY <2>3, <2>5, WhereFinite
        <5> QED
          BY <5>1, <5>2, <5>3, <5>4
      <4> QED
        BY <4>3, <4>4
    <3> QED
      BY <3>1, <3>2
  <2>8. /\ counts' \in [Counted -> Int]
        /\ \A c \in Counted :
              counts'[c] = counts[c] - (IF known # 0 /\ c \in outcomes[known].classes THEN 1 ELSE 0)
                           + (IF c \in classes THEN 1 ELSE 0)
    BY <2>1, <2>3 DEF Adjusted, WithoutEarlier
  <2>9. AttributionTyped(K)'
    BY <2>7, <2>8 DEF AttributionTyped
  <2>10. Tallied(K)'
    <3> SUFFICES ASSUME NEW c \in Counted
                 PROVE  counts'[c] = Cardinality(Where(outcomes', CountingAs(K, c)))
                                     + Cardinality(Where(uncached', DroppedAs(c)))
      BY DEF Tallied
    <3>1. counts[c] = Cardinality(Where(outcomes, CountingAs(K, c)))
                      + Cardinality(Where(uncached, DroppedAs(c)))
      BY DEF Tallied
    <3>2. /\ Cardinality(Where(outcomes, CountingAs(K, c))) \in Nat
          /\ Cardinality(Where(uncached, DroppedAs(c))) \in Nat
      BY <2>3, WhereFinite
    <3> QED
      BY <2>4, <2>6, <2>7, <2>8, <3>1, <3>2, SMTT(40)
  <2> QED
    BY <2>9, <2>10
<1> QED
  BY <1>2, <1>3

LEMMA ResetTallies ==
    ASSUME NEW K, ResetAttribution
    PROVE  AttributionTyped(K)' /\ Tallied(K)'
<1>1. outcomes' = << >> /\ counts' = Nothing /\ uncached' = << >>
  BY DEF ResetAttribution
<1>2. AttributionTyped(K)'
  BY <1>1 DEF AttributionTyped, Nothing
<1>3. \A T : Cardinality(Where(<< >>, T)) = 0
  <2>1. \A T : Where(<< >>, T) = {}
    BY DEF Where
  <2> QED
    BY <2>1, FS_EmptySet
<1> QED
  <2>1. \A c \in Counted : counts'[c] = 0
    BY <1>1 DEF Nothing
  <2>2. Tallied(K)'
    BY <1>1, <1>2, <1>3, <2>1 DEF Tallied
  <2> QED
    BY <1>2, <2>2

LEMMA BeginsTallied ==
    ASSUME NEW K, AttributionInit
    PROVE  AttributionTyped(K) /\ Tallied(K)
<1>2. AttributionTyped(K)
  BY DEF AttributionTyped, Nothing, AttributionInit
<1>3. \A T : Cardinality(Where(<< >>, T)) = 0
  <2>1. \A T : Where(<< >>, T) = {}
    BY DEF Where
  <2> QED
    BY <2>1, FS_EmptySet
<1> QED
  <2>1. \A c \in Counted : counts[c] = 0
    BY <1>2 DEF Nothing, AttributionInit
  <2>2. Tallied(K)
    BY <1>2, <1>3, <2>1 DEF Tallied, AttributionInit
  <2> QED
    BY <1>2, <2>2

-----------------------------------------------------------------------------
(* Packets and flows *)

\* The fields of a packet that the flow engine counts.
PacketTyped(q) ==
    /\ q.length \in Nat /\ q.alerts \in Seq(Severities)
    /\ q.unusual \in BOOLEAN /\ q.sensitive \in BOOLEAN /\ q.nxdomain \in BOOLEAN

\* Without its payload a packet is in the same flow, and has the same alerts.
SameBut(q, r) ==
    /\ FlowId(q) = FlowId(r) /\ ConversationOf(q) = ConversationOf(r)
    /\ DirectionFor(q) = DirectionFor(r) /\ MetricKey(q) = MetricKey(r)
    /\ q.dst = r.dst /\ q.length = r.length /\ q.alerts = r.alerts /\ q.nxdomain = r.nxdomain

LEMMA Looks ==
    ASSUME session \in Captures, NEW p \in Arrivals
    PROVE  PacketTyped(Visible(traffic[p])) /\ SameBut(Visible(traffic[p]), traffic[p])
<1> DEFINE r == traffic[p]
           q == Visible(r)
<1>1. /\ {"src", "dst", "sport", "dport", "proto", "direction", "app", "decoded", "payload",
          "metadata", "length", "nxdomain", "unusual", "sensitive", "alerts", "rst",
          "fragment", "old_tls", "http_error", "host", "sni", "query", "org"} \subseteq DOMAIN r
      /\ r.length \in Nat /\ r.alerts \in Seq(Severities)
      /\ {r.unusual, r.sensitive, r.nxdomain} \subseteq BOOLEAN
  BY CapturesAssumption DEF traffic, Arrivals
<1> HIDE DEF r
<1>2. /\ q.src = r.src /\ q.dst = r.dst /\ q.sport = r.sport /\ q.dport = r.dport
      /\ q.proto = r.proto /\ q.direction = r.direction /\ q.length = r.length
      /\ q.alerts = r.alerts /\ q.nxdomain = r.nxdomain /\ q.unusual = r.unusual
      /\ q.sensitive = r.sensitive
  BY <1>1 DEF Visible
<1> HIDE DEF q
<1>3. DirectionFor(q) = DirectionFor(r)
  BY <1>2 DEF DirectionFor
<1>4. FlowId(q) = FlowId(r) /\ ConversationOf(q) = ConversationOf(r) /\ MetricKey(q) = MetricKey(r)
  BY <1>2, <1>3 DEF FlowId, ConversationOf, MetricKey
<1>5. PacketTyped(q) /\ SameBut(q, r)
  BY <1>1, <1>2, <1>3, <1>4 DEF PacketTyped, SameBut
<1> QED
  BY <1>5 DEF q, r

\* Packets of one flow are of one conversation.
LEMMA FlowConverses ==
    ASSUME NEW q, NEW r, FlowId(q) = FlowId(r)
    PROVE  ConversationOf(q) = ConversationOf(r) /\ q.dst = r.dst /\ DirectionFor(q) = DirectionFor(r)
<1>1. /\ q.src = r.src /\ q.dst = r.dst /\ q.sport = r.sport /\ q.dport = r.dport
      /\ q.proto = r.proto /\ DirectionFor(q) = DirectionFor(r)
  BY DEF FlowId
<1> QED
  BY <1>1 DEF ConversationOf

\* The fields of a flow.
FlowFields == {"conversation", "direction", "app", "unusual", "sensitive", "packets", "bytes",
               "sent", "received", "alert_counts", "alert_ids", "samples", "timeline",
               "dns_failures", "new_destination", "service", "score"}
\* What the flow engine counts of a flow.
FlowTyped(f) ==
    /\ DOMAIN f = FlowFields
    /\ f.packets \in Nat /\ f.bytes \in Nat /\ f.sent \in Nat /\ f.received \in Nat
    /\ f.dns_failures \in Nat /\ f.alert_counts \in [Severities -> Nat]
    /\ f.unusual \in BOOLEAN /\ f.sensitive \in BOOLEAN /\ f.new_destination \in BOOLEAN

LEMMA AlertsOfNat ==
    ASSUME NEW q, PacketTyped(q), NEW s PROVE AlertsOf(q, s) \in Nat
<1>1. DOMAIN q.alerts = 1 .. Len(q.alerts) /\ Len(q.alerts) \in Nat
  BY LenProperties DEF PacketTyped
<1>2. {k \in DOMAIN q.alerts : q.alerts[k] = s} \in SUBSET (1 .. Len(q.alerts))
  BY <1>1
<1>3. IsFiniteSet({k \in DOMAIN q.alerts : q.alerts[k] = s})
  BY <1>1, <1>2, UpTo, FS_Subset
<1> QED
  BY <1>3, FS_CardinalityType DEF AlertsOf

\* u is what packet q, of number p, makes of flow f.
Advances(f, p, q, created, u) ==
    /\ u.packets = f.packets + 1 /\ u.bytes = f.bytes + q.length
    /\ u.sent = (IF DirectionFor(q) = "inbound" THEN f.sent ELSE f.sent + q.length)
    /\ u.received = (IF DirectionFor(q) = "inbound" THEN f.received + q.length ELSE f.received)
    /\ u.samples = (IF Len(f.samples) < MaxSamples THEN Append(f.samples, p) ELSE f.samples)
    /\ u.app = AppProtocol(q)
    /\ u.dns_failures = (IF AppProtocol(q) = "DNS" /\ q.nxdomain
                         THEN f.dns_failures + 1 ELSE f.dns_failures)
    /\ u.alert_counts = Raised(f.alert_counts, q)
    /\ u.alert_ids = f.alert_ids \o AlertIds(p, q)
    /\ u.timeline = Newest(MaxTimeline, Observed(Detected(f, p, q), p, q)
                                        \o Alarms(p, q) \o Surprise(f, p, created))
    /\ u.unusual = f.unusual /\ u.sensitive = f.sensitive
    /\ u.new_destination = f.new_destination /\ u.direction = f.direction

LEMMA UpdatedDoes ==
    ASSUME NEW f, FlowTyped(f), NEW p, NEW q, PacketTyped(q), NEW service, NEW created,
           NEW u, u = Updated(f, p, q, service, created)
    PROVE  FlowTyped(u) /\ Advances(f, p, q, created, u) /\ u.score = ScoreFlow(u)
<1> DEFINE inbound == DirectionFor(q) = "inbound"
           events == Observed(Detected(f, p, q), p, q) \o Alarms(p, q) \o Surprise(f, p, created)
           next == [f EXCEPT
                    !.packets = @ + 1, !.bytes = @ + q.length, !.service = service,
                    !.sent = IF inbound THEN @ ELSE @ + q.length,
                    !.received = IF inbound THEN @ + q.length ELSE @,
                    !.samples = IF Len(@) < MaxSamples THEN Append(@, p) ELSE @,
                    !.app = AppProtocol(q),
                    !.dns_failures = IF AppProtocol(q) = "DNS" /\ q.nxdomain THEN @ + 1 ELSE @,
                    !.alert_counts = Raised(@, q), !.alert_ids = @ \o AlertIds(p, q),
                    !.timeline = Newest(MaxTimeline, events)]
<1>1. u = [next EXCEPT !.score = ScoreFlow(next)]
  BY DEF Updated
<1>2. DOMAIN f = FlowFields
  BY DEF FlowTyped
<1>3. /\ DOMAIN next = FlowFields
      /\ next.packets = f.packets + 1 /\ next.bytes = f.bytes + q.length
      /\ next.sent = (IF inbound THEN f.sent ELSE f.sent + q.length)
      /\ next.received = (IF inbound THEN f.received + q.length ELSE f.received)
      /\ next.samples = (IF Len(f.samples) < MaxSamples THEN Append(f.samples, p) ELSE f.samples)
      /\ next.app = AppProtocol(q)
      /\ next.dns_failures = (IF AppProtocol(q) = "DNS" /\ q.nxdomain
                              THEN f.dns_failures + 1 ELSE f.dns_failures)
      /\ next.alert_counts = Raised(f.alert_counts, q)
      /\ next.alert_ids = f.alert_ids \o AlertIds(p, q)
      /\ next.timeline = Newest(MaxTimeline, events)
      /\ next.unusual = f.unusual /\ next.sensitive = f.sensitive
      /\ next.new_destination = f.new_destination /\ next.direction = f.direction
      /\ next.score = f.score
  <2> HIDE DEF inbound, events
  <2> QED
    BY <1>2 DEF FlowFields
<1> HIDE DEF next, inbound, events
<1>4. /\ DOMAIN u = FlowFields
      /\ u.packets = next.packets /\ u.bytes = next.bytes /\ u.sent = next.sent
      /\ u.received = next.received /\ u.samples = next.samples /\ u.app = next.app
      /\ u.dns_failures = next.dns_failures /\ u.alert_counts = next.alert_counts
      /\ u.alert_ids = next.alert_ids /\ u.timeline = next.timeline
      /\ u.unusual = next.unusual /\ u.sensitive = next.sensitive
      /\ u.new_destination = next.new_destination /\ u.direction = next.direction
      /\ u.score = ScoreFlow(next)
  BY <1>1, <1>3 DEF FlowFields
<1>5. /\ f.packets \in Nat /\ f.bytes \in Nat /\ f.sent \in Nat /\ f.received \in Nat
      /\ f.dns_failures \in Nat /\ f.alert_counts \in [Severities -> Nat]
      /\ f.unusual \in BOOLEAN /\ f.sensitive \in BOOLEAN /\ f.new_destination \in BOOLEAN
      /\ q.length \in Nat
  BY DEF FlowTyped, PacketTyped
<1>6. Raised(f.alert_counts, q) \in [Severities -> Nat]
  BY <1>5, AlertsOfNat DEF Raised
<1>7. FlowTyped(u)
  <2>1. u.packets \in Nat /\ u.bytes \in Nat /\ u.sent \in Nat /\ u.received \in Nat
        /\ u.dns_failures \in Nat
    <3>1. u.packets = f.packets + 1 /\ u.bytes = f.bytes + q.length
      BY <1>3, <1>4
    <3>2. u.sent = f.sent \/ u.sent = f.sent + q.length
      BY <1>3, <1>4
    <3>3. u.received = f.received \/ u.received = f.received + q.length
      BY <1>3, <1>4
    <3>4. u.dns_failures = f.dns_failures \/ u.dns_failures = f.dns_failures + 1
      BY <1>3, <1>4
    <3> QED
      BY <1>5, <3>1, <3>2, <3>3, <3>4
  <2> QED
    BY <1>3, <1>4, <1>5, <1>6, <2>1 DEF FlowTyped
<1>8. u.score = ScoreFlow(u)
  <2>1. ScoreFlow(u) = ScoreFlow(next)
    BY <1>4 DEF ScoreFlow
  <2> QED
    BY <1>4, <2>1
<1> QED
  BY <1>3, <1>4, <1>7, <1>8 DEF Advances, inbound, events

LEMMA NewFlowTyped ==
    ASSUME NEW p, NEW q, PacketTyped(q)
    PROVE  FlowTyped(NewFlow(p, q))
<1>1. Unseen(q) \in BOOLEAN
  BY DEF Unseen
<1>2. [s \in Severities |-> 0] \in [Severities -> Nat]
  OBVIOUS
<1> QED
  BY <1>1, <1>2 DEF NewFlow, FlowTyped, FlowFields, PacketTyped

\* More of everything that a flow is judged by, and no less risk.
LEMMA PointsGrow ==
    ASSUME NEW a \in [Severities -> Nat], NEW b \in [Severities -> Nat],
           \A s \in Severities : a[s] <= b[s]
    PROVE  AlertPoints(a) \in Nat /\ AlertPoints(b) \in Nat /\ AlertPoints(a) <= AlertPoints(b)
<1>1. Severities = {"critical", "high", "medium", "low"}
  BY DEF Severities, Weight
<1>2. ASSUME NEW c \in [Severities -> Nat]
      PROVE  /\ PointsFor(c, "critical") = AtMost(68, c["critical"] * 34)
             /\ PointsFor(c, "high") = AtMost(40, c["high"] * 20)
             /\ PointsFor(c, "medium") = AtMost(20, c["medium"] * 10)
             /\ PointsFor(c, "low") = AtMost(6, c["low"] * 3)
             /\ When(c["critical"] + c["high"] > 0, 10)
                    = IF c["critical"] + c["high"] > 0 THEN 10 ELSE 0
  BY DEF PointsFor, Weight, When
<1>3. /\ a["critical"] \in Nat /\ a["high"] \in Nat /\ a["medium"] \in Nat /\ a["low"] \in Nat
      /\ b["critical"] \in Nat /\ b["high"] \in Nat /\ b["medium"] \in Nat /\ b["low"] \in Nat
      /\ a["critical"] <= b["critical"] /\ a["high"] <= b["high"]
      /\ a["medium"] <= b["medium"] /\ a["low"] <= b["low"]
  BY <1>1
<1>4. \A m, n \in Nat : m <= n =>
          /\ AtMost(68, m * 34) \in Nat /\ AtMost(68, n * 34) \in Nat /\ AtMost(68, m * 34) <= AtMost(68, n * 34)
          /\ AtMost(40, m * 20) \in Nat /\ AtMost(40, n * 20) \in Nat /\ AtMost(40, m * 20) <= AtMost(40, n * 20)
          /\ AtMost(20, m * 10) \in Nat /\ AtMost(20, n * 10) \in Nat /\ AtMost(20, m * 10) <= AtMost(20, n * 10)
          /\ AtMost(6, m * 3) \in Nat /\ AtMost(6, n * 3) \in Nat /\ AtMost(6, m * 3) <= AtMost(6, n * 3)
  BY DEF AtMost
<1>5. /\ AtMost(68, a["critical"] * 34) \in Nat /\ AtMost(68, b["critical"] * 34) \in Nat
      /\ AtMost(68, a["critical"] * 34) <= AtMost(68, b["critical"] * 34)
      /\ AtMost(40, a["high"] * 20) \in Nat /\ AtMost(40, b["high"] * 20) \in Nat
      /\ AtMost(40, a["high"] * 20) <= AtMost(40, b["high"] * 20)
      /\ AtMost(20, a["medium"] * 10) \in Nat /\ AtMost(20, b["medium"] * 10) \in Nat
      /\ AtMost(20, a["medium"] * 10) <= AtMost(20, b["medium"] * 10)
      /\ AtMost(6, a["low"] * 3) \in Nat /\ AtMost(6, b["low"] * 3) \in Nat
      /\ AtMost(6, a["low"] * 3) <= AtMost(6, b["low"] * 3)
  BY <1>3, <1>4
<1> QED
  BY <1>2, <1>3, <1>5 DEF AlertPoints

LEMMA RiskGrows ==
    ASSUME NEW f, FlowTyped(f), NEW u, FlowTyped(u), u.direction = f.direction, u.app = f.app,
           u.unusual = f.unusual, u.sensitive = f.sensitive,
           u.new_destination = f.new_destination, f.packets <= u.packets, f.bytes <= u.bytes,
           f.dns_failures <= u.dns_failures,
           \A s \in Severities : f.alert_counts[s] <= u.alert_counts[s]
    PROVE  ScoreFlow(f) \in Int /\ ScoreFlow(u) \in Int /\ ScoreFlow(f) <= ScoreFlow(u)
<1> DEFINE outbound == f.direction = "outbound"
           unknown == f.app = "UNKNOWN" /\ f.direction \in {"inbound", "outbound"}
           known(x) == When(unknown, 22) + When(~unknown /\ outbound /\ x.app \notin Common, 9)
           same == When(f.unusual, 14)
           A(x) == AlertPoints(x.alert_counts)
           B(x) == When(x.packets >= ManyPackets, 12)
           C(x) == When(x.bytes >= ManyBytes, 12)
           D(x) == When(x.dns_failures >= 3, 20)
           n22 == When(unknown, 22)
           n9 == When(~unknown /\ outbound /\ f.app \notin Common, 9)
           n10 == When(outbound /\ f.new_destination, 10)
           n18 == When(outbound /\ f.sensitive, 18)
           Sum(x) == A(x) + n22 + n9 + same + B(x) + C(x) + D(x) + n10 + n18
<1>1. ScoreFlow(f) = AtMost(100, Sum(f)) /\ ScoreFlow(u) = AtMost(100, Sum(u))
  BY DEF ScoreFlow
<1>2. /\ n22 \in Nat /\ n9 \in Nat /\ same \in Nat /\ n10 \in Nat /\ n18 \in Nat
  BY DEF When
<1>3. A(f) \in Nat /\ A(u) \in Nat /\ A(f) <= A(u)
  BY PointsGrow DEF FlowTyped
<1>4. /\ f.packets \in Nat /\ u.packets \in Nat /\ f.bytes \in Nat /\ u.bytes \in Nat
      /\ f.dns_failures \in Nat /\ u.dns_failures \in Nat
      /\ ManyPackets \in Nat /\ ManyBytes \in Nat
  BY FlowAssumption DEF FlowTyped
<1>5. /\ B(f) \in Nat /\ B(u) \in Nat /\ B(f) <= B(u)
      /\ C(f) \in Nat /\ C(u) \in Nat /\ C(f) <= C(u)
      /\ D(f) \in Nat /\ D(u) \in Nat /\ D(f) <= D(u)
  BY <1>4 DEF When
<1> HIDE DEF A, B, C, D, n22, n9, n10, n18, same
<1>6. Sum(f) \in Nat /\ Sum(u) \in Nat /\ Sum(f) <= Sum(u)
  BY <1>2, <1>3, <1>5
<1> HIDE DEF Sum
<1> QED
  BY <1>1, <1>6 DEF AtMost

-----------------------------------------------------------------------------
(* The flow table *)

\* Every flow of the table is typed, and scored as it is; conversations name only such flows.
FlowsTyped == \A id \in DOMAIN flows : FlowTyped(flows[id]) /\ flows[id].score = ScoreFlow(flows[id])
Readable == \A c \in DOMAIN conversations : conversations[c] \subseteq DOMAIN flows

\* The flow that a packet updates.
Base(p, q) == IF FlowId(q) \notin DOMAIN flows THEN NewFlow(p, q) ELSE flows[FlowId(q)]

LEMMA IngestDoes ==
    ASSUME FlowsTyped, NEW p, NEW q, PacketTyped(q), NEW service, IngestFlow(p, q, service)
    PROVE  /\ FlowTyped(Base(p, q))
           /\ IngestedFlow(p, q, service)
                  = Updated(Base(p, q), p, q, service, FlowId(q) \notin DOMAIN flows)
           /\ DOMAIN flows' = DOMAIN flows \cup {FlowId(q)}
           /\ flows'[FlowId(q)] = IngestedFlow(p, q, service)
           /\ \A d \in DOMAIN flows \ {FlowId(q)} : flows'[d] = flows[d]
           /\ seen' = seen \cup {q.dst}
<1>1. FlowTyped(Base(p, q))
  BY NewFlowTyped DEF Base, FlowsTyped
<1>2. IngestedFlow(p, q, service)
          = Updated(Base(p, q), p, q, service, FlowId(q) \notin DOMAIN flows)
  BY DEF IngestedFlow, Base
<1>3. flows' = Including(flows, FlowId(q), IngestedFlow(p, q, service)) /\ seen' = seen \cup {q.dst}
  BY DEF IngestFlow, Noted
<1>4. /\ DOMAIN flows' = DOMAIN flows \cup {FlowId(q)}
      /\ flows'[FlowId(q)] = IngestedFlow(p, q, service)
      /\ \A d \in DOMAIN flows \ {FlowId(q)} : flows'[d] = flows[d]
  BY <1>3 DEF Including
<1> QED
  BY <1>1, <1>2, <1>3, <1>4

\* What conversations it leaves.
LEMMA IngestConverses ==
    ASSUME NEW p, NEW q, NEW service, IngestFlow(p, q, service)
    PROVE  LET c == ConversationOf(q) IN
           /\ FlowId(q) \in DOMAIN flows => conversations' = conversations
           /\ FlowId(q) \notin DOMAIN flows =>
                 /\ DOMAIN conversations' = DOMAIN conversations \cup {c}
                 /\ conversations'[c] = {FlowId(q)} \cup
                        (IF c \in DOMAIN conversations THEN conversations[c] ELSE {})
                 /\ \A d \in DOMAIN conversations \ {c} : conversations'[d] = conversations[d]
<1> DEFINE c == ConversationOf(q)
           known == IF c \in DOMAIN conversations THEN conversations[c] ELSE {}
<1>1. conversations' = IF FlowId(q) \in DOMAIN flows THEN conversations
                       ELSE Including(conversations, c, known \cup {FlowId(q)})
  BY DEF IngestFlow
<1>2. ASSUME FlowId(q) \notin DOMAIN flows
      PROVE  /\ DOMAIN conversations' = DOMAIN conversations \cup {c}
             /\ conversations'[c] = {FlowId(q)} \cup known
             /\ \A d \in DOMAIN conversations \ {c} : conversations'[d] = conversations[d]
  BY <1>1, <1>2 DEF Including
<1> QED
  BY <1>1, <1>2

LEMMA ResetsFlows ==
    ASSUME ResetFlows
    PROVE  DOMAIN flows' = {} /\ DOMAIN conversations' = {} /\ seen' = {}
  BY DEF ResetFlows, ConversationsLeft

-----------------------------------------------------------------------------
(* The shape of a state *)

\* Where a worker is in _process_packet.
Places == {"idle", "enrich", "ingest", "correlate", "count", "alert", "show"}
Frames == [at : Places, packet : Nat, flow : Nat, era : Nat, since : Nat, todo : Seq(Categories)]
Busy(w) == frame[w].at # "idle"

\* The types of a state, with the packets that workers have in their hands.
Shape ==
    /\ session \in Captures
    /\ lane \in [{ConversationOf(traffic[p]) : p \in Arrivals} -> Workers]
    /\ taken \subseteq Arrivals /\ now \in Nat /\ era \in Nat /\ log \in Seq(Arrivals)
    /\ frame \in [Workers -> Frames]
    /\ \A w \in Workers : Busy(w) => frame[w].packet \in taken
    /\ FlowsTyped

\* A step of w puts f in place of its frame.
Moves(w, f) ==
    /\ f \in Frames /\ frame' \in [Workers -> Frames] /\ frame'[w] = f
    /\ \A v \in Workers \ {w} : frame'[v] = frame[v]

LEMMA MovesTo ==
    ASSUME frame \in [Workers -> Frames], NEW w \in Workers, NEW f \in Frames,
           frame' = [frame EXCEPT ![w] = f]
    PROVE  Moves(w, f)
  BY DEF Moves

\* The packets are numbered from 1.
LEMMA ArrivalsAre ==
    ASSUME session \in Captures
    PROVE  Arrivals = 1 .. Len(traffic) /\ Len(traffic) \in Nat /\ Arrivals \subseteq Nat
  BY CapturesAssumption DEF traffic, Arrivals

LEMMA IdleFrame == Idle \in Frames /\ Idle.at = "idle" /\ Idle.todo = << >> /\ Idle.packet = 0
  BY DEF Idle, Frames, Places

\* What a packet adds to the live ring: one packet record, one of its flow, and others.
Once(todo) == \A i, j \in DOMAIN todo : i < j /\ todo[i] = todo[j] => todo[i] \notin {"packet", "flow"}

LEMMA RecordsAre ==
    ASSUME NEW q, PacketTyped(q), NEW n \in Nat
    PROVE  LET todo == Records(q, n)
           IN  /\ todo \in Seq(Categories) /\ Once(todo)
               /\ \E i \in DOMAIN todo : todo[i] = "packet"
               /\ \E i \in DOMAIN todo : todo[i] = "flow"
<1> DEFINE C == {"packet", "flow", "alert", "expert_info", "incident"}
           R == {"alert", "expert_info", "incident"}
           a == [k \in DOMAIN q.alerts |-> "alert"]
           b == [k \in 1 .. ExpertItems(q) |-> "expert_info"]
           c == [k \in 1 .. n |-> "incident"]
           todo == Records(q, n)
<1>1. a \in Seq(R) /\ b \in Seq(R) /\ c \in Seq(R)
  <2>1. ExpertItems(q) \in Nat
    BY DEF ExpertItems, When
  <2>2. Len(q.alerts) \in Nat /\ DOMAIN q.alerts = 1 .. Len(q.alerts)
    BY LenProperties DEF PacketTyped
  <2>3. a \in [1 .. Len(q.alerts) -> R] /\ b \in [1 .. ExpertItems(q) -> R] /\ c \in [1 .. n -> R]
    BY <2>2
  <2>4. \A m \in Nat : [1 .. m -> R] \subseteq Seq(R)
    BY SeqDef
  <2> QED
    BY <2>1, <2>2, <2>3, <2>4
<1>2. todo = ((<<"packet", "flow">> \o a) \o b) \o c
  BY DEF Records
<1> HIDE DEF a, b, c, todo
<1> DEFINE d == a \o (b \o c)
<1>3. d \in Seq(R) /\ Len(d) \in Nat /\ \A k \in 1 .. Len(d) : d[k] \in R
  <2>1. d \in Seq(R)
    BY <1>1, ConcatProperties
  <2> HIDE DEF d
  <2> QED
    BY <2>1, LenProperties, ElementOfSeq
<1>4. todo = <<"packet", "flow">> \o d
  <2>1. a \in Seq(C) /\ b \in Seq(C) /\ c \in Seq(C) /\ <<"packet", "flow">> \in Seq(C)
    <3>1. R \subseteq C
      OBVIOUS
    <3>2. \A s \in Seq(R) : s \in Seq(C)
      BY <3>1
    <3> QED
      BY <1>1, <3>2
  <2> DEFINE h == <<"packet", "flow">>
  <2>2. h \in Seq(C)
    BY <2>1
  <2> HIDE DEF h
  <2>3. \A x, y, z \in Seq(C) : (x \o y) \o z = x \o (y \o z)
    BY ConcatAssociative
  <2>4. h \o a \in Seq(C) /\ b \o c \in Seq(C)
    BY <2>1, <2>2, ConcatProperties
  <2>5. ((h \o a) \o b) \o c = (h \o a) \o (b \o c)
    BY <2>1, <2>3, <2>4, SMTT(40)
  <2>6. (h \o a) \o (b \o c) = h \o (a \o (b \o c))
    BY <2>1, <2>2, <2>3, <2>4, ZenonT(60)
  <2> QED
    BY <1>2, <2>5, <2>6 DEF h, d
<1> HIDE DEF d
<1>5. /\ todo \in Seq(C) /\ Len(todo) = 2 + Len(d) /\ DOMAIN todo = 1 .. Len(d) + 2
      /\ todo[1] = "packet" /\ todo[2] = "flow"
      /\ \A k \in 3 .. Len(d) + 2 : todo[k] \in R
  <2> DEFINE h == <<"packet", "flow">>
  <2>1. h \in Seq(C) /\ Len(h) = 2 /\ h[1] = "packet" /\ h[2] = "flow"
    OBVIOUS
  <2>2. d \in Seq(C)
    BY <1>3
  <2> HIDE DEF h
  <2>3. /\ h \o d \in Seq(C) /\ Len(h \o d) = 2 + Len(d)
        /\ \A k \in 1 .. 2 + Len(d) : (h \o d)[k] = IF k <= 2 THEN h[k] ELSE d[k - 2]
    <3>1. /\ h \o d \in Seq(C) /\ Len(h \o d) = Len(h) + Len(d)
          /\ \A k \in 1 .. Len(h) + Len(d) :
                (h \o d)[k] = IF k <= Len(h) THEN h[k] ELSE d[k - Len(h)]
      BY <2>1, <2>2, ConcatProperties
    <3> QED
      BY <2>1, <3>1
  <2>4. \A k \in 3 .. Len(d) + 2 : (h \o d)[k] = d[k - 2] /\ k - 2 \in 1 .. Len(d)
    BY <1>3, <2>3
  <2>5. (h \o d)[1] = h[1] /\ (h \o d)[2] = h[2] /\ DOMAIN (h \o d) = 1 .. Len(d) + 2
    BY <1>3, <2>3, LenProperties
  <2> QED
    BY <1>3, <1>4, <2>1, <2>3, <2>4, <2>5 DEF h
<1>6. todo \in Seq(Categories)
  <2>1. C \subseteq Categories
    BY RingAssumption
  <2> QED
    BY <1>5, <2>1
<1>7. Once(todo)
  <2> SUFFICES ASSUME NEW i \in DOMAIN todo, NEW j \in DOMAIN todo, i < j, todo[i] = todo[j],
                      todo[i] \in {"packet", "flow"}
               PROVE  FALSE
    BY DEF Once
  <2>1. i \in 1 .. 2 /\ j \in 1 .. 2
    BY <1>3, <1>5
  <2> QED
    BY <1>5, <2>1
<1> QED
  BY <1>3, <1>5, <1>6, <1>7 DEF todo

-----------------------------------------------------------------------------
(* What each step of a worker does to its frame *)

\* Only the frame of w moves; what of it stays; from where to where.
Alone(w) == frame' \in [Workers -> Frames] /\ \A v \in Workers \ {w} : frame'[v] = frame[v]
SamePacket(w) == frame'[w].packet = frame[w].packet
SameCopy(w) == frame'[w].era = frame[w].era /\ frame'[w].flow = frame[w].flow
SameTodo(w) == frame'[w].todo = frame[w].todo
From(w, here, there) == w \in Workers /\ frame[w].at = here /\ frame'[w].at = there /\ Alone(w)

LEMMA OnwardMoves ==
    ASSUME Shape, NEW w \in Workers, NEW step \in Places, Onward(w, step)
    PROVE  Alone(w) /\ SamePacket(w) /\ SameCopy(w) /\ SameTodo(w) /\ frame'[w].at = step
<1> DEFINE f == [frame[w] EXCEPT !.at = step, !.since = now]
<1>1. frame[w] \in Frames /\ now \in Nat /\ frame \in [Workers -> Frames]
  BY DEF Shape
<1>2. f \in Frames /\ f.packet = frame[w].packet /\ f.flow = frame[w].flow
      /\ f.era = frame[w].era /\ f.todo = frame[w].todo /\ f.at = step
  BY <1>1 DEF Frames
<1>3. frame' = [frame EXCEPT ![w] = f]
  BY <1>1 DEF Onward, Frames
<1> HIDE DEF f
<1>4. Moves(w, f)
  BY <1>1, <1>2, <1>3, MovesTo
<1> QED
  BY <1>2, <1>4 DEF Moves, Alone, SamePacket, SameCopy, SameTodo

LEMMA BeginMoves ==
    ASSUME Shape, NEW w \in Workers, NEW p, Begin(w, p)
    PROVE  From(w, "idle", "enrich") /\ frame'[w].packet = p /\ frame'[w].todo = << >>
           /\ p \in Arrivals \ taken /\ taken' = taken \cup {p}
<1> DEFINE f == [Idle EXCEPT !.at = "enrich", !.packet = p]
<1>1. p \in Nat /\ frame \in [Workers -> Frames] /\ frame[w].at = "idle" /\ p \in Arrivals \ taken
      /\ taken' = taken \cup {p}
  BY ArrivalsAre DEF Shape, Begin
<1>2. f \in Frames /\ f.packet = p /\ f.todo = << >> /\ f.at = "enrich"
  <2>1. Idle \in Frames /\ Idle.todo = << >>
    BY IdleFrame
  <2> QED
    BY <1>1, <2>1 DEF Frames, Places
<1>3. frame' = [frame EXCEPT ![w] = f]
  BY DEF Begin
<1> HIDE DEF f
<1>4. Moves(w, f)
  BY <1>1, <1>2, <1>3, MovesTo
<1> QED
  BY <1>1, <1>2, <1>4 DEF Moves, Alone, From

LEMMA EnrichMoves ==
    ASSUME Shape, NEW w \in Workers, Enrich(w)
    PROVE  From(w, "enrich", "ingest") /\ SamePacket(w) /\ SameCopy(w) /\ SameTodo(w)
<1>1. frame[w].at = "enrich" /\ Onward(w, "ingest") /\ "ingest" \in Places
  BY DEF Enrich, Places
<1> QED
  BY <1>1, OnwardMoves DEF From

LEMMA AddPacketMoves ==
    ASSUME Shape, NEW w \in Workers, AddPacket(w)
    PROVE  From(w, "count", "alert") /\ SamePacket(w) /\ SameCopy(w) /\ SameTodo(w)
<1>1. frame[w].at = "count" /\ Onward(w, "alert") /\ "alert" \in Places
  BY DEF AddPacket, Places
<1> QED
  BY <1>1, OnwardMoves DEF From

LEMMA AddAlertsMoves ==
    ASSUME Shape, NEW w \in Workers, AddAlerts(w)
    PROVE  From(w, "alert", "show") /\ SamePacket(w) /\ SameCopy(w) /\ SameTodo(w)
<1>1. frame[w].at = "alert" /\ Onward(w, "show") /\ "show" \in Places
  BY DEF AddAlerts, Places
<1> QED
  BY <1>1, OnwardMoves DEF From

\* The packet that a busy worker processes.
LEMMA MineIs ==
    ASSUME Shape, NEW w \in Workers, Busy(w)
    PROVE  /\ frame[w].packet \in taken /\ frame[w].packet \in Arrivals
           /\ PacketTyped(Mine(w)) /\ SameBut(Mine(w), traffic[frame[w].packet])
           /\ Mine(w) = Visible(traffic[frame[w].packet])
<1>1. frame[w].packet \in taken /\ frame[w].packet \in Arrivals /\ session \in Captures
  BY DEF Shape
<1> QED
  BY <1>1, Looks DEF Mine

LEMMA CorrelateMoves ==
    ASSUME Shape, NEW w \in Workers, Correlate(w)
    PROVE  /\ From(w, "correlate", "count") /\ SamePacket(w) /\ SameCopy(w)
           /\ frame'[w].todo \in Seq(Categories) /\ Once(frame'[w].todo)
           /\ \E i \in DOMAIN frame'[w].todo : frame'[w].todo[i] = "packet"
           /\ \E i \in DOMAIN frame'[w].todo : frame'[w].todo[i] = "flow"
<1>1. frame[w].at = "correlate" /\ frame \in [Workers -> Frames] /\ frame[w] \in Frames
  BY DEF Correlate, Shape
<1>2. PacketTyped(Mine(w))
  BY <1>1, MineIs DEF Busy
<1>3. PICK n \in 0 .. AtMost(1, Len(Mine(w).alerts)) :
          frame' = [frame EXCEPT ![w].at = "count", ![w].todo = Records(Mine(w), n)]
  BY DEF Correlate
<1> DEFINE todo == Records(Mine(w), n)
           f == [frame[w] EXCEPT !.at = "count", !.todo = todo]
<1>4. n \in Nat
  OBVIOUS
<1>5. /\ todo \in Seq(Categories) /\ Once(todo)
      /\ \E i \in DOMAIN todo : todo[i] = "packet"
      /\ \E i \in DOMAIN todo : todo[i] = "flow"
  BY <1>2, <1>4, RecordsAre
<1> HIDE DEF todo
<1>6. f \in Frames /\ f.packet = frame[w].packet /\ f.flow = frame[w].flow
      /\ f.era = frame[w].era /\ f.todo = todo /\ f.at = "count"
  BY <1>1, <1>5 DEF Frames, Places
<1>7. frame' = [frame EXCEPT ![w] = f]
  BY <1>1, <1>3 DEF Frames, todo
<1> HIDE DEF f
<1>8. Moves(w, f)
  BY <1>1, <1>6, <1>7, MovesTo
<1> QED
  BY <1>1, <1>5, <1>6, <1>8 DEF Moves, Alone, SamePacket, SameCopy, From

LEMMA ShowMoves ==
    ASSUME Shape, NEW w \in Workers, Show(w)
    PROVE  /\ From(w, "show", "show") /\ SamePacket(w) /\ SameCopy(w)
           /\ frame[w].todo # << >> /\ frame'[w].todo = Tail(frame[w].todo)
           /\ Head(frame[w].todo) \in Categories
           /\ \E time \in Int :
                 AppendRecord(Head(frame[w].todo), [time |-> time, content |-> Content(w)])
<1>1. frame[w].at = "show" /\ frame \in [Workers -> Frames] /\ frame[w] \in Frames
      /\ frame[w].todo # << >> /\ now \in Nat
  BY DEF Show, Shape
<1>2. /\ frame[w].todo \in Seq(Categories) /\ Tail(frame[w].todo) \in Seq(Categories)
      /\ Head(frame[w].todo) \in Categories
  BY <1>1, HeadTailProperties DEF Frames
<1> DEFINE todo == Tail(frame[w].todo)
           f == [frame[w] EXCEPT !.todo = todo, !.since = now]
<1>3. f \in Frames /\ f.packet = frame[w].packet /\ f.flow = frame[w].flow
      /\ f.era = frame[w].era /\ f.todo = todo /\ f.at = "show"
  BY <1>1, <1>2 DEF Frames, Places
<1>4. frame' = [frame EXCEPT ![w] = f]
  BY <1>1 DEF Frames, Show
<1> HIDE DEF f
<1>5. Moves(w, f)
  BY <1>1, <1>3, <1>4, MovesTo
<1>6. \E time \in Int :
          AppendRecord(Head(frame[w].todo), [time |-> time, content |-> Content(w)])
  <2>1. frame[w].since .. now \subseteq Int
    OBVIOUS
  <2> QED
    BY <2>1 DEF Show
<1> QED
  BY <1>1, <1>2, <1>3, <1>5, <1>6 DEF Moves, Alone, SamePacket, SameCopy, From

LEMMA EndMoves ==
    ASSUME Shape, NEW w \in Workers, End(w)
    PROVE  /\ From(w, "show", "idle") /\ frame[w].todo = << >> /\ frame'[w] = Idle
           /\ finished' = finished \cup {frame[w].packet}
<1>1. frame[w].at = "show" /\ frame \in [Workers -> Frames] /\ frame[w].todo = << >>
      /\ frame' = [frame EXCEPT ![w] = Idle] /\ finished' = finished \cup {frame[w].packet}
  BY DEF End, Shape
<1>2. Moves(w, Idle)
  BY <1>1, IdleFrame, MovesTo
<1> QED
  BY <1>1, <1>2, IdleFrame DEF Moves, Alone, From

LEMMA IngestMoves ==
    ASSUME Shape, NEW w \in Workers, Ingest(w)
    PROVE  LET p == frame[w].packet
               q == Mine(w)
               service == Attribution(q).service
           IN  /\ From(w, "ingest", "correlate") /\ SamePacket(w) /\ SameTodo(w)
               /\ frame'[w].era = era /\ frame'[w].flow = flows'[FlowId(q)].packets
               /\ p \in Arrivals /\ PacketTyped(q) /\ SameBut(q, traffic[p])
               /\ IngestFlow(p, q, service) /\ log' = Append(log, p) /\ era' = era
               /\ FlowTyped(Base(p, q))
               /\ Advances(Base(p, q), p, q, FlowId(q) \notin DOMAIN flows, flows'[FlowId(q)])
               /\ FlowTyped(flows'[FlowId(q)])
               /\ flows'[FlowId(q)].score = ScoreFlow(flows'[FlowId(q)])
               /\ DOMAIN flows' = DOMAIN flows \cup {FlowId(q)}
               /\ \A d \in DOMAIN flows \ {FlowId(q)} : flows'[d] = flows[d]
               /\ seen' = seen \cup {traffic[p].dst}
<1> DEFINE p == frame[w].packet
           q == Mine(w)
           service == Attribution(q).service
           u == IngestedFlow(p, q, service)
           created == FlowId(q) \notin DOMAIN flows
           f == [frame[w] EXCEPT !.at = "correlate", !.era = era, !.flow = u.packets]
<1>1. /\ frame[w].at = "ingest" /\ frame \in [Workers -> Frames] /\ frame[w] \in Frames
      /\ FlowsTyped /\ era \in Nat
      /\ IngestFlow(p, q, service) /\ log' = Append(log, p) /\ era' = era
      /\ frame' = [frame EXCEPT ![w].at = "correlate", ![w].era = era, ![w].flow = u.packets]
  BY DEF Ingest, Shape
<1>2. p \in Arrivals /\ PacketTyped(q) /\ SameBut(q, traffic[p])
  BY <1>1, MineIs DEF Busy
<1> HIDE DEF p, q, service, u, created
<1>3. /\ FlowTyped(Base(p, q)) /\ u = Updated(Base(p, q), p, q, service, created)
      /\ DOMAIN flows' = DOMAIN flows \cup {FlowId(q)} /\ flows'[FlowId(q)] = u
      /\ \A d \in DOMAIN flows \ {FlowId(q)} : flows'[d] = flows[d]
      /\ seen' = seen \cup {q.dst}
  BY <1>1, <1>2, IngestDoes DEF u, created
<1>4. FlowTyped(u) /\ Advances(Base(p, q), p, q, created, u) /\ u.score = ScoreFlow(u)
  BY <1>2, <1>3, UpdatedDoes
<1>5. u.packets \in Nat
  BY <1>4 DEF FlowTyped
<1>6. f \in Frames /\ f.packet = p /\ f.flow = u.packets /\ f.era = era
      /\ f.todo = frame[w].todo /\ f.at = "correlate"
  BY <1>1, <1>5 DEF Frames, Places, p
<1>7. frame' = [frame EXCEPT ![w] = f]
  BY <1>1 DEF Frames, p, u
<1> HIDE DEF f
<1>8. Moves(w, f)
  BY <1>1, <1>6, <1>7, MovesTo
<1>9. From(w, "ingest", "correlate") /\ SamePacket(w) /\ SameTodo(w)
      /\ frame'[w].era = era /\ frame'[w].flow = u.packets
  BY <1>1, <1>6, <1>8 DEF Moves, Alone, SamePacket, SameTodo, From, p
<1>10. q.dst = traffic[p].dst
  BY <1>2 DEF SameBut
<1> QED
  BY <1>1, <1>2, <1>3, <1>4, <1>9, <1>10 DEF p, q, service, created

-----------------------------------------------------------------------------
(* The shape of every state *)

LEMMA BeginsShaped ==
    ASSUME SessionInit
    PROVE  Shape
<1>1. session \in Captures /\ lane \in [{ConversationOf(traffic[p]) : p \in Arrivals} -> Workers]
  BY DEF SessionInit
<1>2. taken \subseteq Arrivals /\ now \in Nat /\ era \in Nat /\ log \in Seq(Arrivals)
  BY DEF SessionInit, RingInit
<1>3. frame \in [Workers -> Frames] /\ \A w \in Workers : ~ Busy(w)
  BY IdleFrame DEF SessionInit, Busy
<1>4. FlowsTyped
  <2>1. DOMAIN flows = {}
    BY DEF SessionInit, FlowInit
  <2> QED
    BY <2>1 DEF FlowsTyped
<1> QED
  BY <1>1, <1>2, <1>3, <1>4 DEF Shape

LEMMA FlowsStayTyped ==
    ASSUME Shape, SessionNext
    PROVE  FlowsTyped' /\ log' \in Seq(Arrivals) /\ era' \in Nat
<1>1. FlowsTyped /\ log \in Seq(Arrivals) /\ era \in Nat
  BY DEF Shape
<1>2. CASE UNCHANGED <<flowVars, log, era>>
  BY <1>1, <1>2 DEF flowVars, FlowsTyped
<1>3. CASE \E w \in Workers : Ingest(w)
  <2>1. PICK w \in Workers : Ingest(w)
    BY <1>3
  <2> DEFINE id == FlowId(Mine(w))
  <2>2. /\ FlowTyped(flows'[id]) /\ flows'[id].score = ScoreFlow(flows'[id])
        /\ DOMAIN flows' = DOMAIN flows \cup {id}
        /\ \A d \in DOMAIN flows \ {id} : flows'[d] = flows[d]
        /\ log' = Append(log, frame[w].packet) /\ era' = era /\ frame[w].packet \in Arrivals
    BY <2>1, IngestMoves
  <2> HIDE DEF id
  <2>3. log' \in Seq(Arrivals)
    BY <1>1, <2>2, AppendProperties
  <2>4. FlowsTyped'
    <3> SUFFICES ASSUME NEW d \in DOMAIN flows'
                 PROVE  FlowTyped(flows'[d]) /\ flows'[d].score = ScoreFlow(flows'[d])
      BY DEF FlowsTyped
    <3> QED
      BY <1>1, <2>2 DEF FlowsTyped
  <2> QED
    BY <1>1, <2>2, <2>3, <2>4
<1>4. CASE ResetFlowTable
  <2>1. DOMAIN flows' = {} /\ log' = << >> /\ era' = era + 1
    BY <1>4, ResetsFlows DEF ResetFlowTable
  <2> QED
    BY <1>1, <2>1 DEF FlowsTyped
<1> QED
  BY <1>2, <1>3, <1>4, WhoIngests

\* Of the frames, that of one worker at most changes; a busy worker has a packet taken.
LEMMA FramesStayTyped ==
    ASSUME Shape, SessionNext
    PROVE  frame' \in [Workers -> Frames] /\ \A w \in Workers : Busy(w)' => frame'[w].packet \in taken'
<1>1. /\ frame \in [Workers -> Frames] /\ taken \subseteq taken'
      /\ \A w \in Workers : Busy(w) => frame[w].packet \in taken
  <2>1. taken \subseteq taken'
    BY WhoTakes DEF Begin
  <2> QED
    BY <2>1 DEF Shape
<1>2. CASE UNCHANGED frame
  BY <1>1, <1>2 DEF Busy
<1>3. CASE \E w \in Workers : WorkerStep(w)
  <2>1. PICK w \in Workers : WorkerStep(w)
    BY <1>3
  <2>2. Alone(w) /\ (Busy(w)' => frame'[w].packet \in taken')
    <3>1. CASE \E p \in Arrivals : Begin(w, p)
      BY <3>1, BeginMoves DEF From
    <3>2. CASE Enrich(w)
      BY <1>1, <3>2, EnrichMoves DEF From, Busy, SamePacket
    <3>3. CASE Ingest(w)
      BY <1>1, <3>3, IngestMoves DEF From, Busy, SamePacket
    <3>4. CASE Correlate(w)
      BY <1>1, <3>4, CorrelateMoves DEF From, Busy, SamePacket
    <3>5. CASE AddPacket(w)
      BY <1>1, <3>5, AddPacketMoves DEF From, Busy, SamePacket
    <3>6. CASE AddAlerts(w)
      BY <1>1, <3>6, AddAlertsMoves DEF From, Busy, SamePacket
    <3>7. CASE Show(w)
      BY <1>1, <3>7, ShowMoves DEF From, Busy, SamePacket
    <3>8. CASE End(w)
      BY <3>8, EndMoves DEF From, Busy
    <3> QED
      BY <2>1, <3>1, <3>2, <3>3, <3>4, <3>5, <3>6, <3>7, <3>8 DEF WorkerStep
  <2> QED
    BY <1>1, <2>2 DEF Alone, Busy
<1> QED
  BY <1>2, <1>3, WhoseFrame

LEMMA StaysShaped ==
    ASSUME Shape, SessionNext
    PROVE  Shape' /\ Arrivals' = Arrivals /\ traffic' = traffic
<1>1. session' = session /\ lane' = lane
  BY SameSession
<1>2. Arrivals' = Arrivals /\ traffic' = traffic
  BY <1>1 DEF traffic, Arrivals
<1>3. taken' \subseteq Arrivals
  <2>1. CASE UNCHANGED taken
    BY <2>1 DEF Shape
  <2>2. CASE \E w \in Workers : \E p \in Arrivals : Begin(w, p)
    BY <2>2 DEF Shape, Begin
  <2> QED
    BY <2>1, <2>2, WhoTakes
<1>4. now' \in Nat
  BY WhoTicks DEF Shape, Tick
<1>5. FlowsTyped' /\ log' \in Seq(Arrivals) /\ era' \in Nat
  BY FlowsStayTyped
<1>6. frame' \in [Workers -> Frames] /\ \A w \in Workers : Busy(w)' => frame'[w].packet \in taken'
  BY FramesStayTyped
<1>7. Frames' = Frames
  BY DEF Frames, Places
<1>8. session' \in Captures
      /\ lane' \in [{ConversationOf(traffic'[p]) : p \in Arrivals'} -> Workers]
  BY <1>1, <1>2 DEF Shape
<1>9. Shape'
  BY <1>2, <1>3, <1>4, <1>5, <1>6, <1>7, <1>8 DEF Shape
<1> QED
  BY <1>2, <1>9

\* Every state has the shape.
LEMMA ShapeHolds == SessionSpec => []Shape
<1>1. SessionInit => Shape
  BY BeginsShaped
<1>2. Shape /\ [SessionNext]_sessionVars => Shape'
  <2> SUFFICES ASSUME Shape, [SessionNext]_sessionVars PROVE Shape'
    OBVIOUS
  <2>1. CASE SessionNext
    BY <2>1, StaysShaped
  <2>2. CASE UNCHANGED sessionVars
    BY <2>2 DEF sessionVars, views, history, flowVars, Shape, traffic, Arrivals, FlowsTyped,
                Busy, Frames, Places
  <2> QED
    BY <2>1, <2>2
<1> QED
  BY <1>1, <1>2, PTL DEF SessionSpec

-----------------------------------------------------------------------------
(* The counters agree with what they count *)

\* The ring and the attribution count right.
Keys == {MetricKey(traffic[p]) : p \in Arrivals}
Counting ==
    /\ RingTyped /\ added = Entries
    /\ AttributionTyped(Keys) /\ Tallied(Keys)

LEMMA BeginsCounting ==
    ASSUME SessionInit
    PROVE  Counting
<1>1. AttributionTyped(Keys) /\ Tallied(Keys)
  BY BeginsTallied DEF SessionInit
<1>2. /\ ring = [c \in Categories |-> << >>] /\ added = 0
      /\ evicted = [c \in Categories |-> 0] /\ cleared = [c \in Categories |-> 0]
  BY DEF SessionInit, RingInit
<1>3. RingTyped
  BY <1>2, RingAssumption DEF RingTyped
<1>4. Entries = 0
  <2>1. \A c \in Categories : 1 .. Holds(c) = {}
    BY <1>2 DEF Holds
  <2>2. UNION {{c} \X (1 .. Holds(c)) : c \in Categories} = {}
    BY <2>1
  <2> QED
    BY <2>2, FS_EmptySet DEF Entries
<1> QED
  BY <1>1, <1>2, <1>3, <1>4 DEF Counting

\* What a worker shows is a record of the ring.
LEMMA ShownIs ==
    ASSUME Shape, NEW w \in Workers, NEW time \in Int
    PROVE  [time |-> time, content |-> Content(w)] \in Shown
<1>1. frame[w] \in Frames
  BY DEF Shape
<1> QED
  BY <1>1 DEF Shown, Contents, Content, Frames

LEMMA RingStaysAccounted ==
    ASSUME Shape, SessionNext, RingTyped, added = Entries
    PROVE  RingTyped' /\ (added = Entries)'
<1>1. CASE UNCHANGED ringVars
  <2>1. RingTyped'
    BY <1>1 DEF ringVars, RingTyped, Shown, Contents
  <2>2. \A d \in Categories : Holds(d)' = Holds(d)
    BY <1>1 DEF ringVars, Holds
  <2> QED
    BY <1>1, <2>1, <2>2, SameEntries DEF ringVars
<1>2. ASSUME NEW w \in Workers, Show(w) PROVE RingTyped' /\ (added = Entries)'
  <2>1. PICK c \in Categories, record \in Shown : AppendRecord(c, record)
    <3>1. PICK time \in Int :
              AppendRecord(Head(frame[w].todo), [time |-> time, content |-> Content(w)])
      BY <1>2, ShowMoves
    <3>2. Head(frame[w].todo) \in Categories
      BY <1>2, ShowMoves
    <3> QED
      BY <3>1, <3>2, ShownIs
  <2>4. /\ RingTyped' /\ Holds(c)' = Holds(c) + 1
        /\ \A d \in Categories \ {c} : Holds(d)' = Holds(d)
    BY <2>1, AppendRingDoes
  <2>5. Entries' = Entries + 1
    BY <2>4, OneMoreEntry
  <2>6. added' = added + 1
    BY <2>1 DEF AppendRecord
  <2> QED
    BY <2>4, <2>5, <2>6
<1>3. CASE ResetRing
  <2>1. ClearRing
    BY <1>3 DEF ResetRing
  <2> QED
    BY <2>1, ClearRingDoes, SameEntries
<1>4. CASE ReadRing
  <2>1. QueryRing
    BY <1>4 DEF ReadRing
  <2> QED
    BY <2>1, QueryRingDoes, SameEntries
<1> QED
  BY <1>1, <1>2, <1>3, <1>4, WhoRings

LEMMA AttributionStaysTallied ==
    ASSUME Shape, SessionNext, NEW K, K = Keys, AttributionTyped(K), Tallied(K)
    PROVE  AttributionTyped(K)' /\ Tallied(K)'
<1>1. CASE UNCHANGED attributionVars
  BY <1>1 DEF attributionVars, AttributionTyped, Tallied
<1>2. ASSUME NEW w \in Workers, Enrich(w) PROVE AttributionTyped(K)' /\ Tallied(K)'
  <2>1. RecordResult(Mine(w)) /\ Busy(w)
    BY <1>2 DEF Enrich, Busy
  <2>2. frame[w].packet \in Arrivals /\ MetricKey(Mine(w)) = MetricKey(traffic[frame[w].packet])
    BY <2>1, MineIs DEF SameBut
  <2>3. MetricKey(Mine(w)) \in K
    BY <2>2 DEF Keys
  <2> QED
    BY <2>1, <2>3, RecordTallies
<1>3. CASE ResetServices
  BY <1>3, ResetTallies DEF ResetServices
<1> QED
  BY <1>1, <1>2, <1>3, WhoAttributes

LEMMA StaysCounting ==
    ASSUME Shape, SessionNext, Counting
    PROVE  Counting'
<1>1. RingTyped' /\ (added = Entries)'
  BY RingStaysAccounted DEF Counting
<1>2. PICK K : K = Keys
  OBVIOUS
<1>3. AttributionTyped(K)' /\ Tallied(K)'
  <2>1. AttributionTyped(K) /\ Tallied(K)
    BY <1>2 DEF Counting
  <2> QED
    BY <1>2, <2>1, AttributionStaysTallied
<1>4. Keys' = K
  BY <1>2, StaysShaped DEF Keys
<1>5. AttributionTyped(Keys)' /\ Tallied(Keys)'
  BY <1>3, <1>4 DEF AttributionTyped, Tallied
<1> QED
  BY <1>1, <1>5 DEF Counting

LEMMA CountingCounts ==
    ASSUME Counting
    PROVE  CountersAgree
<1>1. OutcomesCounted
  BY TalliedCounts DEF Counting
<1>2. RingAccounted
  <2>1. \A c \in Categories : Len(ring[c]) <= Capacity[c]
    BY DEF Counting, RingTyped
  <2> QED
    BY <2>1 DEF RingAccounted, Counting, Entries, Holds
<1> QED
  BY <1>1, <1>2 DEF CountersAgree

LEMMA CountingHolds == SessionSpec => []Counting
<1>1. SessionInit => Counting
  BY BeginsCounting
<1>2. Shape /\ Counting /\ [SessionNext]_sessionVars => Counting'
  <2> SUFFICES ASSUME Shape, Counting, [SessionNext]_sessionVars PROVE Counting'
    OBVIOUS
  <2>1. CASE SessionNext
    BY <2>1, StaysCounting
  <2>2. CASE UNCHANGED sessionVars
    <3>1. UNCHANGED <<ringVars, attributionVars, session>>
      BY <2>2 DEF sessionVars, views
    <3>2. RingTyped'
      BY <3>1 DEF Counting, RingTyped, Shown, Contents, ringVars
    <3>3. (added = Entries)'
      BY <3>1 DEF Counting, Entries, Holds, ringVars
    <3>4. AttributionTyped(Keys)' /\ Tallied(Keys)'
      BY <3>1 DEF Counting, AttributionTyped, Tallied, Keys, traffic, Arrivals, attributionVars
    <3> QED
      BY <3>2, <3>3, <3>4 DEF Counting
  <2> QED
    BY <2>1, <2>2
<1> QED
  BY <1>1, <1>2, ShapeHolds, PTL DEF SessionSpec

\* The counters of the live ring and of the service attribution agree with what these hold,
\* whatever happens to them: every record shown is in the ring, or was evicted or cleared and
\* counted as such, and every flow is counted once, as it was last judged.
THEOREM CountersStayRight == SessionSpec => []CountersAgree
<1>1. Counting => CountersAgree
  BY CountingCounts
<1> QED
  BY <1>1, CountingHolds, PTL

-----------------------------------------------------------------------------
(* Conversations are readable *)

\* The flows still to be read were there when the call began.
Reading == call.at = "reading" => overlapped \/ call.flows \subseteq DOMAIN flows
Answering == Readable /\ Reading /\ ConversationAnswered

LEMMA StaysReadable ==
    ASSUME Shape, SessionNext, Readable
    PROVE  Readable'
<1>1. CASE UNCHANGED <<flowVars, log, era>>
  BY <1>1 DEF flowVars, Readable
<1>2. ASSUME NEW w \in Workers, Ingest(w) PROVE Readable'
  <2> DEFINE p == frame[w].packet
             q == Mine(w)
             service == Attribution(q).service
             c == ConversationOf(q)
             id == FlowId(q)
  <2>1. DOMAIN flows' = DOMAIN flows \cup {id} /\ IngestFlow(p, q, service)
    BY <1>2, IngestMoves
  <2> HIDE DEF p, q, service
  <2>2. /\ id \in DOMAIN flows => conversations' = conversations
        /\ id \notin DOMAIN flows =>
              /\ DOMAIN conversations' = DOMAIN conversations \cup {c}
              /\ conversations'[c] = {id} \cup
                     (IF c \in DOMAIN conversations THEN conversations[c] ELSE {})
              /\ \A d \in DOMAIN conversations \ {c} : conversations'[d] = conversations[d]
    BY <2>1, IngestConverses
  <2> HIDE DEF c, id
  <2> SUFFICES ASSUME NEW d \in DOMAIN conversations'
               PROVE  conversations'[d] \subseteq DOMAIN flows'
    BY DEF Readable
  <2>3. CASE id \in DOMAIN flows
    BY <2>1, <2>2, <2>3 DEF Readable
  <2>4. CASE id \notin DOMAIN flows /\ d # c
    BY <2>1, <2>2, <2>4 DEF Readable
  <2>5. CASE id \notin DOMAIN flows /\ d = c
    BY <2>1, <2>2, <2>5 DEF Readable
  <2> QED
    BY <2>3, <2>4, <2>5
<1>3. CASE ResetFlowTable
  BY <1>3, ResetsFlows DEF ResetFlowTable, Readable
<1> QED
  BY <1>1, <1>2, <1>3, WhoIngests

\* Flows go only by a reset.
LEMMA FlowsStay ==
    ASSUME Shape, SessionNext, ~ ResetFlowTable
    PROVE  DOMAIN flows \subseteq DOMAIN flows' /\ era' = era
<1>1. CASE UNCHANGED <<flowVars, log, era>>
  BY <1>1 DEF flowVars
<1>2. ASSUME NEW w \in Workers, Ingest(w) PROVE DOMAIN flows \subseteq DOMAIN flows' /\ era' = era
  BY <1>2, IngestMoves
<1> QED
  BY <1>1, <1>2, WhoIngests

LEMMA StaysAnswering ==
    ASSUME Shape, SessionNext, Answering
    PROVE  Answering'
<1>1. Readable /\ Reading /\ ConversationAnswered
  BY DEF Answering
<1>2. Readable'
  BY <1>1, StaysReadable
<1>3. CASE ResetFlowTable
  <2>1. call' = call /\ overlapped' = (overlapped \/ call.at = "reading")
    BY <1>3 DEF ResetFlowTable
  <2> QED
    BY <1>1, <1>2, <2>1 DEF Answering, Reading, ConversationAnswered
<1>4. CASE ~ ResetFlowTable
  <2>1. DOMAIN flows \subseteq DOMAIN flows' /\ overlapped' = overlapped
    BY <1>4, FlowsStay, WhoOverlaps
  <2>2. CASE UNCHANGED call
    BY <1>1, <1>2, <2>1, <2>2 DEF Answering, Reading, ConversationAnswered
  <2>3. CASE ListConversations
    <3>1. ConversationsReadable
      BY <1>1 DEF Readable, ConversationsReadable
    <3>2. PICK c \in DOMAIN conversations : call' = [at |-> "reading", flows |-> conversations[c]]
      BY <2>3, <3>1 DEF ListConversations
    <3>3. call'.at = "reading" /\ call'.flows \subseteq DOMAIN flows
      BY <1>1, <3>2 DEF Readable
    <3> QED
      BY <1>2, <2>1, <3>3 DEF Answering, Reading, ConversationAnswered
  <2>4. ASSUME NEW flow, ReadFlow(flow) PROVE Answering'
    <3>1. call.at = "reading" /\ flow \in call.flows
      BY <2>4 DEF ReadFlow
    <3>2. CASE flow \notin DOMAIN flows
      <4>1. overlapped'
        BY <1>1, <2>1, <3>1, <3>2 DEF Reading
      <4> QED
        BY <1>2, <4>1 DEF Answering, Reading, ConversationAnswered
    <3>3. CASE flow \in DOMAIN flows /\ call.flows = {flow}
      <4>1. call'.at = "answered"
        BY <2>4, <3>3 DEF ReadFlow
      <4> QED
        BY <1>2, <4>1 DEF Answering, Reading, ConversationAnswered
    <3>4. CASE flow \in DOMAIN flows /\ call.flows # {flow}
      <4>1. call' = [call EXCEPT !.flows = @ \ {flow}]
        BY <2>4, <3>4 DEF ReadFlow
      <4>2. CASE overlapped
        <5>1. overlapped'
          BY <2>1, <4>2
        <5> QED
          BY <1>2, <5>1 DEF Answering, Reading, ConversationAnswered
      <4>3. CASE ~ overlapped
        <5>1. call.flows \subseteq DOMAIN flows
          BY <1>1, <3>1, <4>3 DEF Reading
        <5>2. call'.at = call.at
          BY <4>1
        <5>3. call'.at = "reading" => call'.flows \subseteq DOMAIN flows
          BY <4>1, <5>1
        <5> QED
          BY <1>2, <2>1, <3>1, <5>2, <5>3 DEF Answering, Reading, ConversationAnswered
      <4> QED
        BY <4>2, <4>3
    <3> QED
      BY <3>2, <3>3, <3>4
  <2> QED
    BY <2>2, <2>3, <2>4, WhoCalls
<1> QED
  BY <1>3, <1>4

\* A request for a conversation fails only if the flow table was reset while it was read: the
\* conversations never name a flow that the table does not have.
THEOREM RequestsAnswered == SessionSpec => []ConversationAnswered
<1>1. SessionInit => Answering
  BY DEF SessionInit, FlowInit, Answering, Readable, Reading, ConversationAnswered
<1>2. Shape /\ Answering /\ [SessionNext]_sessionVars => Answering'
  <2> SUFFICES ASSUME Shape, Answering, [SessionNext]_sessionVars PROVE Answering'
    OBVIOUS
  <2>1. CASE SessionNext
    BY <2>1, StaysAnswering
  <2>2. CASE UNCHANGED sessionVars
    BY <2>2 DEF sessionVars, views, history, flowVars, Answering, Readable, Reading,
                ConversationAnswered
  <2> QED
    BY <2>1, <2>2
<1>3. Answering => ConversationAnswered
  BY DEF Answering
<1> QED
  BY <1>1, <1>2, <1>3, ShapeHolds, PTL DEF SessionSpec

-----------------------------------------------------------------------------
(* The risk of a flow *)

\* Packets recognised as the same protocol do not lower it.
LEMMA AdvanceRisks ==
    ASSUME NEW f, FlowTyped(f), NEW u, FlowTyped(u), NEW p, NEW q, PacketTyped(q), NEW created,
           Advances(f, p, q, created, u), u.app = f.app
    PROVE  ScoreFlow(f) \in Int /\ ScoreFlow(u) \in Int /\ ScoreFlow(f) <= ScoreFlow(u)
<1>1. /\ u.packets = f.packets + 1 /\ u.bytes = f.bytes + q.length
      /\ u.dns_failures = f.dns_failures \/ u.dns_failures = f.dns_failures + 1
      /\ u.alert_counts = Raised(f.alert_counts, q)
      /\ u.unusual = f.unusual /\ u.sensitive = f.sensitive
      /\ u.new_destination = f.new_destination /\ u.direction = f.direction
  BY DEF Advances
<1>2. /\ f.packets \in Nat /\ f.bytes \in Nat /\ q.length \in Nat /\ f.dns_failures \in Nat
      /\ f.alert_counts \in [Severities -> Nat]
  BY DEF FlowTyped, PacketTyped
<1>3. f.packets <= u.packets /\ f.bytes <= u.bytes /\ f.dns_failures <= u.dns_failures
  <2>1. f.packets <= u.packets
    BY <1>1, <1>2
  <2>2. f.bytes <= u.bytes
    BY <1>1, <1>2
  <2>3. f.dns_failures <= u.dns_failures
    BY <1>1, <1>2
  <2> QED
    BY <2>1, <2>2, <2>3
<1>4. \A s \in Severities : f.alert_counts[s] <= u.alert_counts[s]
  <2> SUFFICES ASSUME NEW s \in Severities PROVE f.alert_counts[s] <= u.alert_counts[s]
    OBVIOUS
  <2>1. AlertsOf(q, s) \in Nat /\ f.alert_counts[s] \in Nat
    BY <1>2, AlertsOfNat
  <2>2. u.alert_counts[s] = f.alert_counts[s] + AlertsOf(q, s)
    BY <1>1 DEF Raised
  <2> QED
    BY <2>1, <2>2
<1> QED
  BY <1>1, <1>3, <1>4, RiskGrows

LEMMA RiskStays ==
    ASSUME Shape, SessionNext, NEW id \in DOMAIN flows \cap DOMAIN flows',
           flows'[id].score < flows[id].score, flows'[id].app = flows[id].app
    PROVE  era' # era
<1>1. FlowTyped(flows[id]) /\ flows[id].score = ScoreFlow(flows[id]) /\ era \in Nat
  BY DEF Shape, FlowsTyped
<1>2. CASE UNCHANGED <<flowVars, log, era>>
  <2>1. FlowTyped(flows[id]) => ScoreFlow(flows[id]) \in Int
    BY RiskGrows DEF FlowTyped
  <2>2. flows' = flows
    BY <1>2 DEF flowVars
  <2> QED
    BY <1>1, <2>1, <2>2
<1>3. ASSUME NEW w \in Workers, Ingest(w) PROVE FALSE
  <2> DEFINE p == frame[w].packet
             q == Mine(w)
             created == FlowId(q) \notin DOMAIN flows
  <2>1. /\ PacketTyped(q) /\ Advances(Base(p, q), p, q, created, flows'[FlowId(q)])
        /\ FlowTyped(flows'[FlowId(q)])
        /\ flows'[FlowId(q)].score = ScoreFlow(flows'[FlowId(q)])
        /\ \A d \in DOMAIN flows \ {FlowId(q)} : flows'[d] = flows[d]
    BY <1>3, IngestMoves
  <2>2. CASE id = FlowId(q)
    <3>1. Base(p, q) = flows[id]
      BY <2>2 DEF Base
    <3> HIDE DEF p, q, created
    <3>2. ScoreFlow(flows[id]) \in Int /\ ScoreFlow(flows'[id]) \in Int
          /\ ScoreFlow(flows[id]) <= ScoreFlow(flows'[id])
      BY <1>1, <2>1, <2>2, <3>1, AdvanceRisks
    <3> QED
      BY <1>1, <2>1, <2>2, <3>2
  <2>3. CASE id # FlowId(q)
    <3>1. flows'[id] = flows[id]
      BY <2>1, <2>3
    <3>2. ScoreFlow(flows[id]) \in Int
      BY <1>1, RiskGrows DEF FlowTyped
    <3> QED
      BY <1>1, <3>1, <3>2
  <2> QED
    BY <2>2, <2>3
<1>4. CASE ResetFlowTable
  BY <1>1, <1>4 DEF ResetFlowTable
<1> QED
  BY <1>2, <1>3, <1>4, WhoIngests

\* The risk of a flow falls only when its packets are recognised as another protocol, or the
\* table was reset: more packets, bytes, failures and alerts never make a flow look better.
THEOREM RiskOnlyRises == SessionSpec => RiskFallsOnlyWhenRecognised
<1>1. ASSUME Shape, [SessionNext]_sessionVars
      PROVE  [\A id \in DOMAIN flows \cap DOMAIN flows' :
                 /\ flows'[id].score < flows[id].score
                 => flows'[id].app # flows[id].app \/ era' # era]_sessionVars
  BY <1>1, RiskStays
<1> QED
  BY <1>1, ShapeHolds, PTL DEF SessionSpec, RiskFallsOnlyWhenRecognised

-----------------------------------------------------------------------------
(* The packets in process *)

\* A worker has the latest packet taken of its lane, and no earlier one of the lane is left out.
Orderly ==
    /\ finished \subseteq taken /\ swept \subseteq finished
    /\ \A w \in Workers : Busy(w) => /\ frame[w].packet \notin finished
                                     /\ InLane(w, frame[w].packet)
                                     /\ \A q \in taken : InLane(w, q) => q <= frame[w].packet
    /\ \A w \in Workers : ~ Busy(w) => frame[w].packet = 0
    /\ \A p \in taken \ finished : \E w \in Workers : Busy(w) /\ frame[w].packet = p
    /\ \A w \in Workers : \A q \in taken : \A p \in 1 .. q - 1 :
          InLane(w, p) /\ InLane(w, q) => p \in taken

\* The workers process what they processed before.
SamePlaces ==
    /\ \A v \in Workers : (Busy(v)' <=> Busy(v)) /\ frame'[v].packet = frame[v].packet
    /\ taken' = taken /\ finished' = finished

LEMMA WhoMoves ==
    ASSUME Shape, SessionNext
    PROVE  \/ SamePlaces
           \/ \E w \in Workers : End(w)
           \/ \E w \in Workers : \E p \in Arrivals : Begin(w, p)
<1>1. CASE UNCHANGED frame /\ UNCHANGED taken /\ UNCHANGED finished
  BY <1>1 DEF SamePlaces, Busy
<1>2. CASE \E w \in Workers : WorkerStep(w)
  <2>1. PICK w \in Workers : WorkerStep(w)
    BY <1>2
  <2>2. CASE \E here, there \in Places \ {"idle"} :
                From(w, here, there) /\ SamePacket(w) /\ UNCHANGED taken /\ UNCHANGED finished
    BY <2>2 DEF From, Alone, SamePacket, Busy, SamePlaces
  <2>3. {"enrich", "ingest", "correlate", "count", "alert", "show"} = Places \ {"idle"}
    BY DEF Places
  <2>4. CASE Enrich(w)
    <3>1. From(w, "enrich", "ingest") /\ SamePacket(w) /\ UNCHANGED taken /\ UNCHANGED finished
      BY <2>4, EnrichMoves DEF Enrich, history
    <3> QED
      BY <2>2, <2>3, <3>1
  <2>5. CASE Ingest(w)
    <3>1. From(w, "ingest", "correlate") /\ SamePacket(w) /\ UNCHANGED taken /\ UNCHANGED finished
      BY <2>5, IngestMoves DEF Ingest
    <3> QED
      BY <2>2, <2>3, <3>1
  <2>6. CASE Correlate(w)
    <3>1. From(w, "correlate", "count") /\ SamePacket(w) /\ UNCHANGED taken /\ UNCHANGED finished
      BY <2>6, CorrelateMoves DEF Correlate, history
    <3> QED
      BY <2>2, <2>3, <3>1
  <2>7. CASE AddPacket(w)
    <3>1. From(w, "count", "alert") /\ SamePacket(w) /\ UNCHANGED taken /\ UNCHANGED finished
      BY <2>7, AddPacketMoves DEF AddPacket, history
    <3> QED
      BY <2>2, <2>3, <3>1
  <2>8. CASE AddAlerts(w)
    <3>1. From(w, "alert", "show") /\ SamePacket(w) /\ UNCHANGED taken /\ UNCHANGED finished
      BY <2>8, AddAlertsMoves DEF AddAlerts, history
    <3> QED
      BY <2>2, <2>3, <3>1
  <2>9. CASE Show(w)
    <3>1. From(w, "show", "show") /\ SamePacket(w) /\ UNCHANGED taken /\ UNCHANGED finished
      BY <2>9, ShowMoves DEF Show, history
    <3> QED
      BY <2>2, <2>3, <3>1
  <2> QED
    BY <2>1, <2>4, <2>5, <2>6, <2>7, <2>8, <2>9 DEF WorkerStep
<1>3. SessionNext => (\E w \in Workers : WorkerStep(w))
                     \/ (UNCHANGED frame /\ UNCHANGED taken /\ UNCHANGED finished)
  BY DEF SessionNext, Reset, Request, ResetDashboard, ResetFlowTable, ResetRing, ResetServices,
     history, ResetIncidents, ListConversations, ReadFlow, ReadRing, Tick
<1> QED
  BY <1>1, <1>2, <1>3

LEMMA BeginsOrderly ==
    ASSUME SessionInit
    PROVE  Orderly
  BY IdleFrame DEF SessionInit, Orderly, Busy

\* A packet is numbered, and its worker is that of its lane.
LEMMA LaneIs ==
    ASSUME Shape, NEW p \in Arrivals
    PROVE  p \in Nat \ {0} /\ lane[ConversationOf(traffic[p])] \in Workers
<1>1. session \in Captures
  BY DEF Shape
<1> QED
  BY <1>1, ArrivalsAre DEF Shape

LEMMA StaysOrderly ==
    ASSUME Shape, Shape', SessionNext, Orderly
    PROVE  Orderly'
<1>1. \A w, p : InLane(w, p)' <=> InLane(w, p)
  BY SameSession DEF InLane, traffic
<1>2. /\ taken \subseteq Arrivals /\ taken' \subseteq Arrivals /\ Arrivals \subseteq Nat \ {0}
  BY StaysShaped, ArrivalsAre DEF Shape
<1>3. CASE SamePlaces
  <2>1. swept' \subseteq finished'
    BY <1>3, WhoSweeps DEF SamePlaces, Orderly, ResetDashboard
  <2> QED
    BY <1>1, <1>3, <2>1 DEF SamePlaces, Orderly
<1>4. ASSUME NEW w \in Workers, End(w) PROVE Orderly'
  <2>1. /\ From(w, "show", "idle") /\ frame'[w] = Idle /\ finished' = finished \cup {frame[w].packet}
        /\ taken' = taken /\ swept' = swept
    BY <1>4, EndMoves DEF End
  <2>2. Busy(w) /\ ~ Busy(w)' /\ frame'[w].packet = 0 /\ frame[w].packet \in taken
        /\ InLane(w, frame[w].packet)
    BY <2>1, IdleFrame DEF From, Busy, Shape, Orderly
  <2>3. \A v \in Workers \ {w} : frame'[v] = frame[v]
    BY <2>1 DEF From, Alone
  <2>4. ASSUME NEW v \in Workers, Busy(v)'
        PROVE  /\ frame'[v].packet \notin finished' /\ InLane(v, frame'[v].packet)
               /\ \A q \in taken : InLane(v, q) => q <= frame'[v].packet
    <3>1. v # w /\ frame'[v] = frame[v] /\ Busy(v)
      BY <2>2, <2>3, <2>4 DEF Busy
    <3>2. frame[v].packet # frame[w].packet
      BY <2>2, <3>1 DEF Orderly, InLane
    <3> QED
      BY <2>1, <3>1, <3>2 DEF Orderly
  <2>5. ASSUME NEW p \in taken \ finished'
        PROVE  \E v \in Workers : Busy(v)' /\ frame'[v].packet = p
    <3>1. PICK v \in Workers : Busy(v) /\ frame[v].packet = p
      BY <2>1, <2>5 DEF Orderly
    <3>2. v # w
      BY <2>1, <2>5, <3>1
    <3> QED
      BY <2>3, <3>1, <3>2 DEF Busy
  <2>6. \A v \in Workers : ~ Busy(v)' => frame'[v].packet = 0
    BY <2>2, <2>3 DEF Busy, Orderly
  <2>7. finished' \subseteq taken' /\ swept' \subseteq finished'
    BY <2>1, <2>2 DEF Orderly
  <2>8. \A v \in Workers : \A q \in taken' : \A p \in 1 .. q - 1 :
            InLane(v, p)' /\ InLane(v, q)' => p \in taken'
    BY <1>1, <2>1 DEF Orderly
  <2> QED
    BY <1>1, <2>1, <2>4, <2>5, <2>6, <2>7, <2>8 DEF Orderly
<1>5. ASSUME NEW w \in Workers, NEW n \in Arrivals, Begin(w, n) PROVE Orderly'
  <2>1. /\ From(w, "idle", "enrich") /\ frame'[w].packet = n /\ n \in Arrivals \ taken
        /\ taken' = taken \cup {n} /\ finished' = finished /\ swept' = swept
        /\ InLane(w, n) /\ \A q \in 1 .. n - 1 : InLane(w, q) => q \in taken
    BY <1>5, BeginMoves DEF Begin
  <2>2. ~ Busy(w) /\ Busy(w)' /\ \A v \in Workers \ {w} : frame'[v] = frame[v]
    BY <2>1 DEF From, Busy, Alone
  <2>3. ASSUME NEW v \in Workers, NEW q \in taken', NEW p \in 1 .. q - 1, InLane(v, p), InLane(v, q)
        PROVE  p \in taken'
    <3>1. CASE q \in taken
      BY <2>1, <2>3, <3>1 DEF Orderly
    <3>2. CASE q = n
      <4>1. v = w
        BY <2>1, <2>3, <3>2 DEF InLane
      <4> QED
        BY <2>1, <2>3, <3>2, <4>1
    <3> QED
      BY <2>1, <3>1, <3>2
  <2>4. ASSUME NEW q \in taken, InLane(w, q) PROVE q <= n
    <3>1. q \in Nat /\ n \in Nat \ {0}
      BY <1>2
    <3>2. SUFFICES ASSUME n < q PROVE FALSE
      BY <3>1
    <3>3. n \in 1 .. q - 1
      BY <3>1, <3>2
    <3> QED
      BY <2>1, <2>4, <3>3 DEF Orderly
  <2>5. ASSUME NEW v \in Workers, Busy(v)'
        PROVE  /\ frame'[v].packet \notin finished' /\ InLane(v, frame'[v].packet)
               /\ \A q \in taken' : InLane(v, q) => q <= frame'[v].packet
    <3>1. CASE v = w
      <4>1. n \notin finished
        BY <2>1 DEF Orderly
      <4> QED
        BY <1>2, <2>1, <2>4, <3>1, <4>1
    <3>2. CASE v # w
      <4>1. frame'[v] = frame[v] /\ Busy(v) /\ ~ InLane(v, n)
        BY <2>1, <2>2, <2>5, <3>2 DEF Busy, InLane
      <4> QED
        BY <2>1, <4>1 DEF Orderly
    <3> QED
      BY <3>1, <3>2
  <2>6. \A v \in Workers : ~ Busy(v)' => frame'[v].packet = 0
    BY <2>2 DEF Busy, Orderly
  <2>7. ASSUME NEW p \in taken' \ finished'
        PROVE  \E v \in Workers : Busy(v)' /\ frame'[v].packet = p
    <3>1. CASE p = n
      BY <2>1, <2>2, <3>1
    <3>2. CASE p # n
      <4>1. PICK v \in Workers : Busy(v) /\ frame[v].packet = p
        BY <2>1, <2>7, <3>2 DEF Orderly
      <4> QED
        BY <2>2, <4>1 DEF Busy
    <3> QED
      BY <3>1, <3>2
  <2>8. finished' \subseteq taken' /\ swept' \subseteq finished'
    BY <2>1 DEF Orderly
  <2>9. \A v \in Workers : \A q \in taken' : \A p \in 1 .. q - 1 :
            InLane(v, p)' /\ InLane(v, q)' => p \in taken'
    BY <1>1, <2>3
  <2> QED
    BY <1>1, <2>5, <2>6, <2>7, <2>8, <2>9 DEF Orderly
<1> QED
  BY <1>3, <1>4, <1>5, WhoMoves

\* Which packets a reset has met.
ResetPlaces == {"idle", "flows", "ring", "services", "incidents"}
Resets == [at : ResetPlaces, count : Nat]
Met == reset \in Resets /\ (reset.at # "idle" => taken \subseteq swept \cup disturbed)

LEMMA StaysMet ==
    ASSUME Shape, Shape', SessionNext, Orderly, Met
    PROVE  Met' /\ swept \subseteq swept' /\ disturbed \subseteq disturbed'
<1>1. CASE ResetDashboard
  <2>1. reset' = [at |-> "flows", count |-> reset.count + 1] /\ swept' = finished
        /\ disturbed' = disturbed \cup InProcess /\ taken' = taken
    BY <1>1 DEF ResetDashboard
  <2>2. ASSUME NEW p \in taken \ finished PROVE p \in InProcess
    <3>1. p # 0
      BY ArrivalsAre DEF Shape
    <3> QED
      BY <3>1 DEF Orderly, InProcess
  <2> QED
    BY <2>1, <2>2 DEF Met, Resets, ResetPlaces, Orderly
<1>2. ASSUME NEW w \in Workers, NEW p \in Arrivals, Begin(w, p)
      PROVE  Met' /\ swept \subseteq swept' /\ disturbed \subseteq disturbed'
  BY <1>2 DEF Begin, Met
<1>3. CASE UNCHANGED taken /\ UNCHANGED disturbed /\ UNCHANGED swept
  <2>1. CASE UNCHANGED reset
    BY <1>3, <2>1 DEF Met
  <2>2. CASE Reset /\ ~ ResetDashboard
    <3>1. \E there \in ResetPlaces : reset' = [reset EXCEPT !.at = there] /\ reset.at # "idle"
      BY <2>2 DEF Reset, ResetPlaces, ResetFlowTable, ResetRing, ResetServices, ResetIncidents
    <3> QED
      BY <1>3, <3>1 DEF Met, Resets
  <2>3. CASE ResetDashboard
    BY <1>1, <2>3
  <2> QED
    BY <2>1, <2>2, <2>3, WhoResets
<1>4. UNCHANGED taken \/ \E w \in Workers : \E p \in Arrivals : Begin(w, p)
  BY WhoTakes
<1> QED
  BY <1>1, <1>2, <1>3, <1>4, WhoSweeps, WhoDisturbs

-----------------------------------------------------------------------------
(* What a step does to the live ring and to the dashboard *)

\* Worker w appends record x to category c, of which the end r was left.
Appends(w, c, r, x) ==
    /\ Show(w) /\ c = Head(frame[w].todo) /\ x.content = Content(w) /\ ring'[c] = Append(r, x)
RingStep(c) ==
    \E r \in Seq(Shown) :
        /\ Ends(r, ring[c])
        /\ ring'[c] = r \/ \E w \in Workers : \E x \in Shown : Appends(w, c, r, x)
        /\ ResetRing \/ evicted'[c] = evicted[c] + Len(ring[c]) - Len(r)

LEMMA EndsItself == ASSUME NEW s, NEW S, s \in Seq(S) PROVE Ends(s, s)
<1>1. Len(s) \in Nat /\ DOMAIN s = 1 .. Len(s)
  BY LenProperties
<1> QED
  BY <1>1 DEF Ends

LEMMA RingTypedEntries ==
    ASSUME RingTyped
    PROVE  \A c \in Categories : /\ ring[c] \in Seq(Shown) /\ Len(ring[c]) \in Nat
                                 /\ DOMAIN ring[c] = 1 .. Len(ring[c]) /\ evicted[c] \in Nat
                                 /\ \A k \in DOMAIN ring[c] : ring[c][k] \in Shown
<1> SUFFICES ASSUME NEW c \in Categories
             PROVE  /\ ring[c] \in Seq(Shown) /\ Len(ring[c]) \in Nat
                    /\ DOMAIN ring[c] = 1 .. Len(ring[c]) /\ evicted[c] \in Nat
                    /\ \A k \in DOMAIN ring[c] : ring[c][k] \in Shown
  OBVIOUS
<1>1. ring[c] \in Seq(Shown) /\ evicted[c] \in Nat
  BY DEF RingTyped
<1> QED
  BY <1>1, LenProperties, ElementOfSeq

\* The record that w shows, of category c, is appended to c; the others keep their ends.
LEMMA ShowRings ==
    ASSUME Shape, RingTyped, NEW w \in Workers, Show(w)
    PROVE  \A d \in Categories :
              \E r \in Seq(Shown), x \in Shown :
                  /\ Ends(r, ring[d]) /\ evicted'[d] = evicted[d] + Len(ring[d]) - Len(r)
                  /\ IF d = Head(frame[w].todo) THEN Appends(w, d, r, x) ELSE ring'[d] = r
<1>1. PICK c \in Categories, x \in Shown :
          c = Head(frame[w].todo) /\ x.content = Content(w) /\ AppendRecord(c, x)
  <2>1. PICK time \in Int :
            AppendRecord(Head(frame[w].todo), [time |-> time, content |-> Content(w)])
    BY ShowMoves
  <2>2. Head(frame[w].todo) \in Categories
    BY ShowMoves
  <2> DEFINE x == [time |-> time, content |-> Content(w)]
  <2>3. x \in Shown /\ x.content = Content(w)
    BY ShownIs
  <2> QED
    BY <2>1, <2>2, <2>3
<1>2. \A d \in Categories : Keeping(c, d, x)
  BY <1>1, AppendRingDoes
<1> SUFFICES ASSUME NEW d \in Categories
             PROVE  \E r \in Seq(Shown) :
                        /\ Ends(r, ring[d]) /\ evicted'[d] = evicted[d] + Len(ring[d]) - Len(r)
                        /\ IF d = Head(frame[w].todo) THEN Appends(w, d, r, x) ELSE ring'[d] = r
  BY <1>1
<1>3. PICK r \in Seq(Shown) : /\ Ends(r, ring[d])
                              /\ ring'[d] = IF d = c THEN Append(r, x) ELSE r
                              /\ evicted'[d] = evicted[d] + Len(ring[d]) - Len(r)
  BY <1>2 DEF Keeping
<1> QED
  BY <1>1, <1>3 DEF Appends

LEMMA RingSteps ==
    ASSUME Shape, RingTyped, SessionNext
    PROVE  \A c \in Categories : RingStep(c)
<1> SUFFICES ASSUME NEW c \in Categories PROVE RingStep(c)
  OBVIOUS
<1>0. ring[c] \in Seq(Shown) /\ Len(ring[c]) \in Nat /\ evicted[c] \in Nat
  BY RingTypedEntries
<1>1. CASE UNCHANGED ringVars
  <2>1. ring'[c] = ring[c] /\ evicted'[c] = evicted[c]
    BY <1>1 DEF ringVars
  <2>2. evicted[c] = evicted[c] + Len(ring[c]) - Len(ring[c])
    BY <1>0
  <2> QED
    BY <1>0, <2>1, <2>2, EndsItself DEF RingStep
<1>2. ASSUME NEW w \in Workers, Show(w) PROVE RingStep(c)
  <2>1. PICK r \in Seq(Shown), x \in Shown :
           /\ Ends(r, ring[c]) /\ evicted'[c] = evicted[c] + Len(ring[c]) - Len(r)
           /\ IF c = Head(frame[w].todo) THEN Appends(w, c, r, x) ELSE ring'[c] = r
    BY <1>2, ShowRings
  <2> QED
    BY <2>1 DEF RingStep
<1>3. CASE ResetRing
  <2>1. ring'[c] = << >>
    BY <1>3, ClearRingDoes DEF ResetRing
  <2>2. << >> \in Seq(Shown) /\ Ends(<< >>, ring[c])
    BY <1>0 DEF Ends
  <2> QED
    BY <1>3, <2>1, <2>2 DEF RingStep
<1>4. CASE ReadRing
  <2>1. /\ Ends(ring'[c], ring[c]) /\ evicted'[c] = evicted[c] + Len(ring[c]) - Len(ring'[c])
        /\ RingTyped'
    BY <1>4, QueryRingDoes DEF ReadRing
  <2>2. ring'[c] \in Seq(Shown)
    BY <2>1 DEF RingTyped, Shown, Contents
  <2> QED
    BY <2>1, <2>2 DEF RingStep
<1> QED
  BY <1>1, <1>2, <1>3, <1>4, WhoRings

\* What is in an end was there; what an append adds is the record of a worker at work.
LEMMA RingedComes ==
    ASSUME Shape, RingTyped, NEW c \in Categories, RingStep(c), NEW k \in DOMAIN ring'[c]
    PROVE  \/ \E n \in DOMAIN ring[c] : ring'[c][k] = ring[c][n]
           \/ \E w \in Workers : Show(w) /\ c = Head(frame[w].todo) /\ ring'[c][k].content = Content(w)
<1>1. PICK r \in Seq(Shown) :
          /\ Ends(r, ring[c])
          /\ ring'[c] = r \/ \E w \in Workers : \E x \in Shown : Appends(w, c, r, x)
  BY DEF RingStep
<1>2. \A n \in DOMAIN r : \E m \in DOMAIN ring[c] : r[n] = ring[c][m]
  BY <1>1 DEF Ends
<1>3. CASE ring'[c] = r
  BY <1>2, <1>3
<1>4. CASE \E w \in Workers : \E x \in Shown : Appends(w, c, r, x)
  <2>1. PICK w \in Workers, x \in Shown :
            Show(w) /\ c = Head(frame[w].todo) /\ x.content = Content(w) /\ ring'[c] = Append(r, x)
    BY <1>4 DEF Appends
  <2>2. /\ DOMAIN r = 1 .. Len(r) /\ Len(r) \in Nat /\ DOMAIN ring'[c] = 1 .. Len(r) + 1
        /\ \A n \in 1 .. Len(r) : ring'[c][n] = r[n]
        /\ ring'[c][Len(r) + 1] = x
    BY <2>1, AppendProperties, LenProperties
  <2>3. CASE k \in 1 .. Len(r)
    BY <1>2, <2>2, <2>3
  <2>4. CASE k = Len(r) + 1
    BY <2>1, <2>2, <2>4
  <2> QED
    BY <2>2, <2>3, <2>4
<1> QED
  BY <1>1, <1>3, <1>4

\* The dashboard: what is new is in front, and the list is cut.
Dashboards == [packets : Seq(Nat), alerts : Seq(Nat \X Nat), counted : SUBSET Nat, total_alerts : Nat]

LEMMA InFrontIs ==
    ASSUME NEW S, NEW latest \in Seq(S), NEW items \in Seq(S)
    PROVE  LET r == InFront(latest, items)
           IN  /\ r \in Seq(S) /\ ToSet(r) \subseteq ToSet(latest) \cup ToSet(items)
               /\ Len(r) = AtMost(MaxItems, Len(latest) + Len(items))
               /\ Len(latest) + Len(items) <= MaxItems => ToSet(r) = ToSet(latest) \cup ToSet(items)
               /\ \A k \in 1 .. Len(latest) : k <= MaxItems => latest[k] \in ToSet(r)
<1> DEFINE all == latest \o items
           n == AtMost(MaxItems, Len(latest) + Len(items))
           r == SubSeq(all, 1, n)
<1>1. /\ Len(latest) \in Nat /\ Len(items) \in Nat /\ MaxItems \in Nat \ {0}
      /\ DOMAIN latest = 1 .. Len(latest) /\ DOMAIN items = 1 .. Len(items)
  BY LenProperties, ItemsAssumption
<1>2. /\ all \in Seq(S) /\ Len(all) = Len(latest) + Len(items)
      /\ \A k \in 1 .. Len(latest) + Len(items) :
            all[k] = IF k <= Len(latest) THEN latest[k] ELSE items[k - Len(latest)]
  BY ConcatProperties
<1>3. n \in Nat /\ n <= Len(all) /\ n <= MaxItems
      /\ (Len(latest) + Len(items) <= MaxItems => n = Len(all))
      /\ \A k \in 1 .. Len(latest) : k <= MaxItems => k <= n
  BY <1>1, <1>2 DEF AtMost
<1> HIDE DEF all, n
<1>4. r \in Seq(S) /\ Len(r) = n /\ DOMAIN r = 1 .. n /\ \A k \in 1 .. n : r[k] = all[k]
  <2>1. \A k \in 1 .. n : all[k] \in S
    BY <1>2, <1>3, ElementOfSeq
  <2>2. /\ r \in Seq(S) /\ Len(r) = (IF 1 <= n THEN n - 1 + 1 ELSE 0)
        /\ \A k \in 1 .. n - 1 + 1 : r[k] = all[1 + k - 1]
    BY <1>3, <2>1, SubSeqProperties
  <2>3. Len(r) = n
    BY <1>3, <2>2
  <2>4. \A k \in 1 .. n : r[k] = all[k]
    BY <1>3, <2>2
  <2> QED
    BY <2>2, <2>3, <2>4, LenProperties
<1> HIDE DEF r
<1>5. ASSUME NEW k \in 1 .. n PROVE r[k] \in ToSet(latest) \cup ToSet(items)
  <2>1. k \in 1 .. Len(latest) + Len(items) /\ r[k] = all[k]
    BY <1>2, <1>3, <1>4
  <2>2. CASE k <= Len(latest)
    BY <1>1, <1>2, <2>1, <2>2 DEF ToSet
  <2>3. CASE ~ k <= Len(latest)
    <3>1. k - Len(latest) \in 1 .. Len(items)
      BY <1>1, <2>1, <2>3
    <3> QED
      BY <1>1, <1>2, <2>1, <2>3, <3>1 DEF ToSet
  <2> QED
    BY <2>2, <2>3
<1>6. \A k \in 1 .. n : r[k] \in ToSet(r)
  BY <1>4 DEF ToSet
<1>7. ASSUME NEW k \in 1 .. Len(latest), k <= MaxItems PROVE latest[k] \in ToSet(r)
  <2>1. k \in 1 .. n /\ k \in 1 .. Len(latest) + Len(items) /\ k <= Len(latest)
    BY <1>1, <1>3, <1>7
  <2> QED
    BY <1>2, <1>4, <1>6, <2>1
<1>8. ASSUME Len(latest) + Len(items) <= MaxItems PROVE ToSet(items) \cup ToSet(latest) \subseteq ToSet(r)
  <2>1. ASSUME NEW k \in 1 .. Len(latest) PROVE latest[k] \in ToSet(r)
    <3>1. k <= MaxItems
      BY <1>1, <1>8
    <3> QED
      BY <1>7, <3>1
  <2>2. ASSUME NEW k \in 1 .. Len(items) PROVE items[k] \in ToSet(r)
    <3>1. k + Len(latest) \in 1 .. n /\ k + Len(latest) \in 1 .. Len(latest) + Len(items)
          /\ ~ k + Len(latest) <= Len(latest) /\ k + Len(latest) - Len(latest) = k
      BY <1>1, <1>2, <1>3, <1>8
    <3>2. r[k + Len(latest)] = items[k]
      BY <1>2, <1>4, <3>1
    <3> QED
      BY <1>6, <3>1, <3>2
  <2> QED
    BY <1>1, <2>1, <2>2 DEF ToSet
<1>9. ToSet(r) \subseteq ToSet(latest) \cup ToSet(items)
  BY <1>4, <1>5 DEF ToSet
<1>10. r = InFront(latest, items)
  BY DEF r, all, n, InFront
<1> QED
  BY <1>4, <1>7, <1>8, <1>9, <1>10 DEF n

LEMMA AlertIdsAre ==
    ASSUME NEW p \in Nat, NEW q, PacketTyped(q)
    PROVE  AlertIds(p, q) \in Seq(Nat \X Nat) /\ \A a \in ToSet(AlertIds(p, q)) : a[1] = p
<1>1. DOMAIN q.alerts = 1 .. Len(q.alerts) /\ Len(q.alerts) \in Nat
  BY LenProperties DEF PacketTyped
<1>2. AlertIds(p, q) = [k \in 1 .. Len(q.alerts) |-> <<p, k>>]
  BY <1>1 DEF AlertIds
<1>3. AlertIds(p, q) \in [1 .. Len(q.alerts) -> Nat \X Nat]
  BY <1>1, <1>2
<1>4. AlertIds(p, q) \in Seq(Nat \X Nat)
  BY <1>1, <1>3, SeqDef
<1>5. \A a \in ToSet(AlertIds(p, q)) : a[1] = p
  BY <1>2 DEF ToSet
<1> QED
  BY <1>4, <1>5

-----------------------------------------------------------------------------
(* A reset forgets *)

LEMMA DashboardStays ==
    ASSUME Shape, SessionNext, dashboard \in Dashboards
    PROVE  /\ dashboard' \in Dashboards
           /\ \/ UNCHANGED dashboard
              \/ ResetDashboard /\ dashboard' = Empty
              \/ \E w \in Workers :
                    /\ AddPacket(w) /\ Busy(w) /\ dashboard'.alerts = dashboard.alerts
                    /\ dashboard'.packets = InFront(<<frame[w].packet>>, dashboard.packets)
                    /\ dashboard'.counted = dashboard.counted \cup {frame[w].packet}
              \/ \E w \in Workers :
                    /\ AddAlerts(w) /\ Busy(w) /\ dashboard'.packets = dashboard.packets
                    /\ dashboard'.counted = dashboard.counted
                    /\ dashboard'.alerts = InFront(AlertIds(frame[w].packet, Mine(w)), dashboard.alerts)
<1>1. CASE UNCHANGED dashboard
  BY <1>1 DEF Dashboards
<1>2. CASE ResetDashboard
  <2>1. dashboard' = Empty
    BY <1>2 DEF ResetDashboard
  <2>2. Empty \in Dashboards
    BY DEF Empty, Dashboards
  <2> QED
    BY <1>2, <2>1, <2>2 DEF Dashboards
<1>3. ASSUME NEW w \in Workers, AddPacket(w)
      PROVE  /\ dashboard' \in Dashboards /\ Busy(w) /\ dashboard'.alerts = dashboard.alerts
             /\ dashboard'.packets = InFront(<<frame[w].packet>>, dashboard.packets)
             /\ dashboard'.counted = dashboard.counted \cup {frame[w].packet}
  <2>1. /\ Busy(w)
        /\ dashboard' = [dashboard EXCEPT !.packets = InFront(<<frame[w].packet>>, @),
                                          !.counted = @ \cup {frame[w].packet}]
    BY <1>3 DEF AddPacket, Busy
  <2>2. frame[w].packet \in Nat /\ dashboard.packets \in Seq(Nat)
    BY DEF Shape, Frames, Dashboards
  <2>3. <<frame[w].packet>> \in Seq(Nat)
    BY <2>2
  <2>4. InFront(<<frame[w].packet>>, dashboard.packets) \in Seq(Nat)
    BY <2>2, <2>3, InFrontIs
  <2> QED
    BY <2>1, <2>2, <2>4 DEF Dashboards
<1>4. ASSUME NEW w \in Workers, AddAlerts(w)
      PROVE  /\ dashboard' \in Dashboards /\ Busy(w) /\ dashboard'.packets = dashboard.packets
             /\ dashboard'.counted = dashboard.counted
             /\ dashboard'.alerts = InFront(AlertIds(frame[w].packet, Mine(w)), dashboard.alerts)
  <2>1. /\ Busy(w)
        /\ dashboard' = [dashboard EXCEPT
                           !.alerts = InFront(AlertIds(frame[w].packet, Mine(w)), @),
                           !.total_alerts = @ + Len(Mine(w).alerts)]
    BY <1>4 DEF AddAlerts, Busy
  <2>2. frame[w].packet \in Nat /\ dashboard.alerts \in Seq(Nat \X Nat)
        /\ dashboard.total_alerts \in Nat
    BY DEF Shape, Frames, Dashboards
  <2>3. AlertIds(frame[w].packet, Mine(w)) \in Seq(Nat \X Nat) /\ Len(Mine(w).alerts) \in Nat
    BY <2>1, <2>2, MineIs, AlertIdsAre, LenProperties DEF PacketTyped
  <2>4. InFront(AlertIds(frame[w].packet, Mine(w)), dashboard.alerts) \in Seq(Nat \X Nat)
    BY <2>2, <2>3, InFrontIs
  <2>5. dashboard.total_alerts + Len(Mine(w).alerts) \in Nat
    BY <2>2, <2>3
  <2> QED
    BY <2>1, <2>4, <2>5 DEF Dashboards
<1> QED
  BY <1>1, <1>2, <1>3, <1>4, WhoShows

\* What a reset has emptied holds nothing of what was finished before.
OffDashboard(p) ==
    /\ p \notin dashboard.counted \cup ToSet(dashboard.packets)
    /\ \A k \in DOMAIN dashboard.alerts : dashboard.alerts[k][1] # p
\* Nothing of what a reset swept is in the views it has emptied so far.
Forgotten ==
    \A p \in swept :
        /\ OffDashboard(p)
        /\ reset.at # "flows" => p \notin ToSet(log)
        /\ reset.at \notin {"flows", "ring"} => \A c \in Categories : p \notin Ringed(c)
        /\ reset.at = "idle" => p \notin signalled

LEMMA DashboardForgets ==
    ASSUME Shape, SessionNext, Orderly, dashboard \in Dashboards, Forgotten, NEW p \in swept,
           swept' = swept
    PROVE  OffDashboard(p)'
<1>0. /\ p \notin dashboard.counted /\ p \notin ToSet(dashboard.packets)
      /\ \A a \in ToSet(dashboard.alerts) : a[1] # p
      /\ \A w \in Workers : Busy(w) => frame[w].packet # p
      /\ dashboard.packets \in Seq(Nat) /\ dashboard.alerts \in Seq(Nat \X Nat)
  BY DEF Forgotten, OffDashboard, ToSet, Orderly, Dashboards
<1>1. SUFFICES /\ p \notin dashboard'.counted /\ p \notin ToSet(dashboard'.packets)
               /\ \A a \in ToSet(dashboard'.alerts) : a[1] # p
  BY DEF OffDashboard, ToSet
<1>2. CASE UNCHANGED dashboard
  BY <1>0, <1>2
<1>3. CASE dashboard' = Empty
  BY <1>3 DEF Empty, ToSet
<1>4. ASSUME NEW w \in Workers, Busy(w), dashboard'.alerts = dashboard.alerts,
             dashboard'.packets = InFront(<<frame[w].packet>>, dashboard.packets),
             dashboard'.counted = dashboard.counted \cup {frame[w].packet}
      PROVE  /\ p \notin dashboard'.counted /\ p \notin ToSet(dashboard'.packets)
             /\ \A a \in ToSet(dashboard'.alerts) : a[1] # p
  <2>1. frame[w].packet # p /\ frame[w].packet \in Nat
    BY <1>0, <1>4 DEF Shape, Frames
  <2>2. <<frame[w].packet>> \in Seq(Nat) /\ ToSet(<<frame[w].packet>>) = {frame[w].packet}
    BY <2>1 DEF ToSet
  <2>3. ToSet(dashboard'.packets) \subseteq ToSet(<<frame[w].packet>>) \cup ToSet(dashboard.packets)
    BY <1>0, <1>4, <2>2, InFrontIs
  <2> QED
    BY <1>0, <1>4, <2>1, <2>2, <2>3
<1>5. ASSUME NEW w \in Workers, Busy(w), dashboard'.packets = dashboard.packets,
             dashboard'.counted = dashboard.counted,
             dashboard'.alerts = InFront(AlertIds(frame[w].packet, Mine(w)), dashboard.alerts)
      PROVE  /\ p \notin dashboard'.counted /\ p \notin ToSet(dashboard'.packets)
             /\ \A a \in ToSet(dashboard'.alerts) : a[1] # p
  <2>1. frame[w].packet # p /\ frame[w].packet \in Nat
    BY <1>0, <1>5 DEF Shape, Frames
  <2>2. /\ AlertIds(frame[w].packet, Mine(w)) \in Seq(Nat \X Nat)
        /\ \A a \in ToSet(AlertIds(frame[w].packet, Mine(w))) : a[1] = frame[w].packet
    BY <1>5, <2>1, MineIs, AlertIdsAre
  <2>3. ToSet(dashboard'.alerts)
            \subseteq ToSet(AlertIds(frame[w].packet, Mine(w))) \cup ToSet(dashboard.alerts)
    BY <1>0, <1>5, <2>2, InFrontIs
  <2> QED
    BY <1>0, <1>5, <2>1, <2>2, <2>3
<1> QED
  BY <1>2, <1>3, <1>4, <1>5, DashboardStays

\* What the flow engine has ingested since its reset.
LEMMA IngestLogs ==
    ASSUME Shape, NEW w \in Workers, Ingest(w)
    PROVE  /\ Busy(w) /\ log' = Append(log, frame[w].packet)
           /\ ToSet(log') = ToSet(log) \cup {frame[w].packet}
<1>1. log' = Append(log, frame[w].packet) /\ Busy(w)
  BY DEF Ingest, Busy
<1>2. log \in Seq(Arrivals) /\ frame[w].packet \in Arrivals
  BY <1>1 DEF Shape
<1>3. Range(log') = Range(log) \cup {frame[w].packet}
  BY <1>1, <1>2, RangeAppend
<1> QED
  BY <1>1, <1>3 DEF Range, ToSet

LEMMA LogGrows ==
    ASSUME Shape, SessionNext
    PROVE  \/ log' = log
           \/ \E w \in Workers : /\ Ingest(w) /\ Busy(w) /\ log' = Append(log, frame[w].packet)
                                 /\ ToSet(log') = ToSet(log) \cup {frame[w].packet}
           \/ ResetFlowTable /\ log' = << >>
  BY IngestLogs, WhoIngests DEF ResetFlowTable

LEMMA ResetAtMoves ==
    ASSUME SessionNext, Met
    PROVE  \/ UNCHANGED reset
           \/ ResetDashboard /\ reset.at = "idle" /\ reset'.at = "flows"
           \/ ResetFlowTable /\ reset.at = "flows" /\ reset'.at = "ring"
           \/ ResetRing /\ reset.at = "ring" /\ reset'.at = "services"
           \/ ResetServices /\ reset.at = "services" /\ reset'.at = "incidents"
           \/ ResetIncidents /\ reset.at = "incidents" /\ reset'.at = "idle"
  BY WhoResets DEF Reset, Met, Resets, ResetPlaces, ResetDashboard, ResetFlowTable, ResetRing,
     ResetServices, ResetIncidents

LEMMA LogForgets ==
    ASSUME Shape, SessionNext, Orderly, Met, Forgotten, NEW p \in swept, ~ ResetDashboard,
           reset'.at # "flows"
    PROVE  p \notin ToSet(log')
<1>1. \A w \in Workers : Busy(w) => frame[w].packet # p
  BY DEF Orderly
<1>2. CASE ResetFlowTable /\ log' = << >>
  BY <1>2 DEF ToSet
<1>3. CASE ~ ResetFlowTable
  <2>1. reset.at # "flows"
    BY <1>3, ResetAtMoves
  <2>2. p \notin ToSet(log)
    BY <2>1 DEF Forgotten
  <2> QED
    BY <1>1, <1>3, <2>2, LogGrows
<1> QED
  BY <1>2, <1>3 DEF ResetFlowTable

LEMMA RingForgets ==
    ASSUME Shape, RingTyped, SessionNext, Orderly, Met, Forgotten, NEW p \in swept,
           ~ ResetDashboard, reset'.at \notin {"flows", "ring"}, NEW c \in Categories
    PROVE  p \notin Ringed(c)'
<1>1. \A w \in Workers : Busy(w) => frame[w].packet # p
  BY DEF Orderly
<1>2. CASE ResetRing
  <2>1. ring'[c] = << >>
    BY <1>2, ClearRingDoes DEF ResetRing
  <2> QED
    BY <2>1 DEF Ringed
<1>3. CASE ~ ResetRing
  <2>1. reset.at \notin {"flows", "ring"}
    BY <1>3, ResetAtMoves
  <2>2. p \notin Ringed(c)
    BY <2>1 DEF Forgotten
  <2> SUFFICES ASSUME NEW k \in DOMAIN ring'[c] PROVE ring'[c][k].content.packet # p
    BY DEF Ringed
  <2>3. RingStep(c)
    BY RingSteps
  <2>4. CASE \E n \in DOMAIN ring[c] : ring'[c][k] = ring[c][n]
    BY <2>2, <2>4 DEF Ringed
  <2>5. ASSUME NEW w \in Workers, Show(w), ring'[c][k].content = Content(w)
        PROVE  ring'[c][k].content.packet # p
    <3>1. Busy(w) /\ Content(w).packet = frame[w].packet
      BY <2>5 DEF Show, Busy, Content
    <3> QED
      BY <1>1, <2>5, <3>1
  <2> QED
    BY <2>3, <2>4, <2>5, RingedComes
<1> QED
  BY <1>2, <1>3

LEMMA SignalsForget ==
    ASSUME Shape, SessionNext, Orderly, Met, Forgotten, NEW p \in swept,
           ~ ResetDashboard, reset'.at = "idle"
    PROVE  p \notin signalled'
<1>1. \A w \in Workers : Busy(w) => frame[w].packet # p
  BY DEF Orderly
<1>2. CASE ResetIncidents
  BY <1>2 DEF ResetIncidents
<1>3. CASE ~ ResetIncidents
  <2>1. reset.at = "idle"
    BY <1>3, ResetAtMoves
  <2>2. p \notin signalled
    BY <2>1 DEF Forgotten
  <2>3. \A w \in Workers : Correlate(w) => Busy(w) /\ signalled' = signalled \cup {frame[w].packet}
    BY DEF Correlate, Busy
  <2> QED
    BY <1>1, <1>3, <2>2, <2>3, WhoSignals
<1> QED
  BY <1>2, <1>3

LEMMA StaysForgotten ==
    ASSUME Shape, RingTyped, SessionNext, Orderly, Met, dashboard \in Dashboards, Forgotten
    PROVE  Forgotten'
<1>1. CASE ResetDashboard
  <2>1. dashboard' = Empty /\ reset'.at = "flows"
    BY <1>1 DEF ResetDashboard
  <2>2. \A p : OffDashboard(p)'
    BY <2>1 DEF OffDashboard, Empty, ToSet
  <2> QED
    BY <2>1, <2>2 DEF Forgotten
<1>2. CASE ~ ResetDashboard
  <2>1. swept' = swept
    BY <1>2, WhoSweeps
  <2>2. ASSUME NEW p \in swept
        PROVE  /\ OffDashboard(p)'
               /\ reset'.at # "flows" => p \notin ToSet(log')
               /\ reset'.at \notin {"flows", "ring"} => \A c \in Categories : p \notin Ringed(c)'
               /\ reset'.at = "idle" => p \notin signalled'
    BY <1>2, <2>1, <2>2, DashboardForgets, LogForgets, RingForgets, SignalsForget
  <2> QED
    BY <2>1, <2>2 DEF Forgotten
<1> QED
  BY <1>1, <1>2

LEMMA ForgottenForgets ==
    ASSUME Forgotten
    PROVE  ResetForgets
  BY DEF Forgotten, ResetForgets, OffDashboard

-----------------------------------------------------------------------------
(* What is not touched by a reset is in every view *)

\* What may have happened to the frame of a worker.
LEMMA FrameComes ==
    ASSUME Shape, SessionNext, NEW w \in Workers
    PROVE  \/ frame'[w] = frame[w]
           \/ /\ From(w, "idle", "enrich") /\ frame'[w].todo = << >>
              /\ \E p \in Arrivals \ taken : Begin(w, p) /\ frame'[w].packet = p
           \/ Enrich(w) /\ From(w, "enrich", "ingest") /\ SamePacket(w) /\ SameTodo(w)
           \/ Ingest(w) /\ From(w, "ingest", "correlate") /\ SamePacket(w) /\ SameTodo(w)
           \/ /\ Correlate(w) /\ From(w, "correlate", "count") /\ SamePacket(w) /\ SameCopy(w)
              /\ frame'[w].todo \in Seq(Categories) /\ Once(frame'[w].todo)
              /\ {"packet", "flow"} \subseteq ToSet(frame'[w].todo)
           \/ /\ AddPacket(w) /\ From(w, "count", "alert") /\ SamePacket(w) /\ SameTodo(w)
              /\ SameCopy(w)
           \/ /\ AddAlerts(w) /\ From(w, "alert", "show") /\ SamePacket(w) /\ SameTodo(w)
              /\ SameCopy(w)
           \/ /\ Show(w) /\ From(w, "show", "show") /\ SamePacket(w) /\ SameCopy(w)
              /\ frame[w].todo # << >> /\ frame'[w].todo = Tail(frame[w].todo)
           \/ /\ End(w) /\ From(w, "show", "idle") /\ frame[w].todo = << >> /\ frame'[w] = Idle
              /\ finished' = finished \cup {frame[w].packet}
<1>1. CASE UNCHANGED frame
  BY <1>1
<1>2. CASE \E v \in Workers : WorkerStep(v)
  <2>1. PICK v \in Workers : WorkerStep(v)
    BY <1>2
  <2>2. CASE v # w
    <3>1. Alone(v)
      <4>1. CASE \E p \in Arrivals : Begin(v, p)
        BY <4>1, BeginMoves DEF From
      <4>2. CASE ~ \E p \in Arrivals : Begin(v, p)
        BY <2>1, <4>2, EnrichMoves, IngestMoves, CorrelateMoves, AddPacketMoves, AddAlertsMoves,
           ShowMoves, EndMoves DEF WorkerStep, From
      <4> QED
        BY <4>1, <4>2
    <3> QED
      BY <2>2, <3>1 DEF Alone
  <2>3. CASE v = w
    <3>1. ASSUME NEW p \in Arrivals, Begin(w, p)
          PROVE  /\ From(w, "idle", "enrich") /\ frame'[w].todo = << >>
                 /\ p \in Arrivals \ taken /\ frame'[w].packet = p
      BY <3>1, BeginMoves
    <3>2. Correlate(w) => {"packet", "flow"} \subseteq ToSet(frame'[w].todo)
      BY CorrelateMoves DEF ToSet
    <3> QED
      BY ZenonT(60), <2>1, <2>3, <3>1, <3>2, EnrichMoves, IngestMoves, CorrelateMoves, AddPacketMoves,
         AddAlertsMoves, ShowMoves, EndMoves DEF WorkerStep
  <2> QED
    BY <2>2, <2>3
<1> QED
  BY <1>1, <1>2, WhoseFrame

\* The places behind Ingest, behind Correlate, and behind AddPacket.
AfterIngest == {"correlate", "count", "alert", "show"}
AfterCorrelate == {"count", "alert", "show"}
AfterCount == {"alert", "show"}
\* Packet p is past a place; past the record of category c.
Past(p, S) == p \in finished \/ \E w \in Workers : frame[w].at \in S /\ frame[w].packet = p
PastRecord(p, c) ==
    \/ p \in finished
    \/ \E w \in Workers : /\ frame[w].at \in AfterCorrelate /\ frame[w].packet = p
                          /\ c \notin ToSet(frame[w].todo)
\* The packets no reset has met; each is in the views whose step it is past.
Untouched == taken \ (disturbed \cup swept)

Seen ==
    \A p \in Untouched :
        /\ Past(p, AfterIngest) => p \in ToSet(log)
        /\ Past(p, AfterCorrelate) => p \in signalled
        /\ Past(p, AfterCount) =>
              /\ p \in dashboard.counted
              /\ p \in ToSet(dashboard.packets) \/ Len(dashboard.packets) = MaxItems
        /\ \A c \in {"packet", "flow"} : PastRecord(p, c) => p \in Ringed(c) \/ evicted[c] > 0

\* Where a packet gets past.
LEMMA FinishesPast ==
    ASSUME Shape, SessionNext, NEW p, p \in finished'
    PROVE  \/ p \in finished
           \/ \E w \in Workers : /\ frame[w].at = "show" /\ frame[w].packet = p
                                 /\ frame[w].todo = << >>
<1>1. \A w \in Workers : End(w) => /\ finished' = finished \cup {frame[w].packet}
                                   /\ frame[w].at = "show" /\ frame[w].todo = << >>
  BY DEF End
<1> QED
  BY <1>1, WhoFinishes

LEMMA GetsPast ==
    ASSUME Shape, SessionNext, NEW p
    PROVE  /\ Past(p, AfterIngest)' =>
                 Past(p, AfterIngest) \/ \E w \in Workers : Ingest(w) /\ frame[w].packet = p
           /\ Past(p, AfterCorrelate)' =>
                 Past(p, AfterCorrelate) \/ \E w \in Workers : Correlate(w) /\ frame[w].packet = p
           /\ Past(p, AfterCount)' =>
                 Past(p, AfterCount) \/ \E w \in Workers : AddPacket(w) /\ frame[w].packet = p
<1>1. CASE p \in finished'
  BY <1>1, FinishesPast DEF Past, AfterIngest, AfterCorrelate, AfterCount
<1>2. ASSUME NEW w \in Workers, frame'[w].packet = p, p \notin finished'
      PROVE  /\ frame'[w].at \in AfterIngest =>
                 Past(p, AfterIngest) \/ (Ingest(w) /\ frame[w].packet = p)
             /\ frame'[w].at \in AfterCorrelate =>
                 Past(p, AfterCorrelate) \/ (Correlate(w) /\ frame[w].packet = p)
             /\ frame'[w].at \in AfterCount =>
                 Past(p, AfterCount) \/ (AddPacket(w) /\ frame[w].packet = p)
  BY <1>2, FrameComes, IdleFrame DEF From, SamePacket, Past, AfterIngest, AfterCorrelate, AfterCount
<1> QED
  BY <1>1, <1>2 DEF Past, AfterIngest, AfterCorrelate, AfterCount

LEMMA GetsPastRecord ==
    ASSUME Shape, SessionNext, NEW p, NEW c \in {"packet", "flow"}, PastRecord(p, c)'
    PROVE  \/ PastRecord(p, c)
           \/ \E w \in Workers : Show(w) /\ frame[w].packet = p /\ Head(frame[w].todo) = c
<1>1. CASE p \in finished'
  BY <1>1, FinishesPast DEF PastRecord, AfterCorrelate, ToSet
<1>2. ASSUME NEW w \in Workers, frame'[w].packet = p, frame'[w].at \in AfterCorrelate,
             c \notin ToSet(frame'[w].todo)
      PROVE  \/ PastRecord(p, c) \/ (Show(w) /\ frame[w].packet = p /\ Head(frame[w].todo) = c)
  <2>1. CASE /\ Show(w) /\ From(w, "show", "show") /\ SamePacket(w)
             /\ frame[w].todo # << >> /\ frame'[w].todo = Tail(frame[w].todo)
    <3>1. frame[w].todo \in Seq(Categories)
      BY DEF Shape, Frames
    <3>2. Range(frame[w].todo) = {Head(frame[w].todo)} \cup Range(Tail(frame[w].todo))
      BY <2>1, <3>1, RangeTail
    <3>3. Range(frame[w].todo) = ToSet(frame[w].todo)
          /\ Range(Tail(frame[w].todo)) = ToSet(Tail(frame[w].todo))
      BY DEF Range, ToSet
    <3>4. c \in ToSet(frame[w].todo) => Head(frame[w].todo) = c
      BY <1>2, <2>1, <3>2, <3>3
    <3> QED
      BY <1>2, <2>1, <3>4 DEF PastRecord, From, SamePacket, AfterCorrelate
  <2>2. CASE frame'[w] = frame[w]
    BY <1>2, <2>2 DEF PastRecord
  <2>3. CASE From(w, "count", "alert") /\ SamePacket(w) /\ SameTodo(w)
    BY <1>2, <2>3 DEF PastRecord, From, SamePacket, SameTodo, AfterCorrelate
  <2>4. CASE From(w, "alert", "show") /\ SamePacket(w) /\ SameTodo(w)
    BY <1>2, <2>4 DEF PastRecord, From, SamePacket, SameTodo, AfterCorrelate
  <2>5. CASE {"packet", "flow"} \subseteq ToSet(frame'[w].todo)
    BY <1>2, <2>5
  <2> QED
    BY <1>2, <2>1, <2>2, <2>3, <2>4, <2>5, FrameComes, IdleFrame DEF From, AfterCorrelate
<1> QED
  BY <1>1, <1>2 DEF PastRecord, AfterCorrelate

\* A packet that is untouched was so before, or is just begun.
LEMMA UntouchedComes ==
    ASSUME Shape, SessionNext, Shape', Orderly, Met, NEW p \in Untouched'
    PROVE  \/ p \in Untouched /\ (UNCHANGED reset \/ ResetDashboard)
           \/ /\ ~ Past(p, AfterIngest)' /\ ~ Past(p, AfterCorrelate)' /\ ~ Past(p, AfterCount)'
              /\ \A c \in {"packet", "flow"} : ~ PastRecord(p, c)'
<1>1. swept \subseteq swept' /\ disturbed \subseteq disturbed'
  BY StaysMet
<1>2. CASE p \in taken
  <2>1. p \in Untouched
    BY <1>1, <1>2 DEF Untouched
  <2>2. reset.at = "idle"
    BY <2>1 DEF Untouched, Met
  <2> QED
    BY <2>1, <2>2, ResetAtMoves
<1>3. CASE p \notin taken
  <2>1. PICK v \in Workers : Begin(v, p)
    BY <1>3, WhoTakes DEF Untouched, Begin
  <2>2. From(v, "idle", "enrich") /\ frame'[v].packet = p /\ finished' = finished
    BY <2>1, BeginMoves DEF Begin
  <2>3. p \notin finished'
    BY <1>3, <2>2 DEF Orderly
  <2>4. ASSUME NEW w \in Workers, frame'[w].packet = p PROVE frame'[w].at \in {"enrich", "idle"}
    <3>1. CASE w = v
      BY <2>2, <3>1 DEF From
    <3>2. CASE w # v
      <4>1. frame'[w] = frame[w]
        BY <2>2, <3>2 DEF From, Alone
      <4> QED
        BY <1>3, <2>4, <4>1 DEF Shape, Busy
    <3> QED
      BY <3>1, <3>2
  <2> QED
    BY <2>3, <2>4 DEF Past, PastRecord, AfterIngest, AfterCorrelate, AfterCount
<1> QED
  BY <1>2, <1>3

\* While no reset has met a packet, no reset is going on.
LEMMA QuietAround ==
    ASSUME Shape, SessionNext, Shape', Orderly, Met, NEW p \in Untouched', p \in Untouched
    PROVE  /\ UNCHANGED reset
           /\ ~ ResetDashboard /\ ~ ResetFlowTable /\ ~ ResetRing /\ ~ ResetIncidents
<1>1. Met'
  BY StaysMet
<1>2. reset.at = "idle" /\ reset'.at = "idle"
  BY <1>1 DEF Untouched, Met
<1>3. ~ ResetDashboard
  BY <1>2 DEF ResetDashboard
<1> QED
  BY <1>2, <1>3, ResetAtMoves DEF ResetFlowTable, ResetRing, ResetIncidents

\* What the list of packets holds is in it, unless it is full.
Listed(p) == p \in ToSet(dashboard.packets) \/ Len(dashboard.packets) = MaxItems
Cut == dashboard \in Dashboards /\ Len(dashboard.packets) <= MaxItems

LEMMA AddPacketLists ==
    ASSUME Shape, Cut, NEW w \in Workers, AddPacket(w)
    PROVE  /\ Len(dashboard'.packets) <= MaxItems
           /\ dashboard'.counted = dashboard.counted \cup {frame[w].packet}
           /\ \A p : Listed(p) \/ p = frame[w].packet => Listed(p)'
<1> DEFINE x == frame[w].packet
           old == dashboard.packets
           new == dashboard'.packets
<1>1. x \in Nat /\ old \in Seq(Nat) /\ Len(old) \in Nat /\ Len(old) <= MaxItems
  BY LenProperties DEF Shape, Frames, Cut, Dashboards
<1>2. dashboard' = [dashboard EXCEPT !.packets = InFront(<<x>>, @), !.counted = @ \cup {x}]
  BY DEF AddPacket
<1>3. new = InFront(<<x>>, old) /\ dashboard'.counted = dashboard.counted \cup {x}
  BY <1>2 DEF Cut, Dashboards
<1> HIDE DEF x, old, new
<1>4. <<x>> \in Seq(Nat) /\ Len(<<x>>) = 1 /\ ToSet(<<x>>) = {x}
  BY <1>1 DEF ToSet
<1>5. /\ Len(new) = AtMost(MaxItems, Len(<<x>>) + Len(old))
      /\ Len(<<x>>) + Len(old) <= MaxItems => ToSet(new) = ToSet(<<x>>) \cup ToSet(old)
  <2> DEFINE one == <<x>>
  <2>1. one \in Seq(Nat) /\ new = InFront(one, old)
    BY <1>3, <1>4
  <2> HIDE DEF one
  <2>2. /\ Len(new) = AtMost(MaxItems, Len(one) + Len(old))
        /\ Len(one) + Len(old) <= MaxItems => ToSet(new) = ToSet(one) \cup ToSet(old)
    <3>1. \A l, i \in Seq(Nat) :
              /\ Len(InFront(l, i)) = AtMost(MaxItems, Len(l) + Len(i))
              /\ Len(l) + Len(i) <= MaxItems => ToSet(InFront(l, i)) = ToSet(l) \cup ToSet(i)
      BY InFrontIs
    <3> QED
      BY <1>1, <2>1, <3>1
  <2> QED
    BY <2>2 DEF one
<1>6. \/ Len(new) = MaxItems
      \/ Len(new) <= MaxItems /\ Len(old) # MaxItems /\ ToSet(new) = {x} \cup ToSet(old)
  BY <1>1, <1>4, <1>5, ItemsAssumption DEF AtMost
<1>7. MaxItems <= MaxItems
  BY ItemsAssumption
<1> QED
  BY <1>3, <1>6, <1>7 DEF Listed, x, old, new

LEMMA StaysListed ==
    ASSUME Shape, SessionNext, Cut
    PROVE  /\ Cut'
           /\ ~ ResetDashboard =>
                 \A p : /\ Listed(p) => Listed(p)'
                        /\ p \in dashboard.counted => p \in dashboard'.counted
<1>1. dashboard' \in Dashboards
  BY DashboardStays DEF Cut
<1>2. CASE UNCHANGED dashboard
  BY <1>1, <1>2 DEF Cut, Listed
<1>3. CASE ResetDashboard
  <2>1. Len(dashboard'.packets) = 0
    BY <1>3 DEF ResetDashboard, Empty
  <2> QED
    BY <1>1, <1>3, <2>1, ItemsAssumption DEF Cut
<1>4. ASSUME NEW w \in Workers, AddPacket(w)
      PROVE  /\ Cut'
             /\ \A p : /\ Listed(p) => Listed(p)'
                       /\ p \in dashboard.counted => p \in dashboard'.counted
  BY <1>1, <1>4, AddPacketLists DEF Cut
<1>5. ASSUME dashboard'.packets = dashboard.packets, dashboard'.counted = dashboard.counted
      PROVE  /\ Cut'
             /\ \A p : /\ Listed(p) => Listed(p)'
                       /\ p \in dashboard.counted => p \in dashboard'.counted
  BY <1>1, <1>5 DEF Cut, Listed
<1> QED
  BY <1>2, <1>3, <1>4, <1>5, DashboardStays DEF Cut

\* A record of p is in the ring, unless records were evicted.
Recorded(p, c) == p \in Ringed(c) \/ evicted[c] > 0

LEMMA StaysRecorded ==
    ASSUME Shape, RingTyped, SessionNext, ~ ResetRing, NEW c \in Categories, NEW p, Recorded(p, c)
    PROVE  Recorded(p, c)'
<1>1. ring[c] \in Seq(Shown) /\ Len(ring[c]) \in Nat /\ evicted[c] \in Nat
      /\ DOMAIN ring[c] = 1 .. Len(ring[c])
  BY RingTypedEntries
<1>2. PICK r \in Seq(Shown) :
          /\ Ends(r, ring[c]) /\ evicted'[c] = evicted[c] + Len(ring[c]) - Len(r)
          /\ ring'[c] = r \/ \E x \in Shown : ring'[c] = Append(r, x)
  BY RingSteps DEF RingStep, Appends
<1>3. Len(r) \in 0 .. Len(ring[c]) /\ DOMAIN r = 1 .. Len(r)
  BY <1>2, LenProperties DEF Ends
<1>4. CASE evicted'[c] > 0
  BY <1>4 DEF Recorded
<1>5. CASE ~ evicted'[c] > 0
  <2>1. Len(r) = Len(ring[c]) /\ ~ evicted[c] > 0
    BY <1>1, <1>2, <1>3, <1>5
  <2>2. PICK k \in DOMAIN ring[c] : ring[c][k].content.packet = p
    BY <2>1 DEF Recorded, Ringed
  <2>3. k \in 1 .. Len(r) /\ r[k] = ring[c][k]
    BY <1>1, <1>2, <1>3, <2>1 DEF Ends
  <2>4. k \in DOMAIN ring'[c] /\ ring'[c][k] = r[k]
    <3>1. CASE ring'[c] = r
      BY <1>3, <2>3, <3>1
    <3>2. ASSUME NEW x \in Shown, ring'[c] = Append(r, x)
          PROVE  k \in DOMAIN ring'[c] /\ ring'[c][k] = r[k]
      <4>1. DOMAIN ring'[c] = 1 .. Len(r) + 1 /\ \A n \in 1 .. Len(r) : ring'[c][n] = r[n]
        BY <1>2, <3>2, AppendProperties, LenProperties, SMTT(40)
      <4> QED
        BY <1>3, <2>3, <4>1
    <3> QED
      BY <1>2, <3>1, <3>2
  <2> QED
    BY <2>2, <2>3, <2>4 DEF Recorded, Ringed
<1> QED
  BY <1>4, <1>5

LEMMA ShowRecords ==
    ASSUME Shape, RingTyped, NEW w \in Workers, Show(w), NEW c \in Categories,
           c = Head(frame[w].todo)
    PROVE  frame[w].packet \in Ringed(c)'
<1>1. PICK r \in Seq(Shown), x \in Shown : x.content = Content(w) /\ ring'[c] = Append(r, x)
  BY ShowRings DEF Appends
<1>2. /\ DOMAIN ring'[c] = 1 .. Len(r) + 1 /\ Len(r) \in Nat /\ ring'[c][Len(r) + 1] = x
  BY <1>1, AppendProperties, LenProperties
<1>3. ring'[c][Len(r) + 1].content.packet = frame[w].packet /\ Len(r) + 1 \in DOMAIN ring'[c]
  BY <1>1, <1>2 DEF Content
<1> QED
  BY <1>3 DEF Ringed

LEMMA StaysSeen ==
    ASSUME Shape, Shape', RingTyped, SessionNext, Orderly, Met, Cut, Seen
    PROVE  Seen'
<1> SUFFICES ASSUME NEW p \in Untouched'
             PROVE  /\ Past(p, AfterIngest)' => p \in ToSet(log')
                    /\ Past(p, AfterCorrelate)' => p \in signalled'
                    /\ Past(p, AfterCount)' => p \in dashboard'.counted /\ Listed(p)'
                    /\ \A c \in {"packet", "flow"} : PastRecord(p, c)' => Recorded(p, c)'
  BY DEF Seen, Listed, Recorded
<1>1. CASE p \notin Untouched
  BY <1>1, UntouchedComes
<1>2. CASE p \in Untouched
  <2>1. ~ ResetDashboard /\ ~ ResetFlowTable /\ ~ ResetRing /\ ~ ResetIncidents
    BY <1>2, QuietAround
  <2>2. /\ Past(p, AfterIngest) => p \in ToSet(log)
        /\ Past(p, AfterCorrelate) => p \in signalled
        /\ Past(p, AfterCount) => p \in dashboard.counted /\ Listed(p)
        /\ \A c \in {"packet", "flow"} : PastRecord(p, c) => Recorded(p, c)
    BY <1>2 DEF Seen, Listed, Recorded
  <2>3. ASSUME Past(p, AfterIngest)' PROVE p \in ToSet(log')
    <3>1. \A w \in Workers : Ingest(w) => ToSet(log') = ToSet(log) \cup {frame[w].packet}
      BY IngestLogs
    <3>2. ToSet(log) \subseteq ToSet(log')
      BY <2>1, <3>1, LogGrows
    <3> QED
      BY <2>2, <2>3, <3>1, <3>2, GetsPast
  <2>4. ASSUME Past(p, AfterCorrelate)' PROVE p \in signalled'
    <3>1. \A w \in Workers : Correlate(w) => signalled' = signalled \cup {frame[w].packet}
      BY DEF Correlate
    <3>2. signalled \subseteq signalled'
      BY <2>1, <3>1, WhoSignals
    <3> QED
      BY <2>2, <2>4, <3>1, <3>2, GetsPast
  <2>5. ASSUME Past(p, AfterCount)' PROVE p \in dashboard'.counted /\ Listed(p)'
    BY <2>1, <2>2, <2>5, GetsPast, AddPacketLists, StaysListed
  <2>6. ASSUME NEW c \in {"packet", "flow"}, PastRecord(p, c)' PROVE Recorded(p, c)'
    <3>1. c \in Categories
      BY RingAssumption
    <3>2. CASE PastRecord(p, c)
      BY <2>1, <2>2, <3>1, <3>2, StaysRecorded
    <3>3. ASSUME NEW w \in Workers, Show(w), frame[w].packet = p, Head(frame[w].todo) = c
          PROVE  Recorded(p, c)'
      BY <3>1, <3>3, ShowRecords DEF Recorded
    <3> QED
      BY <2>6, <3>2, <3>3, GetsPastRecord
  <2> QED
    BY <2>3, <2>4, <2>5, <2>6
<1> QED
  BY <1>1, <1>2

LEMMA SeenIsEverywhere ==
    ASSUME Seen, Orderly
    PROVE  SeenEverywhere
  BY DEF Seen, Orderly, SeenEverywhere, Untouched, Past, PastRecord

-----------------------------------------------------------------------------
(* The live ring keeps the order *)

\* The copy of a flow was taken at a time of its table; a later copy counts more.
SameConversation(p, q) == ConversationOf(traffic[p]) = ConversationOf(traffic[q])
SameFlow(p, q) == FlowId(traffic[p]) = FlowId(traffic[q])
Earlier(a, b) == a.era < b.era \/ (a.era = b.era /\ a.count < b.count)
Bounded(x) ==
    /\ x.era <= era
    /\ x.era = era => /\ FlowId(traffic[x.packet]) \in DOMAIN flows
                      /\ x.count <= flows[FlowId(traffic[x.packet])].packets

\* The records that every packet makes; what the ring shows of them.
Ordinary == {"packet", "flow"}
Entered(c) == {ring[c][k].content : k \in DOMAIN ring[c]}
\* Worker w has a record of category c still to show.
Owes(w, c) == Busy(w) /\ (frame[w].at \in {"enrich", "ingest", "correlate"} \/ c \in ToSet(frame[w].todo))
\* Worker w has a copy of the flow of its packet.
HasCopy(w) == frame[w].at \in AfterIngest

\* A record in the ring is older than what any worker is going to show.
Behind(c, a) ==
    /\ a \in Contents /\ a.packet \in taken /\ Bounded(a)
    /\ \A w \in Workers :
          /\ Owes(w, c) => a.packet # frame[w].packet
          /\ HasCopy(w) /\ a.packet # frame[w].packet /\ SameFlow(a.packet, frame[w].packet)
             => Earlier(a, Content(w))
\* Copies are bounded, and the ring is behind every worker.
Abreast ==
    /\ \A w \in Workers : Once(frame[w].todo)
    /\ \A w \in Workers : HasCopy(w) => Bounded(Content(w))
    /\ \A c \in Ordinary : \A a \in Entered(c) : Behind(c, a)

LEMMA OnceTail ==
    ASSUME NEW S, NEW s \in Seq(S), s # << >>, Once(s)
    PROVE  Once(Tail(s)) /\ (Head(s) \in Ordinary => Head(s) \notin ToSet(Tail(s)))
<1>1. /\ Len(s) \in Nat /\ Len(s) >= 1 /\ DOMAIN s = 1 .. Len(s) /\ Head(s) = s[1]
      /\ DOMAIN Tail(s) = 1 .. Len(s) - 1
      /\ \A k \in 1 .. Len(s) - 1 : Tail(s)[k] = s[k + 1] /\ k + 1 \in 1 .. Len(s)
  BY LenProperties, HeadTailProperties
<1>2. Once(Tail(s))
  <2> SUFFICES ASSUME NEW i \in 1 .. Len(s) - 1, NEW j \in 1 .. Len(s) - 1, i < j,
                      Tail(s)[i] = Tail(s)[j]
               PROVE  Tail(s)[i] \notin {"packet", "flow"}
    BY <1>1 DEF Once
  <2>1. i + 1 \in DOMAIN s /\ j + 1 \in DOMAIN s /\ i + 1 < j + 1 /\ s[i + 1] = s[j + 1]
    BY <1>1
  <2>2. s[i + 1] \notin {"packet", "flow"}
    BY <2>1 DEF Once
  <2> QED
    BY <1>1, <2>2
<1>3. ASSUME NEW k \in 1 .. Len(s) - 1, Tail(s)[k] = Head(s) PROVE Head(s) \notin Ordinary
  <2>1. 1 \in DOMAIN s /\ k + 1 \in DOMAIN s /\ 1 < k + 1 /\ s[1] = s[k + 1]
    BY <1>1, <1>3
  <2> QED
    BY <1>1, <2>1 DEF Once, Ordinary
<1> QED
  BY <1>1, <1>2, <1>3 DEF ToSet

LEMMA StaysOnce ==
    ASSUME Shape, SessionNext, Abreast
    PROVE  \A w \in Workers : Once(frame'[w].todo)
<1> SUFFICES ASSUME NEW w \in Workers PROVE Once(frame'[w].todo)
  OBVIOUS
<1>1. Once(frame[w].todo) /\ frame[w].todo \in Seq(Categories)
  BY DEF Abreast, Shape, Frames
<1>2. Once(<< >>)
  BY DEF Once
<1>3. frame[w].todo # << >> => Once(Tail(frame[w].todo))
  BY <1>1, OnceTail
<1> QED
  BY <1>1, <1>2, <1>3, FrameComes, IdleFrame DEF SameTodo

LEMMA IngestCounts ==
    ASSUME Shape, NEW w \in Workers, Ingest(w)
    PROVE  LET id == FlowId(traffic[frame[w].packet])
           IN  /\ era' = era /\ DOMAIN flows' = DOMAIN flows \cup {id}
               /\ \A d \in DOMAIN flows \ {id} : flows'[d] = flows[d]
               /\ id \in DOMAIN flows => flows'[id].packets = flows[id].packets + 1
               /\ flows'[id].packets \in Nat
               /\ frame'[w].era = era /\ frame'[w].flow = flows'[id].packets
<1> DEFINE p == frame[w].packet
           q == Mine(w)
           id == FlowId(q)
<1>1. /\ frame'[w].era = era /\ frame'[w].flow = flows'[id].packets
      /\ PacketTyped(q) /\ SameBut(q, traffic[p]) /\ era' = era
      /\ Advances(Base(p, q), p, q, id \notin DOMAIN flows, flows'[id])
      /\ FlowTyped(flows'[id]) /\ DOMAIN flows' = DOMAIN flows \cup {id}
      /\ \A d \in DOMAIN flows \ {id} : flows'[d] = flows[d]
  BY IngestMoves
<1>2. id = FlowId(traffic[p])
  BY <1>1 DEF SameBut
<1>3. flows'[id].packets = Base(p, q).packets + 1 /\ flows'[id].packets \in Nat
  BY <1>1 DEF Advances, FlowTyped
<1>4. id \in DOMAIN flows => Base(p, q) = flows[id]
  BY DEF Base
<1> QED
  BY <1>1, <1>2, <1>3, <1>4

\* What is bounded stays so: the table counts up, or is another one.
LEMMA StaysBounded ==
    ASSUME Shape, SessionNext, NEW x \in Contents, x.packet \in Arrivals, Bounded(x)
    PROVE  Bounded(x)'
<1>1. traffic' = traffic /\ era \in Nat /\ x.era \in Nat /\ x.count \in Nat
  BY StaysShaped DEF Shape, Contents
<1> DEFINE id == FlowId(traffic[x.packet])
<1>2. /\ x.era <= era
      /\ x.era = era => id \in DOMAIN flows /\ x.count <= flows[id].packets
  BY DEF Bounded
<1> HIDE DEF id
<1>3. SUFFICES /\ x.era <= era'
               /\ x.era = era' => id \in DOMAIN flows' /\ x.count <= flows'[id].packets
  BY <1>1 DEF Bounded, id
<1>4. CASE UNCHANGED <<flowVars, log, era>>
  BY <1>2, <1>4 DEF flowVars
<1>5. ASSUME NEW w \in Workers, Ingest(w)
      PROVE  /\ x.era <= era'
             /\ x.era = era' => id \in DOMAIN flows' /\ x.count <= flows'[id].packets
  <2> DEFINE d == FlowId(traffic[frame[w].packet])
  <2>1. /\ era' = era /\ DOMAIN flows' = DOMAIN flows \cup {d}
        /\ \A i \in DOMAIN flows \ {d} : flows'[i] = flows[i]
        /\ d \in DOMAIN flows => flows'[d].packets = flows[d].packets + 1
    BY <1>5, IngestCounts
  <2> HIDE DEF d
  <2>2. d \in DOMAIN flows => flows[d].packets \in Nat
    BY DEF Shape, FlowsTyped, FlowTyped
  <2> QED
    BY <1>1, <1>2, <2>1, <2>2
<1>6. CASE ResetFlowTable
  BY <1>1, <1>2, <1>6 DEF ResetFlowTable
<1> QED
  BY <1>4, <1>5, <1>6, WhoIngests

\* A worker that has a copy had it, or takes it from the table now.
LEMMA CopyComes ==
    ASSUME Shape, SessionNext, NEW w \in Workers, HasCopy(w)'
    PROVE  /\ frame'[w].packet = frame[w].packet /\ Busy(w)
           /\ \/ HasCopy(w) /\ Content(w)' = Content(w)
              \/ Ingest(w)
<1>1. \/ /\ HasCopy(w) /\ frame'[w].packet = frame[w].packet /\ frame'[w].era = frame[w].era
         /\ frame'[w].flow = frame[w].flow
      \/ Ingest(w) /\ frame'[w].packet = frame[w].packet
  BY FrameComes, IdleFrame DEF HasCopy, AfterIngest, From, SamePacket, SameCopy
<1>2. HasCopy(w) \/ Ingest(w) => Busy(w)
  BY DEF HasCopy, Busy, AfterIngest, Ingest
<1> QED
  BY <1>1, <1>2 DEF Content

LEMMA ContentIs ==
    ASSUME Shape, NEW w \in Workers
    PROVE  /\ Content(w) \in Contents /\ Content(w).packet = frame[w].packet
           /\ Content(w).era = frame[w].era /\ Content(w).count = frame[w].flow
           /\ Busy(w) => Content(w).packet \in taken /\ Content(w).packet \in Arrivals
<1>1. frame[w] \in Frames /\ (Busy(w) => frame[w].packet \in taken /\ frame[w].packet \in Arrivals)
  BY DEF Shape
<1> QED
  BY <1>1 DEF Contents, Content, Frames

LEMMA CopiesStayBounded ==
    ASSUME Shape, SessionNext, Abreast
    PROVE  \A w \in Workers : HasCopy(w)' => Bounded(Content(w))'
<1> SUFFICES ASSUME NEW w \in Workers, HasCopy(w)' PROVE Bounded(Content(w))'
  OBVIOUS
<1>1. CASE HasCopy(w) /\ Content(w)' = Content(w)
  <2>1. PICK x \in Contents : x = Content(w) /\ x.packet \in Arrivals
    BY ContentIs, CopyComes
  <2>2. Bounded(x)'
    BY <1>1, <2>1, StaysBounded DEF Abreast
  <2> QED
    BY <1>1, <2>1, <2>2 DEF Bounded
<1>2. CASE Ingest(w) /\ frame'[w].packet = frame[w].packet
  <2>1. traffic' = traffic
    BY StaysShaped
  <2> DEFINE id == FlowId(traffic[frame[w].packet])
  <2>2. /\ era' = era /\ DOMAIN flows' = DOMAIN flows \cup {id} /\ flows'[id].packets \in Nat
        /\ frame'[w].era = era /\ frame'[w].flow = flows'[id].packets
    BY <1>2, IngestCounts
  <2>3. era \in Nat
    BY DEF Shape
  <2>4. Content(w)'.era = era' /\ Content(w)'.count = flows'[id].packets
        /\ FlowId(traffic'[Content(w)'.packet]) = id
    BY <1>2, <2>1, <2>2 DEF Content
  <2> HIDE DEF id
  <2> QED
    BY <2>2, <2>3, <2>4 DEF Bounded
<1> QED
  BY <1>1, <1>2, CopyComes

\* Two workers have no packet, and no conversation, in common.
LEMMA WorkersApart ==
    ASSUME Shape, Orderly, NEW v \in Workers, NEW w \in Workers, Busy(v), Busy(w),
           SameConversation(frame[v].packet, frame[w].packet)
    PROVE  v = w
  BY DEF Orderly, InLane, SameConversation

LEMMA OwesComes ==
    ASSUME Shape, SessionNext, NEW w \in Workers, NEW c \in Ordinary, Owes(w, c)'
    PROVE  \/ Owes(w, c) /\ frame'[w].packet = frame[w].packet
           \/ frame'[w].packet \notin taken
<1>1. frame[w].todo \in Seq(Categories)
  BY DEF Shape, Frames
<1>2. ASSUME frame[w].todo # << >> PROVE ToSet(Tail(frame[w].todo)) \subseteq ToSet(frame[w].todo)
  <2>1. Range(frame[w].todo) = {Head(frame[w].todo)} \cup Range(Tail(frame[w].todo))
    BY <1>1, <1>2, RangeTail
  <2> QED
    BY <2>1 DEF Range, ToSet
<1>3. frame'[w].at # "idle" /\ (frame'[w].at \in {"enrich", "ingest", "correlate"}
                                \/ c \in ToSet(frame'[w].todo))
  BY DEF Owes, Busy
<1>4. CASE frame'[w] = frame[w]
  BY <1>3, <1>4 DEF Owes, Busy
<1>5. CASE frame[w].at \in {"enrich", "ingest", "correlate"} /\ SamePacket(w)
  BY <1>5 DEF Owes, Busy, SamePacket
<1>6. CASE frame[w].at \in {"count", "alert"} /\ frame'[w].at \in {"alert", "show"}
           /\ SamePacket(w) /\ SameTodo(w)
  BY <1>3, <1>6 DEF Owes, Busy, SamePacket, SameTodo
<1>7. CASE From(w, "show", "show") /\ SamePacket(w) /\ frame[w].todo # << >>
           /\ frame'[w].todo = Tail(frame[w].todo)
  BY <1>2, <1>3, <1>7 DEF Owes, Busy, SamePacket, From
<1> QED
  BY <1>3, <1>4, <1>5, <1>6, <1>7, FrameComes DEF From

LEMMA StaysBehind ==
    ASSUME Shape, SessionNext, Orderly, Abreast, NEW c \in Ordinary, NEW a \in Entered(c)
    PROVE  Behind(c, a)'
<1>1. /\ a \in Contents /\ a.packet \in taken /\ Bounded(a)
      /\ \A w \in Workers :
            /\ Owes(w, c) => a.packet # frame[w].packet
            /\ HasCopy(w) /\ a.packet # frame[w].packet /\ SameFlow(a.packet, frame[w].packet)
               => Earlier(a, Content(w))
  BY DEF Abreast, Behind
<1>2. a.packet \in taken' /\ a.packet \in Arrivals /\ traffic' = traffic
  BY <1>1, StaysShaped, WhoTakes DEF Shape, Begin
<1>3. Bounded(a)'
  BY <1>1, <1>2, StaysBounded
<1>4. ASSUME NEW w \in Workers, Owes(w, c)' PROVE a.packet # frame'[w].packet
  BY <1>1, <1>4, OwesComes
<1>5. ASSUME NEW w \in Workers, HasCopy(w)', a.packet # frame'[w].packet,
             SameFlow(a.packet, frame'[w].packet)
      PROVE  Earlier(a, Content(w)')
  <2>1. frame'[w].packet = frame[w].packet /\ Busy(w)
    BY <1>5, CopyComes
  <2>2. CASE HasCopy(w) /\ Content(w)' = Content(w)
    BY <1>1, <1>5, <2>1, <2>2
  <2>3. CASE Ingest(w)
    <3> DEFINE id == FlowId(traffic[frame[w].packet])
    <3>1. /\ id \in DOMAIN flows => flows'[id].packets = flows[id].packets + 1
          /\ flows'[id].packets \in Nat /\ frame'[w].era = era /\ frame'[w].flow = flows'[id].packets
      BY <2>3, IngestCounts
    <3>2. id = FlowId(traffic[a.packet])
      BY <1>5, <2>1 DEF SameFlow
    <3>3. a.era <= era /\ (a.era = era => id \in DOMAIN flows /\ a.count <= flows[id].packets)
      BY <1>1, <3>2 DEF Bounded
    <3>4. id \in DOMAIN flows => flows[id].packets \in Nat
      BY DEF Shape, FlowsTyped, FlowTyped
    <3>5. a.era \in Nat /\ a.count \in Nat /\ era \in Nat
      BY <1>1 DEF Contents, Shape
    <3>6. Content(w)'.era = era /\ Content(w)'.count = flows'[id].packets
      BY <3>1 DEF Content
    <3> HIDE DEF id
    <3> QED
      BY <3>1, <3>3, <3>4, <3>5, <3>6 DEF Earlier
  <2> QED
    BY <1>5, <2>2, <2>3, CopyComes
<1>6. \A w \in Workers : SameFlow(a.packet, frame[w].packet)' <=> SameFlow(a.packet, frame'[w].packet)
  BY <1>2 DEF SameFlow
<1>7. Contents' = Contents
  BY DEF Contents
<1> QED
  BY <1>1, <1>2, <1>3, <1>4, <1>5, <1>6, <1>7 DEF Behind, Earlier

LEMMA ShownBehind ==
    ASSUME Shape, SessionNext, Orderly, Abreast, NEW c \in Ordinary, NEW w \in Workers, Show(w),
           c = Head(frame[w].todo), NEW a, a = Content(w)
    PROVE  Behind(c, a)'
<1>1. /\ From(w, "show", "show") /\ SamePacket(w) /\ SameCopy(w) /\ frame[w].todo # << >>
      /\ frame'[w].todo = Tail(frame[w].todo)
  BY ShowMoves
<1>2. Busy(w) /\ HasCopy(w)
  BY <1>1 DEF From, Busy, HasCopy, AfterIngest
<1>3. a \in Contents /\ a.packet = frame[w].packet /\ a.packet \in taken /\ a.packet \in Arrivals
  BY <1>2, ContentIs
<1>4. taken' = taken /\ traffic' = traffic
  BY StaysShaped DEF Show
<1>5. Bounded(a)'
  <2>1. Bounded(a)
    BY <1>2 DEF Abreast
  <2> QED
    BY <1>3, <2>1, StaysBounded
<1>6. c \notin ToSet(frame'[w].todo)
  <2>1. frame[w].todo \in Seq(Categories) /\ Once(frame[w].todo)
    BY DEF Shape, Frames, Abreast
  <2> QED
    BY <1>1, <2>1, OnceTail
<1>7. ASSUME NEW v \in Workers \ {w} PROVE frame'[v] = frame[v]
  BY <1>1 DEF From, Alone
<1>8. ASSUME NEW v \in Workers, Owes(v, c)' PROVE a.packet # frame'[v].packet
  <2>1. v # w
    BY <1>1, <1>6, <1>8 DEF Owes, From
  <2>2. Busy(v) /\ frame'[v] = frame[v]
    BY <1>7, <1>8, <2>1 DEF Owes, Busy
  <2> QED
    BY <1>2, <1>3, <2>1, <2>2, WorkersApart DEF SameConversation
<1>9. ASSUME NEW v \in Workers, HasCopy(v)', a.packet # frame'[v].packet,
             SameFlow(a.packet, frame'[v].packet)
      PROVE  FALSE
  <2>1. v # w
    BY <1>1, <1>3, <1>9 DEF SamePacket
  <2>2. Busy(v) /\ frame'[v] = frame[v]
    BY <1>7, <1>9, <2>1 DEF HasCopy, AfterIngest, Busy
  <2>3. SameConversation(frame[v].packet, frame[w].packet)
    BY <1>3, <1>9, <2>2, FlowConverses DEF SameFlow, SameConversation
  <2> QED
    BY <1>2, <2>1, <2>2, <2>3, WorkersApart
<1>10. \A v \in Workers : SameFlow(a.packet, frame[v].packet)' <=> SameFlow(a.packet, frame'[v].packet)
  BY <1>4 DEF SameFlow
<1>11. Contents' = Contents
  BY DEF Contents
<1> QED
  BY <1>3, <1>4, <1>5, <1>8, <1>9, <1>10, <1>11 DEF Behind

LEMMA StaysAbreast ==
    ASSUME Shape, RingTyped, SessionNext, Orderly, Abreast
    PROVE  Abreast'
<1>1. ASSUME NEW c \in Ordinary, NEW a \in Entered(c)' PROVE Behind(c, a)'
  <2>1. c \in Categories
    BY RingAssumption DEF Ordinary
  <2>2. PICK k \in DOMAIN ring'[c] : a = ring'[c][k].content
    BY DEF Entered
  <2>3. CASE \E n \in DOMAIN ring[c] : ring'[c][k] = ring[c][n]
    <3>1. a \in Entered(c)
      BY <2>2, <2>3 DEF Entered
    <3> QED
      BY <3>1, StaysBehind
  <2>4. CASE \E w \in Workers : Show(w) /\ c = Head(frame[w].todo) /\ ring'[c][k].content = Content(w)
    BY <2>2, <2>4, ShownBehind
  <2> QED
    BY <2>1, <2>3, <2>4, RingSteps, RingedComes
<1>2. Ordinary' = Ordinary
  BY DEF Ordinary
<1> QED
  BY <1>1, <1>2, StaysOnce, CopiesStayBounded DEF Abreast

\* a is shown before b.
InSequence(a, b) ==
    SameConversation(a.packet, b.packet) => a.packet < b.packet /\ (SameFlow(a.packet, b.packet) => Earlier(a, b))

LEMMA ShownInSequence ==
    ASSUME Shape, Orderly, Abreast, NEW c \in Ordinary, NEW w \in Workers, Show(w),
           c = Head(frame[w].todo), NEW a \in Entered(c)
    PROVE  InSequence(a, Content(w))
<1>1. /\ a \in Contents /\ a.packet \in taken
      /\ Owes(w, c) => a.packet # frame[w].packet
      /\ HasCopy(w) /\ a.packet # frame[w].packet /\ SameFlow(a.packet, frame[w].packet)
         => Earlier(a, Content(w))
  BY DEF Abreast, Behind
<1>2. Busy(w) /\ HasCopy(w) /\ frame[w].todo # << >>
  BY DEF Show, Busy, HasCopy, AfterIngest
<1>3. Owes(w, c)
  <2>1. frame[w].todo \in Seq(Categories)
    BY DEF Shape, Frames
  <2>2. Range(frame[w].todo) = {Head(frame[w].todo)} \cup Range(Tail(frame[w].todo))
    BY <1>2, <2>1, RangeTail
  <2> QED
    BY <1>2, <2>2 DEF Owes, Range, ToSet
<1>4. Content(w).packet = frame[w].packet /\ frame[w].packet \in Nat /\ a.packet \in Nat
  BY <1>1, ContentIs DEF Shape, Frames, Contents
<1>5. ASSUME SameConversation(a.packet, frame[w].packet) PROVE a.packet < frame[w].packet
  <2>1. InLane(w, a.packet)
    BY <1>2, <1>5 DEF Orderly, InLane, SameConversation
  <2>2. a.packet <= frame[w].packet
    BY <1>1, <1>2, <2>1 DEF Orderly
  <2> QED
    BY <1>1, <1>3, <1>4, <2>2
<1> QED
  BY <1>1, <1>2, <1>3, <1>4, <1>5 DEF InSequence

LEMMA InOrderIs ==
    StaysInOrder <=> \A c \in Ordinary : \A i, j \in DOMAIN ring[c] :
                        i < j => InSequence(ring[c][i].content, ring[c][j].content)
  BY DEF StaysInOrder, Ordinary, InSequence, SameConversation, SameFlow, Earlier

LEMMA OrderStays ==
    ASSUME Shape, RingTyped, SessionNext, Orderly, Abreast, StaysInOrder
    PROVE  StaysInOrder'
<1>1. traffic' = traffic
  BY StaysShaped
<1>2. ASSUME NEW c \in Ordinary, NEW i \in DOMAIN ring'[c], NEW j \in DOMAIN ring'[c], i < j
      PROVE  InSequence(ring'[c][i].content, ring'[c][j].content)
  <2>0. c \in Categories
    BY RingAssumption DEF Ordinary
  <2>1. /\ Len(ring[c]) \in Nat /\ DOMAIN ring[c] = 1 .. Len(ring[c])
        /\ \A m, n \in DOMAIN ring[c] : m < n => InSequence(ring[c][m].content, ring[c][n].content)
    BY <2>0, RingTypedEntries, InOrderIs
  <2>2. PICK r \in Seq(Shown) :
            /\ Ends(r, ring[c])
            /\ ring'[c] = r \/ \E w \in Workers : \E x \in Shown : Appends(w, c, r, x)
    BY <2>0, RingSteps DEF RingStep
  <2>3. DOMAIN r = 1 .. Len(r) /\ Len(r) \in Nat
    BY <2>2, LenProperties
  <2>4. ASSUME NEW k \in 1 .. Len(r)
        PROVE  k + (Len(ring[c]) - Len(r)) \in DOMAIN ring[c]
               /\ r[k] = ring[c][k + (Len(ring[c]) - Len(r))]
    BY <2>2, <2>3 DEF Ends
  <2>5. ASSUME NEW m \in 1 .. Len(r), NEW n \in 1 .. Len(r), m < n
        PROVE  InSequence(r[m].content, r[n].content)
    <3>1. m + (Len(ring[c]) - Len(r)) < n + (Len(ring[c]) - Len(r))
      BY <2>1, <2>3, <2>5
    <3> QED
      BY <2>1, <2>4, <3>1
  <2>6. CASE ring'[c] = r
    BY <1>2, <2>3, <2>5, <2>6
  <2>7. ASSUME NEW w \in Workers, NEW x \in Shown, Appends(w, c, r, x)
        PROVE  InSequence(ring'[c][i].content, ring'[c][j].content)
    <3>1. Show(w) /\ c = Head(frame[w].todo) /\ x.content = Content(w) /\ ring'[c] = Append(r, x)
      BY <2>7 DEF Appends
    <3>2. /\ DOMAIN ring'[c] = 1 .. Len(r) + 1 /\ ring'[c][Len(r) + 1] = x
          /\ \A n \in 1 .. Len(r) : ring'[c][n] = r[n]
      BY <2>2, <3>1, AppendProperties, LenProperties
    <3>3. CASE j \in 1 .. Len(r)
      <4>1. i \in 1 .. Len(r)
        BY <1>2, <2>3, <3>2, <3>3
      <4> QED
        BY <1>2, <2>5, <3>2, <3>3, <4>1
    <3>4. CASE j = Len(r) + 1
      <4>1. i \in 1 .. Len(r)
        BY <1>2, <2>3, <3>2, <3>4
      <4>2. r[i].content \in Entered(c)
        BY <2>4, <4>1, SMTT(40) DEF Entered
      <4> QED
        BY <3>1, <3>2, <3>4, <4>1, <4>2, ShownInSequence
    <3> QED
      BY <2>3, <3>2, <3>3, <3>4
  <2> QED
    BY <2>2, <2>6, <2>7
<1>3. SUFFICES \A c \in Ordinary : \A i, j \in DOMAIN ring'[c] :
                   i < j => InSequence(ring'[c][i].content, ring'[c][j].content)
  BY <1>1 DEF StaysInOrder, Ordinary, InSequence, SameConversation, SameFlow, Earlier
<1> QED
  BY <1>2

-----------------------------------------------------------------------------
(* The views of a session agree *)

\* The invariant of the views.
Viewing ==
    /\ RingTyped /\ Orderly /\ Met /\ Cut
    /\ Forgotten /\ Seen /\ Abreast /\ StaysInOrder

LEMMA BeginsViewing ==
    ASSUME SessionInit
    PROVE  Viewing
<1>1. /\ taken = {} /\ frame = [w \in Workers |-> Idle] /\ swept = {} /\ disturbed = {}
      /\ reset = [at |-> "idle", count |-> 0] /\ dashboard = Empty
      /\ ring = [c \in Categories |-> << >>]
  BY DEF SessionInit, RingInit
<1>2. RingTyped
  BY BeginsCounting DEF Counting
<1>3. Orderly
  BY BeginsOrderly
<1>4. Met
  BY <1>1 DEF Met, Resets, ResetPlaces
<1>5. Cut
  BY <1>1, ItemsAssumption DEF Cut, Dashboards, Empty
<1>6. Forgotten /\ Seen
  BY <1>1 DEF Forgotten, Seen, Untouched
<1>7. \A c \in Ordinary : ring[c] = << >>
  BY <1>1, RingAssumption DEF Ordinary
<1>8. Abreast
  BY <1>1, <1>7, IdleFrame DEF Abreast, Once, HasCopy, AfterIngest, Entered
<1>9. StaysInOrder
  BY <1>7, InOrderIs
<1> QED
  BY <1>2, <1>3, <1>4, <1>5, <1>6, <1>8, <1>9 DEF Viewing

LEMMA StaysViewing ==
    ASSUME Shape, Counting, SessionNext, Viewing
    PROVE  Viewing'
<1>1. Shape'
  BY StaysShaped
<1>2. RingTyped /\ Orderly /\ Met /\ Cut /\ Forgotten /\ Seen /\ Abreast /\ StaysInOrder
  BY DEF Viewing
<1>3. RingTyped'
  BY StaysCounting DEF Counting
<1>4. Orderly' /\ Met'
  BY <1>1, <1>2, StaysOrderly, StaysMet
<1>5. Cut' /\ Forgotten'
  BY <1>2, StaysListed, StaysForgotten DEF Cut
<1>6. Seen'
  BY <1>1, <1>2, StaysSeen
<1>7. Abreast' /\ StaysInOrder'
  BY <1>2, StaysAbreast, OrderStays
<1> QED
  BY <1>3, <1>4, <1>5, <1>6, <1>7 DEF Viewing

LEMMA IdlesViewing ==
    ASSUME Viewing, UNCHANGED sessionVars
    PROVE  Viewing'
<1>1. /\ UNCHANGED <<session, lane, taken, frame, flows, ring, evicted, added, cleared, signalled>>
      /\ UNCHANGED <<dashboard, reset, finished, disturbed, swept, log, era>>
  BY DEF sessionVars, views, history, flowVars, ringVars
<1>2. traffic' = traffic /\ \A w, p : InLane(w, p)' <=> InLane(w, p)
  BY <1>1 DEF traffic, InLane
<1>3. \A w : (Busy(w)' <=> Busy(w)) /\ Content(w)' = Content(w)
  BY <1>1 DEF Busy, Content
<1>4. RingTyped'
  BY <1>1 DEF Viewing, RingTyped, Shown, Contents
<1>5. Orderly'
  BY <1>1, <1>2, <1>3 DEF Viewing, Orderly
<1>6. Met' /\ Cut'
  BY <1>1 DEF Viewing, Met, Resets, ResetPlaces, Cut, Dashboards
<1>7. Forgotten'
  BY <1>1 DEF Viewing, Forgotten, OffDashboard, Ringed
<1>8. Seen'
  BY <1>1 DEF Viewing, Seen, Untouched, Past, PastRecord, AfterIngest, AfterCorrelate, AfterCount,
              Ringed
<1>9. Abreast'
  <2>1. \A x : Bounded(x)' <=> Bounded(x)
    BY <1>1, <1>2 DEF Bounded
  <2>2. \A c, a : Behind(c, a)' <=> Behind(c, a)
    BY <1>1, <1>2, <1>3, <2>1 DEF Behind, Contents, Owes, HasCopy, AfterIngest, SameFlow, Earlier
  <2>3. \A c : Entered(c)' = Entered(c)
    BY <1>1 DEF Entered
  <2>4. \A w \in Workers : HasCopy(w)' => HasCopy(w) /\ (Bounded(Content(w)) => Bounded(Content(w))')
    BY <1>1, <1>2, <1>3 DEF HasCopy, AfterIngest, Bounded
  <2> QED
    BY <1>1, <2>2, <2>3, <2>4 DEF Viewing, Abreast, Ordinary
<1>10. StaysInOrder'
  BY <1>1, <1>2 DEF Viewing, StaysInOrder
<1> QED
  BY <1>4, <1>5, <1>6, <1>7, <1>8, <1>9, <1>10 DEF Viewing

LEMMA ViewingHolds == SessionSpec => []Viewing
<1>1. SessionInit => Viewing
  BY BeginsViewing
<1>2. Shape /\ Counting /\ Viewing /\ [SessionNext]_sessionVars => Viewing'
  <2> SUFFICES ASSUME Shape, Counting, Viewing, [SessionNext]_sessionVars PROVE Viewing'
    OBVIOUS
  <2>1. CASE SessionNext
    BY <2>1, StaysViewing
  <2>2. CASE UNCHANGED sessionVars
    BY <2>2, IdlesViewing
  <2> QED
    BY <2>1, <2>2
<1> QED
  BY <1>1, <1>2, ShapeHolds, CountingHolds, PTL DEF SessionSpec

\* The views of a session agree: once a reset is over nothing that was processed before it is
\* in any view; a packet that no reset met is in every view, unless newer ones took its place;
\* and the live ring keeps the order of arrival of every conversation.
THEOREM SessionViewsAgree == SessionSpec => []ViewsAgree
<1>1. Viewing => ViewsAgree
  BY ForgottenForgets, SeenIsEverywhere DEF Viewing, ViewsAgree
<1> QED
  BY <1>1, ViewingHolds, PTL

-----------------------------------------------------------------------------
(* The part of the log that belongs to a flow, and sums over it *)

\* The part of s that belongs to a flow; t is the traffic.
PartOf(t, s, flow) ==
    LET part[k \in 0 .. Len(s)] ==
            IF k = 0 THEN << >>
            ELSE IF FlowId(t[s[k]]) = flow THEN Append(part[k - 1], s[k])
            ELSE part[k - 1]
    IN  part[Len(s)]
\* f goes through s and takes up what belongs to the flow.
Parting(t, S, s, flow, f) ==
    /\ f \in [0 .. Len(s) -> Seq(S)] /\ f[0] = << >>
    /\ \A k \in 1 .. Len(s) : f[k] = IF FlowId(t[s[k]]) = flow THEN Append(f[k - 1], s[k])
                                     ELSE f[k - 1]

LEMMA PartIs ==
    ASSUME NEW t, NEW S, NEW s \in Seq(S), NEW flow
    PROVE  \E f : Parting(t, S, s, flow, f) /\ PartOf(t, s, flow) = f[Len(s)]
<1>0. Len(s) \in Nat /\ \A k \in 1 .. Len(s) : s[k] \in S
  OBVIOUS
<1> DEFINE step == [p \in (1 .. Len(s)) \X Seq(S) |-> IF FlowId(t[s[p[1]]]) = flow
                                                      THEN Append(p[2], s[p[1]]) ELSE p[2]]
<1>1. \E f : Iterates(Len(s), Seq(S), << >>, step, f)
  <2>1. << >> \in Seq(S) /\ step \in StepFunctions(Len(s), Seq(S))
    BY <1>0 DEF StepFunctions
  <2> HIDE DEF step
  <2> QED
    BY <1>0, <2>1, Recursion
<1>2. PICK f : /\ f \in [0 .. Len(s) -> Seq(S)] /\ f[0] = << >>
               /\ \A k \in 1 .. Len(s) : f[k] = step[<<k, f[k - 1]>>]
  BY <1>1 DEF Iterates
<1>3. ASSUME NEW k \in 1 .. Len(s)
      PROVE  f[k] = (IF FlowId(t[s[k]]) = flow THEN Append(f[k - 1], s[k]) ELSE f[k - 1])
  <2>1. k - 1 \in 0 .. Len(s)
    BY <1>0
  <2>2. f[k - 1] \in Seq(S) /\ <<k, f[k - 1]>> \in (1 .. Len(s)) \X Seq(S)
    BY <1>2, <2>1
  <2>3. step[<<k, f[k - 1]>>] = IF FlowId(t[s[k]]) = flow THEN Append(f[k - 1], s[k])
                                ELSE f[k - 1]
    BY <2>2
  <2> HIDE DEF step
  <2> QED
    BY <1>2, <2>3
<1> HIDE DEF step
<1>4. f = [k \in 0 .. Len(s) |-> IF k = 0 THEN << >>
                                 ELSE IF FlowId(t[s[k]]) = flow THEN Append(f[k - 1], s[k])
                                 ELSE f[k - 1]]
  <2>1. ASSUME NEW k \in 0 .. Len(s)
        PROVE  f[k] = IF k = 0 THEN << >>
                      ELSE IF FlowId(t[s[k]]) = flow THEN Append(f[k - 1], s[k]) ELSE f[k - 1]
    <3>1. CASE k = 0
      BY <1>2, <3>1
    <3>2. CASE k # 0
      <4>1. k \in 1 .. Len(s)
        BY <1>0, <3>2
      <4> QED
        BY <1>3, <3>2, <4>1
    <3> QED
      BY <3>1, <3>2
  <2>2. DOMAIN f = 0 .. Len(s) /\ f = [k \in DOMAIN f |-> f[k]]
    BY <1>2, SMTT(40)
  <2> QED
    BY <2>1, <2>2
<1> DEFINE part == CHOOSE g : g = [k \in 0 .. Len(s) |->
                                      IF k = 0 THEN << >>
                                      ELSE IF FlowId(t[s[k]]) = flow
                                           THEN Append(g[k - 1], s[k])
                                      ELSE g[k - 1]]
<1>5. part = [k \in 0 .. Len(s) |-> IF k = 0 THEN << >>
                                    ELSE IF FlowId(t[s[k]]) = flow
                                         THEN Append(part[k - 1], s[k])
                                    ELSE part[k - 1]]
  BY <1>4, Zenon
<1>6. PartOf(t, s, flow) = part[Len(s)]
  BY DEF PartOf
<1>7. Agree(Len(s), part, f)
  <2> HIDE DEF part
  <2>1. \A k \in 0 .. Len(s) :
            part[k] = IF k = 0 THEN << >>
                      ELSE IF FlowId(t[s[k]]) = flow THEN Append(part[k - 1], s[k])
                      ELSE part[k - 1]
    BY <1>5
  <2>2. \A k \in 1 .. Len(s) : k \in 0 .. Len(s) /\ k # 0
    BY <1>0
  <2>3. 0 \in 0 .. Len(s)
    BY <1>0
  <2>4. Alike(Len(s), part, f)
    BY <1>2, <1>3, <2>1, <2>2, <2>3 DEF Alike
  <2> QED
    BY <1>0, <2>4, SameRecursion
<1>8. PartOf(t, s, flow) = f[Len(s)]
  <2>1. Len(s) \in 0 .. Len(s)
    BY <1>0
  <2> HIDE DEF part
  <2> QED
    BY <1>6, <1>7, <2>1 DEF Agree
<1> HIDE DEF part
<1> QED
  BY <1>2, <1>3, <1>8 DEF Parting

\* A packet more belongs to the part, or not.
LEMMA PartAppend ==
    ASSUME NEW t, NEW S, NEW s \in Seq(S), NEW x \in S, NEW flow
    PROVE  /\ PartOf(t, s, flow) \in Seq(S)
           /\ PartOf(t, Append(s, x), flow) = IF FlowId(t[x]) = flow
                                           THEN Append(PartOf(t, s, flow), x) ELSE PartOf(t, s, flow)
<1> DEFINE v == Append(s, x)
           n == Len(s)
<1>1. /\ n \in Nat /\ v \in Seq(S) /\ Len(v) = n + 1 /\ v[n + 1] = x
      /\ \A k \in 1 .. n : v[k] = s[k]
  BY AppendProperties, LenProperties
<1> HIDE DEF v, n
<1>2. PICK f : Parting(t, S, s, flow, f) /\ PartOf(t, s, flow) = f[n]
  BY PartIs DEF n
<1>3. PICK g : Parting(t, S, v, flow, g) /\ PartOf(t, v, flow) = g[n + 1]
  <2>1. \E g : Parting(t, S, v, flow, g) /\ PartOf(t, v, flow) = g[Len(v)]
    BY <1>1, PartIs
  <2> QED
    BY <1>1, <2>1
<1>4. /\ f \in [0 .. n -> Seq(S)] /\ f[0] = << >>
      /\ \A k \in 1 .. n : f[k] = IF FlowId(t[s[k]]) = flow THEN Append(f[k - 1], s[k])
                                  ELSE f[k - 1]
  BY <1>2 DEF Parting, n
<1>5. /\ g[0] = << >>
      /\ \A k \in 1 .. n + 1 : g[k] = IF FlowId(t[v[k]]) = flow
                                      THEN Append(g[k - 1], v[k]) ELSE g[k - 1]
  BY <1>1, <1>3 DEF Parting
<1>6. Agree(n, f, g)
  <2>1. \A k \in 1 .. n : k \in 1 .. n + 1
    BY <1>1
  <2>2. Alike(n, f, g)
    BY <1>1, <1>4, <1>5, <2>1 DEF Alike
  <2> QED
    BY <1>1, <2>2, SameRecursion
<1>7. n \in 0 .. n /\ n + 1 \in 1 .. n + 1 /\ (n + 1) - 1 = n
  BY <1>1
<1>8. f[n] = g[n] /\ f[n] \in Seq(S)
  BY <1>4, <1>6, <1>7 DEF Agree
<1>9. g[n + 1] = IF FlowId(t[x]) = flow THEN Append(g[n], x) ELSE g[n]
  BY <1>1, <1>5, <1>7
<1> QED
  BY <1>2, <1>3, <1>8, <1>9 DEF v

LEMMA PartEmpty == ASSUME NEW t, NEW flow PROVE PartOf(t, << >>, flow) = << >>
<1>1. << >> \in Seq({}) /\ Len(<< >>) = 0
  OBVIOUS
<1>2. PICK f : Parting(t, {}, << >>, flow, f) /\ PartOf(t, << >>, flow) = f[Len(<< >>)]
  BY <1>1, PartIs
<1>3. f[0] = << >>
  BY <1>2 DEF Parting
<1> QED
  BY <1>1, <1>2, <1>3

\* g goes through s and adds the points up.
Summing(s, points, f) ==
    /\ f \in [0 .. Len(s) -> Nat] /\ f[0] = 0
    /\ \A k \in 1 .. Len(s) : f[k] = f[k - 1] + points[s[k]]

LEMMA SumIs ==
    ASSUME NEW S, NEW s \in Seq(S), NEW points \in [S -> Nat]
    PROVE  \E f : Summing(s, points, f) /\ SumOver(s, points) = f[Len(s)]
<1>0. Len(s) \in Nat /\ \A k \in 1 .. Len(s) : s[k] \in S /\ points[s[k]] \in Nat
  OBVIOUS
<1> DEFINE step == [p \in (1 .. Len(s)) \X Nat |-> p[2] + points[s[p[1]]]]
<1>1. \E f : Iterates(Len(s), Nat, 0, step, f)
  <2>1. 0 \in Nat /\ step \in StepFunctions(Len(s), Nat)
    BY <1>0 DEF StepFunctions
  <2> HIDE DEF step
  <2> QED
    BY <1>0, <2>1, Recursion
<1>2. PICK f : /\ f \in [0 .. Len(s) -> Nat] /\ f[0] = 0
               /\ \A k \in 1 .. Len(s) : f[k] = step[<<k, f[k - 1]>>]
  BY <1>1 DEF Iterates
<1>3. ASSUME NEW k \in 1 .. Len(s) PROVE f[k] = f[k - 1] + points[s[k]]
  <2>1. k - 1 \in 0 .. Len(s)
    BY <1>0
  <2>2. f[k - 1] \in Nat /\ <<k, f[k - 1]>> \in (1 .. Len(s)) \X Nat
    BY <1>2, <2>1
  <2>3. step[<<k, f[k - 1]>>] = f[k - 1] + points[s[k]]
    BY <2>2
  <2> HIDE DEF step
  <2> QED
    BY <1>2, <2>3
<1> HIDE DEF step
<1>4. f = [k \in 0 .. Len(s) |-> IF k = 0 THEN 0 ELSE f[k - 1] + points[s[k]]]
  <2>1. ASSUME NEW k \in 0 .. Len(s)
        PROVE  f[k] = IF k = 0 THEN 0 ELSE f[k - 1] + points[s[k]]
    <3>1. CASE k = 0
      BY <1>2, <3>1
    <3>2. CASE k # 0
      <4>1. k \in 1 .. Len(s)
        BY <1>0, <3>2
      <4> QED
        BY <1>3, <3>2, <4>1
    <3> QED
      BY <3>1, <3>2
  <2>2. DOMAIN f = 0 .. Len(s) /\ f = [k \in DOMAIN f |-> f[k]]
    BY <1>2, SMTT(40)
  <2> QED
    BY <2>1, <2>2
<1> DEFINE sum == CHOOSE g : g = [k \in 0 .. Len(s) |->
                                     IF k = 0 THEN 0 ELSE g[k - 1] + points[s[k]]]
<1>5. sum = [k \in 0 .. Len(s) |-> IF k = 0 THEN 0 ELSE sum[k - 1] + points[s[k]]]
  BY <1>4, Zenon
<1>6. SumOver(s, points) = sum[Len(s)]
  BY DEF SumOver
<1>7. Agree(Len(s), sum, f)
  <2> HIDE DEF sum
  <2>1. \A k \in 0 .. Len(s) : sum[k] = IF k = 0 THEN 0 ELSE sum[k - 1] + points[s[k]]
    BY <1>5
  <2>2. \A k \in 1 .. Len(s) : k \in 0 .. Len(s) /\ k # 0
    BY <1>0
  <2>3. 0 \in 0 .. Len(s)
    BY <1>0
  <2>4. Alike(Len(s), sum, f)
    BY <1>2, <1>3, <2>1, <2>2, <2>3 DEF Alike
  <2> QED
    BY <1>0, <2>4, SameRecursion
<1>8. SumOver(s, points) = f[Len(s)]
  <2>1. Len(s) \in 0 .. Len(s)
    BY <1>0
  <2> HIDE DEF sum
  <2> QED
    BY <1>6, <1>7, <2>1 DEF Agree
<1> HIDE DEF sum
<1> QED
  BY <1>2, <1>3, <1>8 DEF Summing

\* One more counts with its points.
LEMMA SumAppend ==
    ASSUME NEW S, NEW s \in Seq(S), NEW x \in S, NEW points \in [S -> Nat]
    PROVE  /\ SumOver(s, points) \in Nat
           /\ SumOver(Append(s, x), points) = SumOver(s, points) + points[x]
<1> DEFINE t == Append(s, x)
           n == Len(s)
<1>1. /\ n \in Nat /\ t \in Seq(S) /\ Len(t) = n + 1 /\ t[n + 1] = x
      /\ \A k \in 1 .. n : t[k] = s[k]
  BY AppendProperties, LenProperties
<1> HIDE DEF t, n
<1>2. PICK f : Summing(s, points, f) /\ SumOver(s, points) = f[n]
  BY SumIs DEF n
<1>3. PICK g : Summing(t, points, g) /\ SumOver(t, points) = g[n + 1]
  <2>1. \E g : Summing(t, points, g) /\ SumOver(t, points) = g[Len(t)]
    BY <1>1, SumIs
  <2> QED
    BY <1>1, <2>1
<1>4. /\ f \in [0 .. n -> Nat] /\ f[0] = 0
      /\ \A k \in 1 .. n : f[k] = f[k - 1] + points[s[k]]
  BY <1>2 DEF Summing, n
<1>5. g[0] = 0 /\ \A k \in 1 .. n + 1 : g[k] = g[k - 1] + points[t[k]]
  BY <1>1, <1>3 DEF Summing
<1>6. Agree(n, f, g)
  <2>1. \A k \in 1 .. n : k \in 1 .. n + 1
    BY <1>1
  <2>2. Alike(n, f, g)
    BY <1>1, <1>4, <1>5, <2>1 DEF Alike
  <2> QED
    BY <1>1, <2>2, SameRecursion
<1>7. n \in 0 .. n /\ n + 1 \in 1 .. n + 1 /\ (n + 1) - 1 = n
  BY <1>1
<1>8. f[n] = g[n] /\ f[n] \in Nat
  BY <1>4, <1>6, <1>7 DEF Agree
<1>9. g[n + 1] = g[n] + points[x]
  BY <1>1, <1>5, <1>7
<1> QED
  BY <1>2, <1>3, <1>8, <1>9 DEF t

LEMMA SumEmpty == ASSUME NEW S, NEW points \in [S -> Nat] PROVE SumOver(<< >>, points) = 0
<1>1. << >> \in Seq(S) /\ Len(<< >>) = 0
  OBVIOUS
<1>2. PICK f : Summing(<< >>, points, f) /\ SumOver(<< >>, points) = f[Len(<< >>)]
  BY <1>1, SumIs
<1> QED
  BY <1>1, <1>2 DEF Summing

-----------------------------------------------------------------------------
(* Timelines and samples *)

\* The newest of some events: no more than so many, the last of them the last.
LEMMA NewestIs ==
    ASSUME NEW S, NEW s \in Seq(S), s # << >>, NEW n \in Nat \ {0}
    PROVE  LET r == Newest(n, s)
           IN  r \in Seq(S) /\ r # << >> /\ Len(r) <= n /\ Last(r) = Last(s)
<1>1. Len(s) \in Nat \ {0} /\ \A k \in 1 .. Len(s) : s[k] \in S
  BY LenProperties, EmptySeq, ElementOfSeq
<1>2. CASE Len(s) <= n
  BY <1>2 DEF Newest
<1>3. CASE ~ Len(s) <= n
  <2> DEFINE m == Len(s) - n + 1
             r == SubSeq(s, m, Len(s))
  <2>1. m \in 1 .. Len(s) /\ Len(s) - m + 1 = n
    BY <1>1, <1>3
  <2>2. \A k \in m .. Len(s) : s[k] \in S
    BY <1>1, <2>1
  <2>3. /\ r \in Seq(S) /\ Len(r) = n
        /\ \A k \in 1 .. n : r[k] = s[m + k - 1]
    <3> HIDE DEF m
    <3>1. /\ r \in Seq(S)
          /\ Len(r) = IF m <= Len(s) THEN Len(s) - m + 1 ELSE 0
          /\ \A k \in 1 .. Len(s) - m + 1 : r[k] = s[m + k - 1]
      BY <1>1, <2>1, <2>2, SubSeqProperties
    <3> QED
      BY <2>1, <3>1
  <2>4. r[n] = s[Len(s)]
    BY <1>1, <1>3, <2>3
  <2>5. r # << >>
    BY <2>3
  <2> QED
    BY <1>1, <1>3, <2>3, <2>4, <2>5 DEF Newest, Last
<1> QED
  BY <1>2, <1>3

\* Samples are the first of what is sampled.
LEMMA SamplesGrow ==
    ASSUME NEW S, NEW s \in Seq(S), NEW x \in S
    PROVE  LET old == SubSeq(s, 1, AtMost(MaxSamples, Len(s)))
           IN  /\ old \in Seq(S)
               /\ SubSeq(Append(s, x), 1, AtMost(MaxSamples, Len(Append(s, x))))
                      = IF Len(old) < MaxSamples THEN Append(old, x) ELSE old
<1> DEFINE t == Append(s, x)
           n == Len(s)
           a == AtMost(MaxSamples, n)
           b == AtMost(MaxSamples, Len(t))
           old == SubSeq(s, 1, a)
           new == SubSeq(t, 1, b)
<1>1. /\ n \in Nat /\ t \in Seq(S) /\ Len(t) = n + 1 /\ t[n + 1] = x
      /\ \A k \in 1 .. n : t[k] = s[k] /\ s[k] \in S
  BY AppendProperties, LenProperties, ElementOfSeq
<1>2. MaxSamples \in Nat
  BY FlowAssumption
<1>3. a \in 0 .. n /\ b \in 0 .. n + 1 /\ (n < MaxSamples => a = n /\ b = n + 1)
      /\ (~ n < MaxSamples => a = MaxSamples /\ b = MaxSamples)
  BY <1>1, <1>2 DEF AtMost
<1> HIDE DEF t, n, a, b
<1>4. /\ old \in Seq(S) /\ Len(old) = a /\ \A k \in 1 .. a : old[k] = s[k]
      /\ new \in Seq(S) /\ Len(new) = b /\ \A k \in 1 .. b : new[k] = t[k]
  <2>1. \A k \in 1 .. a : s[k] \in S
    BY <1>1, <1>3
  <2>2. \A k \in 1 .. b : t[k] \in S
    BY <1>1, <1>3, ElementOfSeq
  <2>3. a \in Int /\ b \in Int /\ a - 1 + 1 = a /\ b - 1 + 1 = b /\ (1 <= a \/ a = 0) /\ (1 <= b \/ b = 0)
    BY <1>1, <1>3
  <2>4. /\ old \in Seq(S) /\ Len(old) = (IF 1 <= a THEN a - 1 + 1 ELSE 0)
        /\ \A k \in 1 .. a - 1 + 1 : old[k] = s[1 + k - 1]
    BY <2>1, <2>3, SubSeqProperties
  <2>5. /\ new \in Seq(S) /\ Len(new) = (IF 1 <= b THEN b - 1 + 1 ELSE 0)
        /\ \A k \in 1 .. b - 1 + 1 : new[k] = t[1 + k - 1]
    BY <2>2, <2>3, SubSeqProperties
  <2> QED
    BY <2>3, <2>4, <2>5
<1> HIDE DEF old, new
<1>5. ASSUME n < MaxSamples PROVE new = IF Len(old) < MaxSamples THEN Append(old, x) ELSE old
  <2>1. a = n /\ b = n + 1
    BY <1>3, <1>5
  <2>2. /\ Append(old, x) \in Seq(S) /\ Len(Append(old, x)) = n + 1 /\ Append(old, x)[n + 1] = x
        /\ \A k \in 1 .. n : Append(old, x)[k] = old[k]
    BY <1>4, <2>1, AppendProperties
  <2>3. \A k \in 1 .. n + 1 : new[k] = Append(old, x)[k]
    BY <1>1, <1>4, <2>1, <2>2
  <2>4. new = Append(old, x)
    BY <1>4, <2>1, <2>2, <2>3, SeqEqual
  <2> QED
    BY <1>4, <1>5, <2>1, <2>4
<1>6. ASSUME ~ n < MaxSamples PROVE new = IF Len(old) < MaxSamples THEN Append(old, x) ELSE old
  <2>1. a = MaxSamples /\ b = MaxSamples
    BY <1>3, <1>6
  <2>2. \A k \in 1 .. a : new[k] = old[k]
    BY <1>1, <1>3, <1>4, <2>1
  <2>3. new = old
    BY <1>4, <2>1, <2>2, SeqEqual
  <2> QED
    BY <1>2, <1>4, <2>1, <2>3
<1>7. new = IF Len(old) < MaxSamples THEN Append(old, x) ELSE old
  BY <1>5, <1>6
<1> QED
  BY <1>4, <1>7 DEF t, n, a, b, old, new

-----------------------------------------------------------------------------
(* What a flow tells of its packets *)

\* What each packet counts for, and what it says.
Lengths == [p \in Arrivals |-> traffic[p].length]
Inbounds == [p \in Arrivals |->
                When(DirectionFor(traffic[p]) = "inbound", traffic[p].length)]
Failures == [p \in Arrivals |->
                When(AppProtocol(Visible(traffic[p])) = "DNS" /\ traffic[p].nxdomain, 1)]
Apps == [p \in Arrivals |-> AppProtocol(Visible(traffic[p]))]
Alerted == [p \in Arrivals |-> ToSet(AlertIds(p, traffic[p]))]

LEMMA LogOfIs == ASSUME NEW flow PROVE LogOf(flow) = PartOf(traffic, log, flow)
  BY DEF LogOf, PartOf

LEMMA PointsTyped ==
    ASSUME session \in Captures
    PROVE  /\ Lengths \in [Arrivals -> Nat] /\ Inbounds \in [Arrivals -> Nat]
           /\ Failures \in [Arrivals -> Nat]
<1>1. \A p \in Arrivals : traffic[p].length \in Nat
  BY CapturesAssumption DEF traffic, Arrivals
<1> QED
  BY <1>1 DEF Lengths, Inbounds, Failures, When

LEMMA PointsStay ==
    ASSUME session' = session
    PROVE  /\ Lengths' = Lengths /\ Inbounds' = Inbounds /\ Failures' = Failures
           /\ Apps' = Apps /\ Alerted' = Alerted /\ traffic' = traffic /\ Arrivals' = Arrivals
<1>1. traffic' = traffic /\ Arrivals' = Arrivals
  BY DEF traffic, Arrivals
<1>2. \A q : Visible(q)' = Visible(q)
  BY DEF Visible, PayloadKept, PayloadCapture, Mode, settings
<1> QED
  BY <1>1, <1>2 DEF Lengths, Inbounds, Failures, Apps, Alerted

\* The sums and lists of flow f are those of the packets ps.
Sums(f, ps) ==
    /\ f.packets = Len(ps)
    /\ f.bytes = SumOver(ps, Lengths) /\ f.received = SumOver(ps, Inbounds)
    /\ f.sent + f.received = f.bytes
    /\ f.dns_failures = SumOver(ps, Failures)
    /\ f.samples = SubSeq(ps, 1, AtMost(MaxSamples, Len(ps)))
Alarmed(f, ps) ==
    f.alert_ids \in Seq(Nat \X Nat) /\ ToSet(f.alert_ids) = UNION {Alerted[p] : p \in ToSet(ps)}
\* Its timeline ends with one of the packets qs.
Timed(f, qs) ==
    /\ \E T : f.timeline \in Seq(T)
    /\ f.timeline # << >> /\ Last(f.timeline).packet \in qs
Shortened(f) == Len(f.timeline) <= MaxTimeline

LEMMA LastConcat ==
    ASSUME NEW S, NEW s \in Seq(S), NEW t \in Seq(S), s # << >>
    PROVE  /\ s \o t \in Seq(S) /\ s \o t # << >>
           /\ Last(s \o t) = IF t = << >> THEN Last(s) ELSE Last(t)
<1>1. /\ Len(s) \in Nat \ {0} /\ Len(t) \in Nat /\ (t # << >> => Len(t) # 0)
      /\ (t = << >> => Len(t) = 0)
  BY LenProperties, EmptySeq
<1>2. /\ s \o t \in Seq(S) /\ Len(s \o t) = Len(s) + Len(t)
      /\ \A k \in 1 .. Len(s) + Len(t) :
            (s \o t)[k] = IF k <= Len(s) THEN s[k] ELSE t[k - Len(s)]
  BY ConcatProperties
<1>3. s \o t # << >>
  BY <1>1, <1>2, EmptySeq
<1>4. CASE t = << >>
  <2>1. (s \o t)[Len(s)] = s[Len(s)] /\ Len(s \o t) = Len(s)
    BY <1>1, <1>2, <1>4
  <2> QED
    BY <1>2, <1>3, <1>4, <2>1 DEF Last
<1>5. CASE t # << >>
  <2>1. (s \o t)[Len(s) + Len(t)] = t[Len(t)] /\ Len(s \o t) = Len(s) + Len(t)
    BY <1>1, <1>2, <1>5
  <2> QED
    BY <1>2, <1>3, <1>5, <2>1 DEF Last
<1> QED
  BY <1>4, <1>5

\* An event more, or none, of packet p.
LEMMA LastAppend ==
    ASSUME NEW S, NEW s \in Seq(S), NEW x
    PROVE  /\ Append(s, x) \in Seq(S \cup {x}) /\ Append(s, x) # << >> /\ Last(Append(s, x)) = x
<1>1. s \in Seq(S \cup {x}) /\ x \in S \cup {x}
  OBVIOUS
<1>2. Append(s, x) \in Seq(S \cup {x}) /\ Len(Append(s, x)) = Len(s) + 1
      /\ Append(s, x)[Len(s) + 1] = x /\ Len(s) \in Nat
  BY <1>1, AppendProperties, LenProperties
<1>3. Append(s, x) # << >>
  BY <1>2, EmptySeq
<1> QED
  BY <1>2, <1>3 DEF Last

LEMMA EventOf == \A type, p, m : Event(type, p, m).packet = p
  BY DEF Event

LEMMA TimelineGrows ==
    ASSUME NEW f, NEW qs, NEW p \in qs, NEW q, PacketTyped(q), NEW created, Timed(f, qs),
           NEW u, u.timeline = Newest(MaxTimeline, Observed(Detected(f, p, q), p, q)
                                                  \o Alarms(p, q) \o Surprise(f, p, created))
    PROVE  Timed(u, qs) /\ Shortened(u)
<1>1. PICK T : f.timeline \in Seq(T)
  BY DEF Timed
<1>2. f.timeline # << >> /\ Last(f.timeline).packet \in qs
  BY DEF Timed
<1> DEFINE d == Detected(f, p, q)
           o == Observed(d, p, q)
           a == Alarms(p, q)
           s == Surprise(f, p, created)
<1>3. PICK D : d \in Seq(D) /\ d # << >> /\ Last(d).packet \in qs
  <2>1. CASE f.app = AppProtocol(q)
    BY <1>1, <1>2, <2>1 DEF Detected
  <2>2. CASE f.app # AppProtocol(q)
    <3> DEFINE x == Event("protocol_detected", p, AppProtocol(q))
    <3>1. d = Append(f.timeline, x) /\ x.packet = p
      BY <2>2, EventOf DEF Detected
    <3> HIDE DEF x, d
    <3>2. d \in Seq(T \cup {x}) /\ d # << >> /\ Last(d) = x
      BY <1>1, <3>1, LastAppend, ZenonT(60)
    <3> QED
      BY <3>1, <3>2
  <2> QED
    BY <2>1, <2>2
<1> HIDE DEF d
<1>4. PICK O : o \in Seq(O) /\ o # << >> /\ Last(o).packet \in qs
  <2> DEFINE x == Event("metadata", p, q.metadata)
  <2>1. x.packet = p
    BY EventOf
  <2>2. o = d \/ o = Append(d, x)
    BY DEF Observed
  <2> HIDE DEF x, o
  <2>3. Append(d, x) \in Seq(D \cup {x}) /\ Append(d, x) # << >> /\ Last(Append(d, x)) = x
    BY <1>3, LastAppend
  <2> QED
    BY <1>3, <2>1, <2>2, <2>3
<1> HIDE DEF o
<1> DEFINE E == {Event("alert_triggered", p, ""), Event("unusual_destination", p, "")}
           S == O \cup E
<1>5. \A e \in E : e.packet = p
  <2> SUFFICES ASSUME NEW e \in E PROVE e.packet = p
    OBVIOUS
  <2>1. e = Event("alert_triggered", p, "") \/ e = Event("unusual_destination", p, "")
    OBVIOUS
  <2> HIDE DEF E
  <2>2. CASE e = Event("alert_triggered", p, "")
    BY <2>2 DEF Event
  <2>3. CASE e = Event("unusual_destination", p, "")
    BY <2>3 DEF Event
  <2> QED
    BY <2>1, <2>2, <2>3
<1>6. a \in Seq(E) /\ (a # << >> => Last(a) \in E)
  <2>1. DOMAIN q.alerts = 1 .. Len(q.alerts) /\ Len(q.alerts) \in Nat
    BY LenProperties DEF PacketTyped
  <2>2. a \in [1 .. Len(q.alerts) -> E]
    BY <2>1 DEF Alarms
  <2> HIDE DEF a, E
  <2>3. a \in Seq(E)
    BY <2>1, <2>2, SeqDef
  <2>4. ASSUME a # << >> PROVE Last(a) \in E
    <3>1. Len(a) \in 1 .. Len(a)
      BY <2>3, <2>4, EmptySeq, LenProperties
    <3> QED
      BY <2>3, <3>1, ElementOfSeq DEF Last
  <2> QED
    BY <2>3, <2>4
<1>7. s \in Seq(E) /\ (s # << >> => Last(s) \in E)
  <2> DEFINE x == Event("unusual_destination", p, "")
  <2>1. s = << >> \/ s = <<x>>
    BY DEF Surprise
  <2>2. x \in E
    OBVIOUS
  <2> HIDE DEF s, E, x
  <2>3. <<x>> \in Seq(E) /\ Last(<<x>>) = x /\ << >> \in Seq(E)
    BY <2>2 DEF Last
  <2> QED
    BY <2>1, <2>2, <2>3
<1> HIDE DEF a, s, E
<1>8. o \in Seq(S) /\ a \in Seq(S) /\ s \in Seq(S)
  BY <1>4, <1>6, <1>7
<1> HIDE DEF S
<1> DEFINE r == o \o a
           v == r \o s
<1>9. r \in Seq(S) /\ r # << >> /\ Last(r).packet \in qs
  BY <1>4, <1>5, <1>6, <1>8, LastConcat
<1> HIDE DEF r
<1>10. v \in Seq(S) /\ v # << >> /\ Last(v).packet \in qs
  BY <1>5, <1>7, <1>8, <1>9, LastConcat
<1>11. u.timeline = Newest(MaxTimeline, v) /\ MaxTimeline \in Nat \ {0}
  BY FlowAssumption DEF v, r, o, d, a, s
<1> HIDE DEF v
<1>12. /\ u.timeline \in Seq(S) /\ u.timeline # << >> /\ Len(u.timeline) <= MaxTimeline
       /\ Last(u.timeline) = Last(v)
  BY <1>10, <1>11, NewestIs
<1> QED
  BY <1>10, <1>12 DEF Timed, Shortened

\* A packet more, and its sums.
LEMMA SumsGrow ==
    ASSUME session \in Captures, NEW p \in Arrivals, NEW f, FlowTyped(f), NEW ps \in Seq(Arrivals),
           Sums(f, ps), NEW q, q = Visible(traffic[p]), NEW created, NEW u, Advances(f, p, q, created, u)
    PROVE  Sums(u, Append(ps, p))
<1> DEFINE ns == Append(ps, p)
           in == DirectionFor(traffic[p]) = "inbound"
           failed == AppProtocol(q) = "DNS" /\ traffic[p].nxdomain
           length == traffic[p].length
<1>1. PacketTyped(q) /\ SameBut(q, traffic[p])
  BY Looks
<1>2. (DirectionFor(q) = "inbound" <=> in) /\ q.length = length /\ length \in Nat
      /\ (AppProtocol(q) = "DNS" /\ q.nxdomain <=> failed)
  BY <1>1 DEF SameBut, PacketTyped
<1>3. Lengths[p] = length /\ Inbounds[p] = When(in, length) /\ Failures[p] = When(failed, 1)
  BY DEF Lengths, Inbounds, Failures
<1> HIDE DEF in, failed, length
<1>4. /\ SumOver(ps, Lengths) \in Nat /\ SumOver(ns, Lengths) = SumOver(ps, Lengths) + length
      /\ SumOver(ps, Inbounds) \in Nat
      /\ SumOver(ns, Inbounds) = SumOver(ps, Inbounds) + When(in, length)
      /\ SumOver(ps, Failures) \in Nat
      /\ SumOver(ns, Failures) = SumOver(ps, Failures) + When(failed, 1)
  BY <1>3, PointsTyped, SumAppend
<1>5. Len(ns) = Len(ps) + 1 /\ Len(ps) \in Nat
  BY AppendProperties, LenProperties
<1> HIDE DEF ns
<1>6. /\ f.packets = Len(ps) /\ f.bytes = SumOver(ps, Lengths)
      /\ f.received = SumOver(ps, Inbounds) /\ f.sent + f.received = f.bytes
      /\ f.dns_failures = SumOver(ps, Failures) /\ f.sent \in Nat
  BY DEF Sums, FlowTyped
<1>7. /\ u.packets = f.packets + 1 /\ u.bytes = f.bytes + length
      /\ u.sent = (IF in THEN f.sent ELSE f.sent + length)
      /\ u.received = (IF in THEN f.received + length ELSE f.received)
      /\ u.dns_failures = (IF failed THEN f.dns_failures + 1 ELSE f.dns_failures)
      /\ u.samples = (IF Len(f.samples) < MaxSamples THEN Append(f.samples, p) ELSE f.samples)
  BY <1>2 DEF Advances
<1>8. u.samples = SubSeq(ns, 1, AtMost(MaxSamples, Len(ns)))
  <2>1. f.samples = SubSeq(ps, 1, AtMost(MaxSamples, Len(ps)))
    BY DEF Sums
  <2> DEFINE old == SubSeq(ps, 1, AtMost(MaxSamples, Len(ps)))
  <2>2. SubSeq(ns, 1, AtMost(MaxSamples, Len(ns)))
            = IF Len(old) < MaxSamples THEN Append(old, p) ELSE old
    BY SamplesGrow DEF ns
  <2> HIDE DEF old
  <2>3. f.samples = old
    BY <2>1 DEF old
  <2> QED
    BY <1>7, <2>2, <2>3
<1>9. u.received = SumOver(ns, Inbounds) /\ u.sent + u.received = u.bytes
  BY <1>2, <1>4, <1>6, <1>7 DEF When
<1>10. u.dns_failures = SumOver(ns, Failures) /\ u.bytes = SumOver(ns, Lengths)
  BY <1>4, <1>6, <1>7 DEF When
<1>11. u.packets = Len(ns)
  BY <1>5, <1>6, <1>7
<1>12. Sums(u, ns)
  BY <1>8, <1>9, <1>10, <1>11 DEF Sums
<1> QED
  BY <1>12 DEF ns

LEMMA AlarmsGrow ==
    ASSUME session \in Captures, NEW p \in Arrivals, NEW f, NEW ps \in Seq(Arrivals),
           Alarmed(f, ps), NEW q, q = Visible(traffic[p]), NEW created, NEW u, Advances(f, p, q, created, u)
    PROVE  Alarmed(u, Append(ps, p))
<1> DEFINE ids == AlertIds(p, q)
<1>1. PacketTyped(q) /\ q.alerts = traffic[p].alerts /\ p \in Nat
  BY Looks, ArrivalsAre DEF SameBut
<1>2. ids \in Seq(Nat \X Nat) /\ ToSet(ids) = Alerted[p]
  BY <1>1, AlertIdsAre DEF Alerted, AlertIds
<1> HIDE DEF ids
<1>3. f.alert_ids \in Seq(Nat \X Nat) /\ u.alert_ids = f.alert_ids \o ids
  BY DEF Alarmed, Advances, ids
<1>4. u.alert_ids \in Seq(Nat \X Nat) /\ Range(u.alert_ids) = Range(f.alert_ids) \cup Range(ids)
  BY <1>2, <1>3, ConcatProperties, RangeConcatenation
<1>5. Range(Append(ps, p)) = Range(ps) \cup {p}
  BY RangeAppend
<1>6. /\ ToSet(u.alert_ids) = ToSet(f.alert_ids) \cup ToSet(ids)
      /\ ToSet(Append(ps, p)) = ToSet(ps) \cup {p}
  BY <1>4, <1>5 DEF Range, ToSet
<1>7. ToSet(f.alert_ids) = UNION {Alerted[x] : x \in ToSet(ps)}
  BY DEF Alarmed
<1>8. ToSet(u.alert_ids) = UNION {Alerted[x] : x \in ToSet(Append(ps, p))}
  BY <1>2, <1>6, <1>7
<1> QED
  BY <1>4, <1>8 DEF Alarmed

LEMMA NewTells ==
    ASSUME session \in Captures, NEW p, NEW q, NEW f, f = NewFlow(p, q)
    PROVE  Sums(f, << >>) /\ Alarmed(f, << >>) /\ Timed(f, {p})
<1>1. /\ f.packets = 0 /\ f.bytes = 0 /\ f.sent = 0 /\ f.received = 0 /\ f.dns_failures = 0
      /\ f.samples = << >> /\ f.alert_ids = << >>
      /\ f.timeline = <<Event("flow_started", p, "")>>
  BY DEF NewFlow
<1>2. SumOver(<< >>, Lengths) = 0 /\ SumOver(<< >>, Inbounds) = 0 /\ SumOver(<< >>, Failures) = 0
  BY PointsTyped, SumEmpty
<1>3. SubSeq(<< >>, 1, AtMost(MaxSamples, Len(<< >>))) = << >>
  BY FlowAssumption DEF AtMost
<1>4. Sums(f, << >>)
  <2> DEFINE none == << >>
  <2>1. Len(none) = 0 /\ f.samples = none /\ SubSeq(none, 1, AtMost(MaxSamples, Len(none))) = none
        /\ SumOver(none, Lengths) = 0 /\ SumOver(none, Inbounds) = 0 /\ SumOver(none, Failures) = 0
    BY <1>1, <1>2, <1>3
  <2> HIDE DEF none
  <2>2. f.packets = Len(none) /\ f.bytes = SumOver(none, Lengths)
        /\ f.received = SumOver(none, Inbounds) /\ f.dns_failures = SumOver(none, Failures)
    BY <1>1, <2>1
  <2>3. f.sent + f.received = f.bytes
    <3>1. f.sent = 0 /\ f.received = 0 /\ f.bytes = 0
      BY <1>1
    <3>2. 0 + 0 = 0
      OBVIOUS
    <3> QED
      BY <3>1, <3>2, Zenon
  <2>4. f.samples = SubSeq(none, 1, AtMost(MaxSamples, Len(none)))
    BY <2>1
  <2>5. Sums(f, none)
    BY <2>2, <2>3, <2>4 DEF Sums
  <2> QED
    BY <2>5 DEF none
<1>5. Alarmed(f, << >>)
  <2>1. ToSet(<< >>) = {} /\ UNION {Alerted[x] : x \in {}} = {} /\ << >> \in Seq(Nat \X Nat)
    BY DEF ToSet
  <2> QED
    BY <1>1, <2>1 DEF Alarmed
<1>6. Timed(f, {p})
  <2> DEFINE x == Event("flow_started", p, "")
  <2>1. x.packet = p
    BY DEF Event
  <2> HIDE DEF x
  <2>2. <<x>> \in Seq({x}) /\ <<x>> # << >> /\ Last(<<x>>) = x
    BY DEF Last
  <2> QED
    BY <1>1, <2>1, <2>2 DEF Timed, x
<1> QED
  BY <1>4, <1>5, <1>6

-----------------------------------------------------------------------------
(* The flow table is what its log says *)

\* No element is twice in s; what is before x in s.
Distinct(s) == \A i, j \in DOMAIN s : s[i] = s[j] => i = j
Befores(s, x) == {q \in ToSet(s) : \E i, j \in DOMAIN s : s[i] = q /\ s[j] = x /\ i < j}

LEMMA BeforeAppend ==
    ASSUME NEW S, NEW s \in Seq(S), Distinct(s), NEW p \in S, p \notin ToSet(s)
    PROVE  /\ Distinct(Append(s, p)) /\ Befores(Append(s, p), p) = ToSet(s)
           /\ \A x \in ToSet(s) : Befores(Append(s, p), x) = Befores(s, x)
<1> DEFINE t == Append(s, p)
           n == Len(s)
<1>1. /\ n \in Nat /\ DOMAIN s = 1 .. n /\ DOMAIN t = 1 .. n + 1
      /\ t[n + 1] = p /\ \A k \in 1 .. n : t[k] = s[k] /\ s[k] # p
  <2>1. /\ n \in Nat /\ DOMAIN s = 1 .. n /\ DOMAIN t = 1 .. n + 1
        /\ t[n + 1] = p /\ \A k \in 1 .. n : t[k] = s[k]
    BY AppendProperties, LenProperties
  <2> HIDE DEF n
  <2> QED
    BY <2>1 DEF ToSet
<1>2. ToSet(s) = {s[k] : k \in 1 .. n} /\ ToSet(t) = ToSet(s) \cup {p}
  <2>1. Range(t) = Range(s) \cup {p}
    BY RangeAppend
  <2> QED
    BY <1>1, <2>1 DEF ToSet, Range
<1> HIDE DEF t, n
<1>3. Distinct(t)
  <2> SUFFICES ASSUME NEW i \in 1 .. n + 1, NEW j \in 1 .. n + 1, t[i] = t[j] PROVE i = j
    BY <1>1 DEF Distinct
  <2>1. CASE i \in 1 .. n /\ j \in 1 .. n
    BY <1>1, <2>1 DEF Distinct
  <2>2. CASE i = n + 1 \/ j = n + 1
    <3>1. t[i] = p /\ t[j] = p
      BY <1>1, <2>2
    <3>2. i \notin 1 .. n /\ j \notin 1 .. n
      BY <1>1, <3>1
    <3> QED
      BY <1>1, <3>2
  <2> QED
    BY <1>1, <2>1, <2>2
<1>4. ASSUME NEW x \in ToSet(s) PROVE Befores(t, x) = Befores(s, x)
  <2>1. \A j \in 1 .. n + 1 : t[j] = x => j \in 1 .. n /\ s[j] = x
    BY <1>1, <1>4
  <2>2. \A i \in 1 .. n + 1 : \A j \in 1 .. n : i < j => i \in 1 .. n
    BY <1>1
  <2>3. \A k \in 1 .. n : k \in 1 .. n + 1
    BY <1>1
  <2>4. \A q : (\E i, j \in DOMAIN t : t[i] = q /\ t[j] = x /\ i < j)
               <=> \E i, j \in DOMAIN s : s[i] = q /\ s[j] = x /\ i < j
    BY <1>1, <2>1, <2>2, <2>3
  <2>5. \A q : (\E i, j \in DOMAIN s : s[i] = q /\ s[j] = x /\ i < j) => q \in ToSet(s)
    BY <1>1, <1>2
  <2> QED
    BY <1>2, <2>4, <2>5 DEF Befores
<1>5. Befores(t, p) = ToSet(s)
  <2>1. ASSUME NEW k \in 1 .. n PROVE s[k] \in Befores(t, p)
    <3>1. k \in DOMAIN t /\ n + 1 \in DOMAIN t /\ t[k] = s[k] /\ t[n + 1] = p /\ k < n + 1
          /\ s[k] \in ToSet(t)
      BY <1>1, <1>2
    <3> QED
      BY <3>1 DEF Befores
  <2>2. ASSUME NEW q \in Befores(t, p) PROVE q \in ToSet(s)
    <3>1. PICK i \in DOMAIN t, j \in DOMAIN t : t[i] = q /\ t[j] = p /\ i < j
      BY DEF Befores
    <3>2. i \in 1 .. n
      BY <1>1, <3>1
    <3> QED
      BY <1>1, <1>2, <3>1, <3>2
  <2> QED
    BY <1>2, <2>1, <2>2
<1> QED
  BY <1>3, <1>4, <1>5 DEF t

\* The destination of the first packet x was new to the packets qs.
NewTo(f, x, qs) ==
    f.new_destination <=> /\ DirectionFor(traffic[x]) = "outbound"
                          /\ \A q \in qs : traffic[q].dst # traffic[x].dst
\* Flow f is what the packets ps of the log s make it.
Tells(f, ps, s) ==
    /\ ps \in Seq(Arrivals) /\ ps # << >> /\ ToSet(ps) \subseteq ToSet(s)
    /\ Sums(f, ps) /\ Alarmed(f, ps) /\ Timed(f, ToSet(ps)) /\ Shortened(f)
    /\ f.app = Apps[Last(ps)]
    /\ NewTo(f, ps[1], Befores(s, ps[1]))

\* A packet of another flow in the log changes nothing.
LEMMA OthersTell ==
    ASSUME NEW s \in Seq(Arrivals), Distinct(s), NEW p \in Arrivals, p \notin ToSet(s),
           NEW f, NEW ps, Tells(f, ps, s)
    PROVE  Tells(f, ps, Append(s, p))
<1>1. ps[1] \in ToSet(s)
  <2>1. ps \in Seq(Arrivals) /\ ps # << >> /\ ToSet(ps) \subseteq ToSet(s)
    BY DEF Tells
  <2>2. 1 \in DOMAIN ps
    BY <2>1, EmptySeq, LenProperties
  <2> QED
    BY <2>1, <2>2 DEF ToSet
<1>2. Befores(Append(s, p), ps[1]) = Befores(s, ps[1])
  BY <1>1, BeforeAppend
<1>3. ToSet(s) \subseteq ToSet(Append(s, p))
  <2>1. Range(Append(s, p)) = Range(s) \cup {p}
    BY RangeAppend
  <2> QED
    BY <2>1 DEF Range, ToSet
<1> QED
  BY <1>2, <1>3 DEF Tells

\* A packet more of the flow.
LEMMA MoreTells ==
    ASSUME session \in Captures, NEW s \in Seq(Arrivals), Distinct(s), NEW p \in Arrivals,
           p \notin ToSet(s), NEW f, FlowTyped(f), NEW ps, Tells(f, ps, s),
           NEW q, q = Visible(traffic[p]), NEW created, NEW u, Advances(f, p, q, created, u)
    PROVE  Tells(u, Append(ps, p), Append(s, p))
<1> DEFINE ns == Append(ps, p)
           t == Append(s, p)
<1>1. ps \in Seq(Arrivals) /\ ps # << >> /\ ToSet(ps) \subseteq ToSet(s)
      /\ Sums(f, ps) /\ Alarmed(f, ps) /\ Timed(f, ToSet(ps))
      /\ NewTo(f, ps[1], Befores(s, ps[1]))
  BY DEF Tells
<1>2. /\ ns \in Seq(Arrivals) /\ ns # << >> /\ Last(ns) = p /\ ns[1] = ps[1]
      /\ ps[1] \in ToSet(ps)
  <2>1. /\ ns \in Seq(Arrivals) /\ Len(ns) = Len(ps) + 1 /\ ns[Len(ps) + 1] = p
        /\ \A k \in 1 .. Len(ps) : ns[k] = ps[k]
        /\ Len(ps) \in Nat \ {0} /\ DOMAIN ps = 1 .. Len(ps)
    BY <1>1, AppendProperties, EmptySeq, LenProperties
  <2>2. ns # << >> /\ 1 \in 1 .. Len(ps)
    BY <2>1, EmptySeq
  <2> QED
    BY <2>1, <2>2 DEF Last, ToSet
<1>3. ToSet(ns) = ToSet(ps) \cup {p} /\ ToSet(t) = ToSet(s) \cup {p}
  <2>1. Range(ns) = Range(ps) \cup {p} /\ Range(t) = Range(s) \cup {p}
    BY <1>1, RangeAppend
  <2> QED
    BY <2>1 DEF Range, ToSet
<1>4. Sums(u, ns) /\ Alarmed(u, ns)
  BY <1>1, SumsGrow, AlarmsGrow
<1>5. Timed(u, ToSet(ns)) /\ Shortened(u)
  <2>1. PacketTyped(q) /\ p \in ToSet(ns)
    BY <1>3, Looks
  <2>2. Timed(f, ToSet(ns))
    BY <1>1, <1>3 DEF Timed
  <2>3. u.timeline = Newest(MaxTimeline, Observed(Detected(f, p, q), p, q)
                                         \o Alarms(p, q) \o Surprise(f, p, created))
    BY DEF Advances
  <2> HIDE DEF ns
  <2> QED
    BY <2>1, <2>2, <2>3, TimelineGrows
<1>6. u.app = Apps[Last(ns)]
  BY <1>2 DEF Apps, Advances
<1>7. NewTo(u, ns[1], Befores(t, ns[1]))
  <2>1. Befores(t, ps[1]) = Befores(s, ps[1])
    BY <1>1, <1>2, BeforeAppend
  <2>2. u.new_destination = f.new_destination
    BY DEF Advances
  <2> QED
    BY <1>1, <1>2, <2>1, <2>2 DEF NewTo
<1> HIDE DEF ns, t
<1>8. Tells(u, ns, t)
  BY <1>1, <1>2, <1>3, <1>4, <1>5, <1>6, <1>7 DEF Tells
<1> QED
  BY <1>8 DEF ns, t

\* The first packet of a flow.
LEMMA FirstTells ==
    ASSUME session \in Captures, NEW s \in Seq(Arrivals), Distinct(s), NEW p \in Arrivals,
           p \notin ToSet(s), seen = {traffic[x].dst : x \in ToSet(s)},
           NEW q, q = Visible(traffic[p]), NEW f, f = NewFlow(p, q), FlowTyped(f),
           NEW created, NEW u, Advances(f, p, q, created, u)
    PROVE  Tells(u, <<p>>, Append(s, p))
<1> DEFINE ns == Append(<< >>, p)
           t == Append(s, p)
<1>1. Sums(f, << >>) /\ Alarmed(f, << >>) /\ Timed(f, {p})
  BY NewTells
<1>2. ns = <<p>> /\ ns \in Seq(Arrivals) /\ ns # << >> /\ Last(ns) = p /\ ns[1] = p /\ ToSet(ns) = {p}
  BY DEF Last, ToSet
<1>3. p \in ToSet(t)
  <2>1. Range(t) = Range(s) \cup {p}
    BY RangeAppend
  <2> QED
    BY <2>1 DEF Range, ToSet
<1>4. Sums(u, ns) /\ Alarmed(u, ns)
  <2>1. << >> \in Seq(Arrivals)
    OBVIOUS
  <2> QED
    BY <1>1, <2>1, SumsGrow, AlarmsGrow
<1>5. Timed(u, {p}) /\ Shortened(u)
  <2>1. PacketTyped(q) /\ p \in {p}
    BY Looks
  <2>2. u.timeline = Newest(MaxTimeline, Observed(Detected(f, p, q), p, q)
                                         \o Alarms(p, q) \o Surprise(f, p, created))
    BY DEF Advances
  <2> QED
    BY <1>1, <2>1, <2>2, TimelineGrows
<1>6. u.app = Apps[p]
  BY DEF Apps, Advances
<1>7. NewTo(u, p, Befores(t, p))
  <2>1. Befores(t, p) = ToSet(s)
    BY BeforeAppend
  <2>2. SameBut(q, traffic[p])
    BY Looks
  <2>3. u.new_destination = (DirectionFor(traffic[p]) = "outbound" /\ traffic[p].dst \notin seen)
    BY <2>2 DEF Advances, NewFlow, Unseen, SameBut
  <2> QED
    BY <2>1, <2>3 DEF NewTo
<1> HIDE DEF ns, t
<1>8. Tells(u, ns, t)
  BY <1>2, <1>3, <1>4, <1>5, <1>6, <1>7 DEF Tells
<1> QED
  BY <1>2, <1>8 DEF t

\* No packet is ingested twice.
Unlogged ==
    /\ Distinct(log) /\ ToSet(log) \subseteq taken
    /\ \A w \in Workers : frame[w].at \in {"enrich", "ingest"} => frame[w].packet \notin ToSet(log)

LEMMA StaysUnlogged ==
    ASSUME Shape, SessionNext, Orderly, Unlogged
    PROVE  Unlogged'
<1>1. taken \subseteq taken'
  BY WhoTakes DEF Begin
<1>2. log \in Seq(Arrivals)
  BY DEF Shape
<1>3. CASE log' = log /\ ~ \E w \in Workers : Ingest(w)
  <2>1. ASSUME NEW w \in Workers, frame'[w].at \in {"enrich", "ingest"}
        PROVE  frame'[w].packet \notin ToSet(log)
    <3>1. \/ frame'[w] = frame[w]
          \/ frame'[w].packet \notin taken
          \/ frame[w].at = "enrich" /\ frame'[w].packet = frame[w].packet
      BY <2>1, FrameComes, IdleFrame DEF From, SamePacket
    <3> QED
      BY <2>1, <3>1 DEF Unlogged
  <2> QED
    BY <1>1, <1>3, <2>1 DEF Unlogged
<1>4. ASSUME NEW w \in Workers, Ingest(w) PROVE Unlogged'
  <2> DEFINE p == frame[w].packet
  <2>1. /\ log' = Append(log, p) /\ ToSet(log') = ToSet(log) \cup {p} /\ p \in Arrivals
        /\ p \notin ToSet(log) /\ p \in taken /\ taken' = taken
        /\ From(w, "ingest", "correlate") /\ Busy(w)
    BY <1>4, IngestLogs, IngestMoves DEF Ingest, Unlogged, Shape
  <2>2. Distinct(log')
    BY <1>2, <2>1, BeforeAppend DEF Unlogged
  <2>3. ASSUME NEW v \in Workers, frame'[v].at \in {"enrich", "ingest"}
        PROVE  frame'[v].packet \notin ToSet(log')
    <3>1. v # w /\ frame'[v] = frame[v] /\ Busy(v)
      BY <2>1, <2>3 DEF From, Alone, Busy
    <3>2. frame[v].packet # p
      BY <2>1, <3>1, WorkersApart DEF SameConversation
    <3> QED
      BY <2>1, <2>3, <3>1, <3>2 DEF Unlogged
  <2> QED
    BY <2>1, <2>2, <2>3, SMTT(40) DEF Unlogged
<1>5. CASE log' = << >>
  BY <1>5, SMTT(40) DEF Unlogged, Distinct, ToSet
<1> QED
  BY <1>3, <1>4, <1>5, LogGrows

\* The conversation of every packet of the log names its flow.
Named == \A p \in ToSet(log) :
             /\ ConversationOf(traffic[p]) \in DOMAIN conversations
             /\ FlowId(traffic[p]) \in conversations[ConversationOf(traffic[p])]
\* The destinations and flows are those of the log, and each flow tells of its packets.
Tabled ==
    /\ seen = {traffic[p].dst : p \in ToSet(log)}
    /\ DOMAIN flows = {FlowId(traffic[p]) : p \in ToSet(log)}
    /\ \A id \in DOMAIN flows : Tells(flows[id], PartOf(traffic, log, id), log)
    /\ \A id : id \notin DOMAIN flows => PartOf(traffic, log, id) = << >>
    /\ Named

\* What Ingest does to the table and to its log.
LEMMA IngestTables ==
    ASSUME Shape, Unlogged, NEW w \in Workers, Ingest(w)
    PROVE  LET p == frame[w].packet
               id == FlowId(traffic[p])
               q == Visible(traffic[p])
               c == ConversationOf(traffic[p])
           IN  /\ p \in Arrivals /\ p \notin ToSet(log) /\ log' = Append(log, p)
               /\ ToSet(log') = ToSet(log) \cup {p}
               /\ seen' = seen \cup {traffic[p].dst} /\ DOMAIN flows' = DOMAIN flows \cup {id}
               /\ \A d \in DOMAIN flows \ {id} : flows'[d] = flows[d]
               /\ id \notin DOMAIN flows =>
                     \E f : f = NewFlow(p, q) /\ FlowTyped(f) /\ Advances(f, p, q, TRUE, flows'[id])
               /\ id \in DOMAIN flows => Advances(flows[id], p, q, FALSE, flows'[id])
               /\ id \in DOMAIN flows => conversations' = conversations
               /\ id \notin DOMAIN flows =>
                     /\ DOMAIN conversations' = DOMAIN conversations \cup {c}
                     /\ id \in conversations'[c]
                     /\ \A d \in DOMAIN conversations : conversations[d] \subseteq conversations'[d]
<1> DEFINE p == frame[w].packet
           q == Mine(w)
           id == FlowId(q)
           c == ConversationOf(q)
           service == Attribution(q).service
<1>1. /\ p \in Arrivals /\ SameBut(q, traffic[p])
      /\ IngestFlow(p, q, service) /\ log' = Append(log, p)
      /\ FlowTyped(Base(p, q))
      /\ Advances(Base(p, q), p, q, id \notin DOMAIN flows, flows'[id])
      /\ DOMAIN flows' = DOMAIN flows \cup {id}
      /\ \A d \in DOMAIN flows \ {id} : flows'[d] = flows[d]
      /\ seen' = seen \cup {traffic[p].dst}
  BY IngestMoves
<1>2. q = Visible(traffic[p]) /\ id = FlowId(traffic[p]) /\ c = ConversationOf(traffic[p])
  BY <1>1 DEF Mine, SameBut
<1>3. p \notin ToSet(log) /\ ToSet(log') = ToSet(log) \cup {p}
  BY IngestLogs DEF Unlogged, Ingest
<1>4. /\ id \in DOMAIN flows => conversations' = conversations
      /\ id \notin DOMAIN flows =>
            /\ DOMAIN conversations' = DOMAIN conversations \cup {c}
            /\ conversations'[c] = {id} \cup
                   (IF c \in DOMAIN conversations THEN conversations[c] ELSE {})
            /\ \A d \in DOMAIN conversations \ {c} : conversations'[d] = conversations[d]
  BY <1>1, IngestConverses
<1> HIDE DEF p, q, id, c, service
<1>5. /\ id \notin DOMAIN flows => Base(p, q) = NewFlow(p, q)
      /\ id \in DOMAIN flows => Base(p, q) = flows[id]
  BY DEF Base, id
<1>6. /\ id \notin DOMAIN flows =>
            \E f : f = NewFlow(p, q) /\ FlowTyped(f) /\ Advances(f, p, q, TRUE, flows'[id])
      /\ id \in DOMAIN flows => Advances(flows[id], p, q, FALSE, flows'[id])
  BY <1>1, <1>5
<1>7. id \notin DOMAIN flows =>
          /\ id \in conversations'[c]
          /\ \A d \in DOMAIN conversations : conversations[d] \subseteq conversations'[d]
  BY <1>4
<1>8. p = frame[w].packet
  BY DEF p
<1> QED
  BY <1>1, <1>2, <1>3, <1>4, <1>6, <1>7, <1>8

\* What a flow tells depends on the session only.
LEMMA TellsStay ==
    ASSUME session' = session, NEW f, NEW ps, NEW s, Tells(f, ps, s)
    PROVE  Tells(f, ps, s)'
<1>1. /\ Lengths' = Lengths /\ Inbounds' = Inbounds /\ Failures' = Failures
      /\ Apps' = Apps /\ Alerted' = Alerted /\ traffic' = traffic /\ Arrivals' = Arrivals
  BY PointsStay
<1>2. Sums(f, ps)'
  BY <1>1 DEF Tells, Sums
<1>3. Alarmed(f, ps)' /\ Timed(f, ToSet(ps))' /\ Shortened(f)'
  BY <1>1 DEF Tells, Alarmed, Timed, Shortened
<1>4. NewTo(f, ps[1], Befores(s, ps[1]))'
  BY <1>1 DEF Tells, NewTo
<1> QED
  BY <1>1, <1>2, <1>3, <1>4 DEF Tells

LEMMA IngestNames ==
    ASSUME Shape, Unlogged, Tabled, NEW w \in Workers, Ingest(w), session' = session
    PROVE  Named'
<1>1. PICK p, id, c :
          /\ p \in Arrivals /\ id = FlowId(traffic[p]) /\ c = ConversationOf(traffic[p])
          /\ ToSet(log') = ToSet(log) \cup {p}
          /\ id \in DOMAIN flows => conversations' = conversations
          /\ id \notin DOMAIN flows =>
                /\ DOMAIN conversations' = DOMAIN conversations \cup {c}
                /\ id \in conversations'[c]
                /\ \A d \in DOMAIN conversations : conversations[d] \subseteq conversations'[d]
  <2> DEFINE p == frame[w].packet
             id == FlowId(traffic[p])
             c == ConversationOf(traffic[p])
  <2>1. /\ p \in Arrivals /\ ToSet(log') = ToSet(log) \cup {p}
        /\ id \in DOMAIN flows => conversations' = conversations
        /\ id \notin DOMAIN flows =>
              /\ DOMAIN conversations' = DOMAIN conversations \cup {c}
              /\ id \in conversations'[c]
              /\ \A d \in DOMAIN conversations : conversations[d] \subseteq conversations'[d]
    BY IngestTables
  <2>2. id = FlowId(traffic[p]) /\ c = ConversationOf(traffic[p])
    OBVIOUS
  <2> HIDE DEF p, id, c
  <2> QED
    BY <2>1, <2>2
<1>2. traffic' = traffic
  BY DEF traffic
<1>3. ASSUME NEW x \in ToSet(log)
      PROVE  /\ ConversationOf(traffic[x]) \in DOMAIN conversations'
             /\ FlowId(traffic[x]) \in conversations'[ConversationOf(traffic[x])]
  <2>1. /\ ConversationOf(traffic[x]) \in DOMAIN conversations
        /\ FlowId(traffic[x]) \in conversations[ConversationOf(traffic[x])]
    BY DEF Tabled, Named
  <2> QED
    BY <1>1, <2>1
<1>4. c \in DOMAIN conversations' /\ id \in conversations'[c]
  <2>1. CASE id \notin DOMAIN flows
    BY <1>1, <2>1
  <2>2. CASE id \in DOMAIN flows
    <3>1. PICK x \in ToSet(log) : FlowId(traffic[x]) = id
      BY <2>2 DEF Tabled
    <3>2. ConversationOf(traffic[x]) = c
      BY <1>1, <3>1, FlowConverses
    <3> QED
      BY <1>3, <3>1, <3>2
  <2> QED
    BY <2>1, <2>2
<1>5. ASSUME NEW x \in ToSet(log')
      PROVE  /\ ConversationOf(traffic[x]) \in DOMAIN conversations'
             /\ FlowId(traffic[x]) \in conversations'[ConversationOf(traffic[x])]
  BY <1>1, <1>3, <1>4
<1> QED
  BY <1>2, <1>5 DEF Named

\* Ingesting a packet is the step that the table takes with its log.
LEMMA IngestStaysTabled ==
    ASSUME Shape, Unlogged, Tabled, NEW w \in Workers, Ingest(w), session' = session
    PROVE  Tabled'
<1>1. PICK p, id, q :
          /\ p \in Arrivals /\ id = FlowId(traffic[p]) /\ q = Visible(traffic[p])
          /\ p \notin ToSet(log) /\ log' = Append(log, p)
          /\ ToSet(log') = ToSet(log) \cup {p}
          /\ seen' = seen \cup {traffic[p].dst} /\ DOMAIN flows' = DOMAIN flows \cup {id}
          /\ \A d \in DOMAIN flows \ {id} : flows'[d] = flows[d]
          /\ id \notin DOMAIN flows =>
                \E f : f = NewFlow(p, q) /\ FlowTyped(f) /\ Advances(f, p, q, TRUE, flows'[id])
          /\ id \in DOMAIN flows => Advances(flows[id], p, q, FALSE, flows'[id])
  BY IngestTables
<1>2. /\ session \in Captures /\ log \in Seq(Arrivals) /\ Distinct(log) /\ traffic' = traffic
      /\ seen = {traffic[x].dst : x \in ToSet(log)}
      /\ DOMAIN flows = {FlowId(traffic[x]) : x \in ToSet(log)}
      /\ \A d \in DOMAIN flows : Tells(flows[d], PartOf(traffic, log, d), log) /\ FlowTyped(flows[d])
      /\ \A d : d \notin DOMAIN flows => PartOf(traffic, log, d) = << >>
  BY DEF Shape, Unlogged, Tabled, FlowsTyped, traffic
<1>3. /\ seen' = {traffic'[x].dst : x \in ToSet(log')}
      /\ DOMAIN flows' = {FlowId(traffic'[x]) : x \in ToSet(log')}
  BY <1>1, <1>2
<1>4. \A d : PartOf(traffic, log', d) = IF id = d THEN Append(PartOf(traffic, log, d), p)
                                        ELSE PartOf(traffic, log, d)
  BY <1>1, <1>2, PartAppend
<1>5. ASSUME NEW d \in DOMAIN flows' PROVE Tells(flows'[d], PartOf(traffic, log', d), log')
  <2>1. CASE d # id
    <3>1. d \in DOMAIN flows /\ flows'[d] = flows[d]
      BY <1>1, <2>1
    <3>2. PICK f, ps : f = flows[d] /\ ps = PartOf(traffic, log, d)
      OBVIOUS
    <3>3. Tells(f, ps, Append(log, p))
      <4>1. Tells(f, ps, log)
        BY <1>2, <3>1, <3>2
      <4> QED
        BY <1>1, <1>2, <4>1, OthersTell
    <3> QED
      BY <1>1, <1>4, <2>1, <3>1, <3>2, <3>3
  <2>2. CASE d = id /\ id \in DOMAIN flows
    <3>1. PICK f, ps, u : f = flows[id] /\ ps = PartOf(traffic, log, id) /\ u = flows'[id]
      OBVIOUS
    <3>2. Tells(f, ps, log) /\ FlowTyped(f)
      BY <1>2, <2>2, <3>1
    <3>3. Advances(f, p, q, FALSE, u)
      BY <1>1, <2>2, <3>1
    <3>4. Tells(u, Append(ps, p), Append(log, p))
      BY <1>1, <1>2, <3>2, <3>3, MoreTells
    <3> QED
      BY <1>1, <1>4, <2>2, <3>1, <3>4
  <2>3. CASE d = id /\ id \notin DOMAIN flows
    <3>1. PICK f : f = NewFlow(p, q) /\ FlowTyped(f) /\ Advances(f, p, q, TRUE, flows'[id])
      BY <1>1, <2>3
    <3>2. PICK u : u = flows'[id]
      OBVIOUS
    <3>3. Advances(f, p, q, TRUE, u)
      BY <3>1, <3>2
    <3>4. Tells(u, <<p>>, Append(log, p))
      BY <1>1, <1>2, <3>1, <3>3, FirstTells
    <3>5. PartOf(traffic, log', id) = Append(<< >>, p)
      BY <1>2, <1>4, <2>3
    <3>6. Append(<< >>, p) = <<p>>
      OBVIOUS
    <3> QED
      BY <1>1, <2>3, <3>2, <3>4, <3>5, <3>6
  <2> QED
    BY <2>1, <2>2, <2>3
<1>6. ASSUME NEW d \in DOMAIN flows' PROVE Tells(flows[d], PartOf(traffic, log, d), log)'
  <2>1. PICK f, ps, s : f = flows'[d] /\ ps = PartOf(traffic, log', d) /\ s = log'
    OBVIOUS
  <2>2. Tells(f, ps, s)
    BY <1>5, <2>1
  <2>3. Tells(f, ps, s)'
    BY <2>2, TellsStay
  <2> QED
    BY <1>2, <2>1, <2>3
<1>7. \A d : d \notin DOMAIN flows' => PartOf(traffic', log', d) = << >>
  BY <1>1, <1>2, <1>4
<1>8. Named'
  BY IngestNames
<1> QED
  BY <1>3, <1>6, <1>7, <1>8 DEF Tabled

LEMMA SameTabled ==
    ASSUME Tabled, UNCHANGED <<session, flowVars, log>>
    PROVE  Tabled'
<1>1. /\ flows' = flows /\ conversations' = conversations /\ seen' = seen /\ log' = log
      /\ session' = session /\ traffic' = traffic
  BY DEF flowVars, traffic
<1>2. ASSUME NEW d \in DOMAIN flows' PROVE Tells(flows[d], PartOf(traffic, log, d), log)'
  <2>1. PICK f, ps, s : f = flows[d] /\ ps = PartOf(traffic, log, d) /\ s = log
    OBVIOUS
  <2>2. Tells(f, ps, s)
    BY <1>1, <2>1 DEF Tabled
  <2>3. Tells(f, ps, s)'
    BY <1>1, <2>2, TellsStay
  <2> QED
    BY <1>1, <2>1, <2>3
<1>3. Named'
  BY <1>1 DEF Tabled, Named
<1> QED
  BY <1>1, <1>2, <1>3 DEF Tabled

LEMMA StaysTabled ==
    ASSUME Shape, SessionNext, Unlogged, Tabled
    PROVE  Tabled'
<1>1. session' = session
  BY SameSession
<1>2. CASE UNCHANGED <<flowVars, log, era>>
  BY <1>1, <1>2, SameTabled
<1>3. ASSUME NEW w \in Workers, Ingest(w) PROVE Tabled'
  BY <1>1, <1>3, IngestStaysTabled
<1>4. CASE ResetFlowTable
  <2>1. log' = << >> /\ DOMAIN flows' = {} /\ seen' = {}
    BY <1>4, ResetsFlows DEF ResetFlowTable
  <2>2. ToSet(log') = {}
    BY <2>1 DEF ToSet
  <2>3. \A id : PartOf(traffic', log', id) = << >>
    BY <2>1, PartEmpty
  <2> QED
    BY <2>1, <2>2, <2>3 DEF Tabled, Named
<1> QED
  BY <1>2, <1>3, <1>4, WhoIngests

LEMMA BeginsTabled ==
    ASSUME SessionInit
    PROVE  Unlogged /\ Tabled /\ Readable
<1>1. /\ log = << >> /\ flows = << >> /\ conversations = << >> /\ seen = {}
      /\ frame = [w \in Workers |-> Idle]
  BY DEF SessionInit, FlowInit
<1>2. ToSet(log) = {} /\ Distinct(log) /\ DOMAIN flows = {} /\ DOMAIN conversations = {}
  BY <1>1 DEF ToSet, Distinct
<1>3. Unlogged
  BY <1>1, <1>2, IdleFrame DEF Unlogged
<1>4. \A id : PartOf(traffic, log, id) = << >>
  BY <1>1, PartEmpty
<1>5. Tabled
  BY <1>1, <1>2, <1>4 DEF Tabled, Named
<1> QED
  BY <1>2, <1>3, <1>5 DEF Readable

LEMMA TellsExpected ==
    ASSUME NEW id, NEW f, Tells(f, PartOf(traffic, log, id), log)
    PROVE  Expected(f, id)
<1> DEFINE ps == PartOf(traffic, log, id)
<1>1. /\ ps \in Seq(Arrivals) /\ ps # << >>
      /\ Sums(f, ps) /\ Alarmed(f, ps) /\ Timed(f, ToSet(ps)) /\ Shortened(f)
      /\ f.app = Apps[Last(ps)] /\ NewTo(f, ps[1], Befores(log, ps[1]))
  BY DEF Tells
<1>2. LogOf(id) = ps
  BY LogOfIs
<1> HIDE DEF ps
<1>3. f.app = AppProtocol(Visible(traffic[Last(ps)]))
  <2>1. Last(ps) \in Arrivals
    BY <1>1, EmptySeq, LenProperties, ElementOfSeq DEF Last
  <2> QED
    BY <1>1, <2>1 DEF Apps
<1>4. ToSet(f.alert_ids) = UNION {ToSet(AlertIds(p, traffic[p])) : p \in ToSet(ps)}
  <2>1. \A p \in ToSet(ps) : p \in Arrivals
    BY <1>1, ElementOfSeq, LenProperties DEF ToSet
  <2>2. \A p \in ToSet(ps) : Alerted[p] = ToSet(AlertIds(p, traffic[p]))
    BY <2>1 DEF Alerted
  <2>3. ToSet(f.alert_ids) = UNION {Alerted[p] : p \in ToSet(ps)}
    BY <1>1 DEF Alarmed
  <2> QED
    BY <2>2, <2>3
<1> DEFINE first == traffic[ps[1]]
           earlier == {q \in ToSet(log) : \E i, j \in DOMAIN log :
                          log[i] = q /\ log[j] = ps[1] /\ i < j}
<1>5. f.new_destination <=> /\ DirectionFor(first) = "outbound"
                            /\ \A q \in earlier : traffic[q].dst # first.dst
  BY <1>1 DEF NewTo, Befores
<1>6. /\ f.packets = Len(ps)
      /\ f.bytes = SumOver(ps, Lengths) /\ f.received = SumOver(ps, Inbounds)
      /\ f.sent + f.received = f.bytes
      /\ f.dns_failures = SumOver(ps, Failures)
      /\ f.samples = SubSeq(ps, 1, AtMost(MaxSamples, Len(ps)))
      /\ Len(f.timeline) <= MaxTimeline /\ Last(f.timeline).packet \in ToSet(ps)
  BY <1>1 DEF Sums, Timed, Shortened
<1> QED
  BY <1>2, <1>3, <1>4, <1>5, <1>6 DEF Expected, Lengths, Inbounds, Failures

LEMMA TabledMatches ==
    ASSUME Tabled, Readable
    PROVE  TableMatchesLog
<1>1. DOMAIN flows = {FlowId(traffic[p]) : p \in ToSet(log)}
  BY DEF Tabled
<1>2. ASSUME NEW id \in DOMAIN flows PROVE Expected(flows[id], id)
  BY TellsExpected DEF Tabled
<1>3. \A p \in ToSet(log) : FlowId(traffic[p]) \in conversations[ConversationOf(traffic[p])]
  BY DEF Tabled, Named
<1>4. UNION {conversations[c] : c \in DOMAIN conversations} = DOMAIN flows
  <2>1. ASSUME NEW id \in DOMAIN flows PROVE \E c \in DOMAIN conversations : id \in conversations[c]
    BY <1>1 DEF Tabled, Named
  <2> QED
    BY <2>1 DEF Readable
<1> QED
  BY <1>1, <1>2, <1>3, <1>4 DEF TableMatchesLog

\* The flow table is what one gets from the log of the packets ingested since it was emptied,
\* one by one and in whatever order the workers took them: each flow's counts, lists, samples
\* and remarks are those of its own packets, and the conversations group just these flows.
THEOREM TableIsItsLog == SessionSpec => []TableMatchesLog
<1>1. SessionInit => Unlogged /\ Tabled /\ Readable
  BY BeginsTabled
<1>2. Shape /\ Viewing /\ Unlogged /\ Tabled /\ Readable /\ [SessionNext]_sessionVars
      => Unlogged' /\ Tabled' /\ Readable'
  <2> SUFFICES ASSUME Shape, Viewing, Unlogged, Tabled, Readable, [SessionNext]_sessionVars
               PROVE  Unlogged' /\ Tabled' /\ Readable'
    OBVIOUS
  <2>1. CASE SessionNext
    BY <2>1, StaysUnlogged, StaysTabled, StaysReadable DEF Viewing
  <2>2. CASE UNCHANGED sessionVars
    <3>1. /\ UNCHANGED <<session, flowVars, log>>
          /\ taken' = taken /\ frame' = frame /\ log' = log
          /\ flows' = flows /\ conversations' = conversations
      BY <2>2 DEF sessionVars, views, history, flowVars
    <3>2. Unlogged'
      BY <3>1 DEF Unlogged
    <3>3. Readable'
      BY <3>1 DEF Readable
    <3> QED
      BY <3>1, <3>2, <3>3, SameTabled
  <2> QED
    BY <2>1, <2>2
<1>3. Tabled /\ Readable => TableMatchesLog
  BY TabledMatches
<1> QED
  BY <1>1, <1>2, <1>3, ShapeHolds, ViewingHolds, PTL DEF SessionSpec

=============================================================================
