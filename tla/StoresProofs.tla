----------------------------- MODULE StoresProofs -----------------------------
(***************************************************************************)
(* What four stores of the backend promise, whatever interleaves.          *)
(*                                                                         *)
(* The agents, for any number of agents, request threads, faults and seeds:*)
(* a report whose runner has had its answer is kept (AckedIsKept), the     *)
(* dashboard shows of an agent what a restart would read (MemoryAgrees),   *)
(* and the row of an agent does not go back (ReportsAdvance).  The first   *)
(* invariant follows a report from its handler to the runner: once the     *)
(* handler has the answer 200 the report is in every table, and what takes *)
(* entries out of the tables (retention, the reset of the demo data) spares*)
(* it, because it is recent and its agent is not a demo agent.  The others *)
(* rest on the lock of a registry object and the numbers of the reports.   *)
(*                                                                         *)
(* Settings, for any finite set of settings and any number of threads,     *)
(* updates and faults: the cache, the file and the switch agree between    *)
(* updates unless updates have met or saving has failed (InStep), and an   *)
(* update that met no other changes only what it asks for (NothingLost).   *)
(* update_settings holds no lock from its copy to the end.  What replaces  *)
(* it in the proof is that a thread outside together is alone (Solitude);  *)
(* the rest says how far such an update has come.                          *)
(*                                                                         *)
(* Custom filters, for any number of clients, requests and faults: their   *)
(* file holds what the answers said (AnswersKept).  A request writes the   *)
(* rows it has read.  The invariant says why that is no lost update: who   *)
(* has read holds the lock (LockHeld), and nobody else has written since   *)
(* (ReadIsCurrent).                                                        *)
(*                                                                         *)
(* Flow snapshots, for any threads, flows, packets and sizes: the row of a *)
(* flow is the newest copy that was taken and not given up, once none of   *)
(* the flow waits (NewestIsStored).  The copies of a flow stand in order   *)
(* from the table over the batch and the queue to the hand of its thread   *)
(* (InOrder, HandIsNewest), so the last of a batch is newer than the table *)
(* and older than what waits, retried or not.                              *)
(***************************************************************************)
EXTENDS AgentRegistry, Settings, SavedFilters, FlowSnapshots, QueueLemmas

-----------------------------------------------------------------------------
(* Types. *)

\* The score is a number whatever the report says.
LEMMA RiskIsInt ==
    ASSUME NEW status, NEW p \in Payloads
    PROVE  RiskScore(status, p) \in Int
<1>1. /\ p.critical \in Nat /\ p.high \in Nat /\ p.medium \in Nat /\ p.low \in Nat
      /\ p.cpu \in Nat /\ p.memory \in Nat /\ p.disk \in Nat
  BY AgentAssumption
<1>2. \A v \in Nat : Pressure(v) \in Nat
  BY DEF Pressure
<1>3. Pressure(p.cpu) \in Nat /\ Pressure(p.memory) \in Nat /\ Pressure(p.disk) \in Nat
  BY <1>1, <1>2
<1> QED
  BY <1>1, <1>3 DEF RiskScore

\* A handler turns a typed record, or none at a registration, into a typed record.
LEMMA NewRecordTyped ==
    ASSUME TypeOK, NEW r \in Request, NEW old \in Record \cup {None},
           old # None \/ r.kind = "register"
    PROVE  NewRecord(old, r) \in Record
<1>1. Registered(old) \in Record
  BY DEF Registered, Record, TypeOK
<1>2. CASE r.kind = "register"
  BY <1>1, <1>2 DEF NewRecord
<1>3. CASE r.kind # "register"
  <2>1. old \in Record /\ r.kind \in {"heartbeat", "telemetry"} /\ now \in Int
    BY <1>3 DEF Request, Kinds, TypeOK
  <2>2. Seen(old) \in Record
    BY <2>1 DEF Seen, Record
  <2>3. RiskScore(Status(old), r.payload) \in Int
    BY RiskIsInt DEF Request
  <2>4. Reported(old, r) \in Record
    BY <2>1, <2>3 DEF Reported, Record, Request
  <2> QED BY <2>1, <2>2, <2>4 DEF NewRecord
<1> QED BY <1>2, <1>3

LEMMA TypeInit == Init => TypeOK
<1> SUFFICES ASSUME Init PROVE TypeOK
  OBVIOUS
<1>1. 0 \in Objects
  BY AgentAssumption DEF Objects
<1>2. FreshRunner \in Loop
  <2>1. <<>> \in Seq(Kinds)
    OBVIOUS
  <2> QED BY <2>1 DEF FreshRunner, Loop, FirstPause
<1>3. runner \in [Agents -> Loop]
  BY <1>2 DEF Init
<1>4. row \in [Everyone -> Record \cup {None}] /\ memory \in [Objects -> [Everyone -> Record \cup {None}]]
  BY DEF Init, Blank
<1>5. tables \in [Tables -> SUBSET Entries] /\ acked \subseteq Entries /\ lagging \subseteq Everyone
  BY DEF Init
<1>6. seed \in [at : {"idle", "write", "swap"}, left : SUBSET DemoAgents, object : Objects]
  BY <1>1 DEF Init
<1>7. due \in [Agents -> SUBSET Kinds] /\ sent \in [Agents -> Nat]
  BY DEF Init, Kinds
<1>8. holder \in [Objects -> Threads \cup {None}] /\ request \in [Threads -> {IdleRequest} \cup Request]
  BY DEF Init
<1>9. store \in {"sqlite", "jsonl"} /\ torn \in BOOLEAN /\ current \in Objects
      /\ now \in Nat /\ faults \in Nat /\ seeds \in Objects
  BY <1>1, AgentAssumption DEF Init
<1> QED
  BY <1>3, <1>4, <1>5, <1>6, <1>7, <1>8, <1>9 DEF TypeOK

\* What a runner does after an answer keeps its state typed.
LEMMA FailureTyped ==
    ASSUME NEW r \in Loop
    PROVE  AfterFailure(r) \in Loop
<1> DEFINE pause == IF 2 * r.pause > BackoffCap THEN BackoffCap ELSE 2 * r.pause
<1>1. r.pause \in Nat /\ BackoffCap \in Nat
  BY AgentAssumption DEF Loop
<1>2. pause \in Nat
  BY <1>1
<1>3. <<>> \in Seq(Kinds)
  OBVIOUS
<1> DEFINE back == [r EXCEPT !.registered = FALSE, !.plan = <<>>, !.waits = None]
<1>4. back \in Loop
  BY <1>3 DEF Loop
<1>5. AfterFailure(r) = [back EXCEPT !.pause = pause]
  BY DEF AfterFailure
<1> HIDE DEF pause, back
<1>6. [back EXCEPT !.pause = pause] \in Loop
  BY <1>2, <1>4 DEF Loop
<1> QED BY <1>5, <1>6

LEMMA SuccessTyped ==
    ASSUME NEW r \in Loop, r.plan # <<>>
    PROVE  AfterSuccess(r) \in Loop
<1>1. Tail(r.plan) \in Seq(Kinds)
  BY DEF Loop
<1>2. [r EXCEPT !.plan = Tail(@), !.waits = None] \in Loop
  BY <1>1 DEF Loop
<1>3. ASSUME NEW d \in Loop PROVE [d EXCEPT !.registered = TRUE, !.pause = FirstPause] \in Loop
  BY DEF Loop, FirstPause
<1> QED BY <1>2, <1>3 DEF AfterSuccess

\* Ending a call, with whatever status, keeps the requests typed.
LEMMA FinishTyped ==
    ASSUME TypeOK, NEW t \in Threads, request[t].at # "idle", NEW status \in Int,
           Finish(t, status)
    PROVE  request' \in [Threads -> {IdleRequest} \cup Request]
<1>1. request[t] \in Request
  BY DEF TypeOK, IdleRequest
<1>2. [request[t] EXCEPT !.at = "answer", !.status = status] \in Request
  BY <1>1 DEF Request
<1> QED BY <1>2 DEF Finish, TypeOK

\* Moving a call to its next point keeps the requests typed.
LEMMA MoveTyped ==
    ASSUME TypeOK, NEW t \in Threads, request[t].at # "idle",
           NEW at \in {"verify", "call", "lock", "upsert", "insert", "answer"},
           request' = [request EXCEPT ![t].at = at]
    PROVE  request' \in [Threads -> {IdleRequest} \cup Request]
<1>1. request[t] \in Request
  BY DEF TypeOK, IdleRequest
<1>2. [request[t] EXCEPT !.at = at] \in Request
  BY <1>1 DEF Request
<1> QED BY <1>2 DEF TypeOK

LEMMA EntryTyped ==
    ASSUME NEW r \in Request PROVE Entry(r) \in Entries
BY DEF Entry, Entries, Request, Everyone

LEMMA AdvanceTyped ==
    ASSUME TypeOK, NEW t \in Threads, request[t].at \in {"upsert", "insert"}, Advance(t)
    PROVE  /\ request' \in [Threads -> {IdleRequest} \cup Request]
           /\ holder' \in [Objects -> Threads \cup {None}]
<1>1. CASE request[t].at = "upsert" /\ Len(Stages(request[t].kind)) = 2
  <2>1. request' = [request EXCEPT ![t].at = "insert"] /\ holder' = holder
    BY <1>1 DEF Advance
  <2> QED BY <2>1, MoveTyped DEF TypeOK
<1>2. CASE ~(request[t].at = "upsert" /\ Len(Stages(request[t].kind)) = 2)
  <2>1. Finish(t, 200) /\ holder' = [holder EXCEPT ![request[t].object] = None]
    BY <1>2 DEF Advance
  <2>2. holder' \in [Objects -> Threads \cup {None}]
    BY <2>1 DEF TypeOK
  <2> QED BY <2>1, <2>2, FinishTyped
<1> QED BY <1>1, <1>2

-----------------------------------------------------------------------------
(* A request somebody waits for is the one its runner is making. *)

Matched == \A t \in Threads : (request[t].at # "idle" /\ request[t].waiting) =>
    runner[request[t].agent].waits = t /\ runner[request[t].agent].plan # <<>>

LEMMA TypeStep == TypeOK /\ Matched /\ [Next]_vars => TypeOK'
<1> SUFFICES ASSUME TypeOK, Matched, [Next]_vars PROVE TypeOK'
  OBVIOUS
<1> USE DEF stored, objects, client
<1>1. ASSUME NEW a \in Agents, Begin(a) PROVE TypeOK'
  <2>1. Pass(a) \in Seq(Kinds)
    <3>1. /\ <<>> \in Seq(Kinds) /\ <<"register">> \in Seq(Kinds)
          /\ <<"heartbeat">> \in Seq(Kinds) /\ <<"telemetry">> \in Seq(Kinds)
      BY DEF Kinds
    <3>2. \A p, q \in Seq(Kinds) : p \o q \in Seq(Kinds)
      OBVIOUS
    <3> QED BY <3>1, <3>2 DEF Pass
  <2>2. [runner[a] EXCEPT !.plan = Pass(a)] \in Loop
    <3>1. runner[a] \in Loop
      BY DEF TypeOK
    <3> QED BY <2>1, <3>1 DEF Loop
  <2>3. runner' \in [Agents -> Loop]
    BY <1>1, <2>2 DEF Begin, TypeOK
  <2> QED BY <1>1, <2>3 DEF Begin, TypeOK
<1>2. ASSUME NEW a \in Agents, Refused(a) PROVE TypeOK'
  BY <1>2, FailureTyped DEF Refused, TypeOK
<1>3. ASSUME NEW a \in Agents, Timeout(a) PROVE TypeOK'
  <2> DEFINE t == runner[a].waits
  <2>1. t \in Threads
    BY <1>3 DEF Timeout, TypeOK, Loop
  <2>2. request' \in [Threads -> {IdleRequest} \cup Request]
    <3>1. [request[t] EXCEPT !.waiting = FALSE] \in {IdleRequest} \cup Request
      <4>1. CASE request[t] = IdleRequest
        BY <4>1 DEF IdleRequest
      <4>2. CASE request[t] \in Request
        BY <4>2 DEF Request
      <4> QED BY <2>1, <4>1, <4>2 DEF TypeOK
    <3> QED BY <1>3, <2>1, <3>1 DEF Timeout, TypeOK
  <2>3. runner' \in [Agents -> Loop]
    BY <1>3, FailureTyped DEF Timeout, TypeOK
  <2> QED BY <1>3, <2>2, <2>3 DEF Timeout, TypeOK
<1>4. ASSUME NEW a \in Agents, NEW t \in Threads, Send(a, t) PROVE TypeOK'
  <2>1. Head(runner[a].plan) \in Kinds
    BY <1>4 DEF Send, TypeOK, Loop
  <2>2. 0 \in Objects
    BY AgentAssumption DEF Objects
  <2>3. request' \in [Threads -> {IdleRequest} \cup Request]
    BY <1>4, <2>1, <2>2 DEF Send, TypeOK, Request
  <2>4. sent' \in [Agents -> Nat]
    BY <1>4 DEF Send, TypeOK
  <2>5. runner' \in [Agents -> Loop]
    <3>1. [runner[a] EXCEPT !.waits = t] \in Loop
      <4>1. runner[a] \in Loop
        BY DEF TypeOK
      <4> QED BY <4>1 DEF Loop
    <3> QED BY <1>4, <3>1 DEF Send, TypeOK
  <2> QED BY <1>4, <2>3, <2>4, <2>5 DEF Send, TypeOK
<1>5. ASSUME NEW t \in Threads, Verify(t) PROVE TypeOK'
  <2>1. request' \in [Threads -> {IdleRequest} \cup Request]
    BY <1>5, FinishTyped, MoveTyped DEF Verify
  <2> QED BY <1>5, <2>1 DEF Verify, TypeOK
<1>6. ASSUME NEW t \in Threads, Call(t) PROVE TypeOK'
  <2>1. request[t] \in Request
    BY <1>6 DEF Call, TypeOK, IdleRequest
  <2>2. [request[t] EXCEPT !.at = "lock", !.object = current] \in Request
    BY <2>1 DEF Request, TypeOK
  <2>3. request' \in [Threads -> {IdleRequest} \cup Request]
    BY <1>6, <2>2 DEF Call, TypeOK
  <2> QED BY <1>6, <2>3 DEF Call, TypeOK
<1>7. ASSUME NEW t \in Threads, Enter(t) PROVE TypeOK'
  <2> DEFINE r == request[t]
             old == memory[r.object][r.agent]
  <2>1. r \in Request
    BY <1>7 DEF Enter, TypeOK, IdleRequest
  <2>2. old \in Record \cup {None}
    BY <2>1 DEF TypeOK, Request, Everyone
  <2>3. CASE old = None /\ r.kind # "register"
    <3>1. Finish(t, 404) /\ UNCHANGED objects
      BY <1>7, <2>3 DEF Enter
    <3>2. request' \in [Threads -> {IdleRequest} \cup Request]
      BY <1>7, <3>1, FinishTyped DEF Enter
    <3> QED BY <1>7, <3>1, <3>2 DEF Enter, TypeOK
  <2>4. CASE ~(old = None /\ r.kind # "register")
    <3>1. NewRecord(old, r) \in Record
      BY <2>1, <2>2, <2>4, NewRecordTyped
    <3>2. /\ memory' = [memory EXCEPT ![r.object][r.agent] = NewRecord(old, r)]
          /\ holder' = [holder EXCEPT ![r.object] = t]
          /\ request' = [request EXCEPT ![t].at = "upsert", ![t].heard = now]
          /\ current' = current
      BY <1>7, <2>4 DEF Enter
    <3>3. memory' \in [Objects -> [Everyone -> Record \cup {None}]]
      BY <2>1, <3>1, <3>2 DEF TypeOK, Request
    <3>4. [request[t] EXCEPT !.at = "upsert", !.heard = now] \in Request
      <4>1. now \in Int
        BY DEF TypeOK
      <4> QED BY <2>1, <4>1 DEF Request
    <3>5. request' \in [Threads -> {IdleRequest} \cup Request]
      BY <3>2, <3>4 DEF TypeOK
    <3> QED BY <1>7, <3>2, <3>3, <3>5 DEF Enter, TypeOK
  <2> QED BY <2>3, <2>4
<1>8. ASSUME NEW t \in Threads, Upsert(t) PROVE TypeOK'
  <2>1. request[t] \in Request
    BY <1>8 DEF Upsert, TypeOK, IdleRequest
  <2>2. /\ request' \in [Threads -> {IdleRequest} \cup Request]
        /\ holder' \in [Objects -> Threads \cup {None}]
    BY <1>8, AdvanceTyped DEF Upsert
  <2>3. row' \in [Everyone -> Record \cup {None}]
    BY <1>8, <2>1 DEF Upsert, TypeOK, Request, Everyone
  <2>4. lagging' \subseteq Everyone
    BY <1>8, <2>1 DEF Upsert, Lag, TypeOK, Request, Everyone
  <2> QED BY <1>8, <2>2, <2>3, <2>4 DEF Upsert, TypeOK
<1>9. ASSUME NEW t \in Threads, Insert(t) PROVE TypeOK'
  <2>1. Entry(request[t]) \in Entries
    BY <1>9, EntryTyped DEF Insert, TypeOK, IdleRequest
  <2>2. /\ request' \in [Threads -> {IdleRequest} \cup Request]
        /\ holder' \in [Objects -> Threads \cup {None}]
    BY <1>9, AdvanceTyped DEF Insert
  <2>3. tables' \in [Tables -> SUBSET Entries]
    BY <1>9, <2>1 DEF Insert, TypeOK
  <2> QED BY <1>9, <2>2, <2>3 DEF Insert, TypeOK
<1>10. ASSUME NEW t \in Threads, FailWrite(t) PROVE TypeOK'
  <2>1. request[t] \in Request
    BY <1>10 DEF FailWrite, TypeOK, IdleRequest
  <2>2. request' \in [Threads -> {IdleRequest} \cup Request]
    BY <1>10, FinishTyped DEF FailWrite
  <2>3. holder' \in [Objects -> Threads \cup {None}]
    BY <1>10 DEF FailWrite, TypeOK
  <2>4. lagging' \subseteq Everyone
    BY <1>10, <2>1 DEF FailWrite, TypeOK, Request, Everyone
  <2>5. torn' \in BOOLEAN /\ faults' \in Nat
    <3>1. torn \in BOOLEAN /\ faults \in Nat
      BY DEF TypeOK
    <3>2. torn' \in {torn, TRUE} /\ faults' = faults + 1
      BY <1>10 DEF FailWrite
    <3>3. torn' \in BOOLEAN
      BY <3>1, <3>2, Zenon
    <3>4. faults' \in Nat
      BY <3>1, <3>2
    <3> QED BY <3>3, <3>4
  <2> QED BY <1>10, <2>2, <2>3, <2>4, <2>5 DEF FailWrite, TypeOK
<1>11. ASSUME NEW t \in Threads, Answer(t) PROVE TypeOK'
  <2> DEFINE a == request[t].agent
  <2>1. request[t] \in Request
    BY <1>11 DEF Answer, TypeOK, IdleRequest
  <2>2. request' \in [Threads -> {IdleRequest} \cup Request]
    BY <1>11 DEF Answer, TypeOK
  <2>3. a \in Agents /\ Entry(request[t]) \in Entries
    BY <2>1, EntryTyped DEF Request
  <2>4. runner[a] \in Loop /\ AfterFailure(runner[a]) \in Loop
    BY <2>3, FailureTyped DEF TypeOK
  <2>5. acked' \subseteq Entries /\ due' \in [Agents -> SUBSET Kinds]
    BY <1>11, <2>3 DEF Answer, TypeOK
  <2>6. CASE ~request[t].waiting
    <3>1. runner' = runner
      BY <1>11, <2>6 DEF Answer
    <3> QED BY <1>11, <2>2, <2>5, <3>1 DEF Answer, TypeOK
  <2>7. CASE request[t].waiting
    <3>1. AfterSuccess(runner[a]) \in Loop
      BY <1>11, <2>3, <2>4, <2>7, SuccessTyped DEF Answer, Matched
    <3>2. runner' \in [Agents -> Loop]
      BY <1>11, <2>3, <2>4, <2>7, <3>1 DEF Answer, TypeOK
    <3> QED BY <1>11, <2>2, <2>5, <3>2 DEF Answer, TypeOK
  <2> QED BY <2>6, <2>7
<1>12. ASSUME SeedStart PROVE TypeOK'
  <2>1. Loaded \in [Everyone -> Record \cup {None}]
    BY DEF Loaded, Blank, TypeOK
  <2>2. row' \in [Everyone -> Record \cup {None}]
    BY <1>12 DEF SeedStart, TypeOK
  <2>3. tables' \in [Tables -> SUBSET Entries]
    BY <1>12 DEF SeedStart, TypeOK
  <2>4. seeds' \in Objects
    <3>1. seeds \in 0..MaxSeeds /\ MaxSeeds \in Nat
      BY AgentAssumption DEF TypeOK, Objects
    <3>2. seeds < MaxSeeds /\ seeds' = seeds + 1
      BY <1>12 DEF SeedStart
    <3> QED BY <3>1, <3>2 DEF Objects
  <2>5. seed' \in [at : {"idle", "write", "swap"}, left : SUBSET DemoAgents, object : Objects]
    BY <1>12 DEF SeedStart, TypeOK
  <2> QED BY <1>12, <2>2, <2>3, <2>4, <2>5 DEF SeedStart, TypeOK
<1>13. ASSUME NEW a \in DemoAgents, SeedAgent(a) PROVE TypeOK'
  <2>1. PICK p \in Payloads :
          LET r == [agent |-> a, id |-> 1, heard |-> now, payload |-> p]
              told == Reported(Registered(None), r)
          IN  /\ row' = [row EXCEPT ![a] = IF a \in AwayAgents /\ store = "sqlite"
                                           THEN LongAgo(told) ELSE told]
              /\ tables' = [k \in Tables |-> tables[k] \cup {Entry(r)}]
    BY <1>13 DEF SeedAgent
  <2> DEFINE r == [agent |-> a, id |-> 1, heard |-> now, payload |-> p]
             told == Reported(Registered(None), r)
  <2>2. told \in Record
    <3>1. RiskScore(Status(Registered(None)), p) \in Int
      BY RiskIsInt
    <3> QED BY <3>1 DEF Reported, Record, TypeOK
  <2>3. LongAgo(told) \in Record
    <3>1. now - OfflineAfter - 1 \in Int
      BY AgentAssumption DEF TypeOK
    <3> HIDE DEF told
    <3> QED BY <2>2, <3>1 DEF LongAgo, Record
  <2>4. Entry(r) \in Entries
    BY DEF Entry, Entries, Everyone, TypeOK
  <2>5. row' \in [Everyone -> Record \cup {None}] /\ tables' \in [Tables -> SUBSET Entries]
    <3> HIDE DEF told, r
    <3>1. row' = [row EXCEPT ![a] = IF a \in AwayAgents /\ store = "sqlite"
                                           THEN LongAgo(told) ELSE told]
          /\ tables' = [k \in Tables |-> tables[k] \cup {Entry(r)}]
      BY <2>1 DEF told, r
    <3> QED BY <2>2, <2>3, <2>4, <3>1 DEF TypeOK
  <2>6. seed' \in [at : {"idle", "write", "swap"}, left : SUBSET DemoAgents, object : Objects]
    BY <1>13 DEF SeedAgent, TypeOK
  <2> QED BY <1>13, <2>5, <2>6 DEF SeedAgent, TypeOK
<1>14. ASSUME SeedReload PROVE TypeOK'
  <2>1. Loaded \in [Everyone -> Record \cup {None}]
    BY DEF Loaded, Blank, TypeOK
  <2>2. seed' \in [at : {"idle", "write", "swap"}, left : SUBSET DemoAgents, object : Objects]
    BY <1>14 DEF SeedReload, TypeOK
  <2> QED BY <1>14, <2>1, <2>2 DEF SeedReload, TypeOK
<1>15. ASSUME SeedSwap PROVE TypeOK'
  BY <1>15 DEF SeedSwap, TypeOK
<1>16. ASSUME Tick PROVE TypeOK'
  BY <1>16 DEF Tick, TypeOK, Kinds
<1>17. ASSUME Cleanup PROVE TypeOK'
  BY <1>17 DEF Cleanup, TypeOK
<1>18. ASSUME Crash PROVE TypeOK'
  <2>1. 0 \in Objects
    BY AgentAssumption DEF Objects
  <2>2. runner' \in [Agents -> Loop]
    BY <1>18, FailureTyped DEF Crash, TypeOK
  <2>3. memory' \in [Objects -> [Everyone -> Record \cup {None}]]
    BY <1>18 DEF Crash, TypeOK, Blank
  <2>4. seed' \in [at : {"idle", "write", "swap"}, left : SUBSET DemoAgents, object : Objects]
    BY <1>18, <2>1 DEF Crash
  <2>5. torn' \in BOOLEAN /\ faults' \in Nat
    <3>1. torn \in BOOLEAN /\ faults \in Nat
      BY DEF TypeOK
    <3>2. torn' \in {torn, TRUE} /\ faults' = faults + 1
      BY <1>18 DEF Crash
    <3>3. torn' \in BOOLEAN
      BY <3>1, <3>2, Zenon
    <3>4. faults' \in Nat
      BY <3>1, <3>2
    <3> QED BY <3>3, <3>4
  <2> QED BY <1>18, <2>1, <2>2, <2>3, <2>4, <2>5 DEF Crash, TypeOK
<1>19. CASE UNCHANGED vars
  BY <1>19 DEF vars, TypeOK
<1> QED
  BY <1>1, <1>2, <1>3, <1>4, <1>5, <1>6, <1>7, <1>8, <1>9, <1>10, <1>11, <1>12, <1>13,
     <1>14, <1>15, <1>16, <1>17, <1>18, <1>19 DEF Next, Serve

\* A step that neither starts nor ends a wait keeps Matched.
LEMMA MatchedKept ==
    ASSUME TypeOK, Matched, runner' = runner,
           \A t \in Threads : request'[t].at # "idle" =>
               /\ request[t].at # "idle"
               /\ request'[t].agent = request[t].agent
               /\ request'[t].waiting = request[t].waiting
    PROVE  Matched'
BY DEF Matched

\* Ending or moving one call changes neither whose it is nor who waits.
LEMMA SameWaits ==
    ASSUME TypeOK, NEW t \in Threads, request[t].at # "idle",
           \/ \E status \in Int : Finish(t, status)
           \/ Advance(t)
           \/ \E at \in {"verify", "call", "lock", "upsert", "insert", "answer"} :
                request' = [request EXCEPT ![t].at = at]
           \/ request' = [request EXCEPT ![t].at = "lock", ![t].object = current]
           \/ request' = [request EXCEPT ![t].at = "upsert", ![t].heard = now]
    PROVE  \A u \in Threads : request'[u].at # "idle" =>
               /\ request[u].at # "idle"
               /\ request'[u].agent = request[u].agent
               /\ request'[u].waiting = request[u].waiting
<1>1. request[t] \in Request
  BY DEF TypeOK, IdleRequest
<1>2. PICK r \in Request : /\ request' = [request EXCEPT ![t] = r]
                           /\ r.agent = request[t].agent /\ r.waiting = request[t].waiting
  <2>1. ASSUME NEW status \in Int, Finish(t, status)
        PROVE  \E r \in Request : /\ request' = [request EXCEPT ![t] = r]
                                  /\ r.agent = request[t].agent /\ r.waiting = request[t].waiting
    <3> DEFINE r == [request[t] EXCEPT !.at = "answer", !.status = status]
    <3>1. r \in Request /\ r.agent = request[t].agent /\ r.waiting = request[t].waiting
      BY <1>1 DEF Request
    <3>2. request' = [request EXCEPT ![t] = r]
      BY <2>1 DEF Finish
    <3> QED BY <3>1, <3>2
  <2>2. ASSUME NEW at \in {"verify", "call", "lock", "upsert", "insert", "answer"},
               request' = [request EXCEPT ![t].at = at]
        PROVE  \E r \in Request : /\ request' = [request EXCEPT ![t] = r]
                                  /\ r.agent = request[t].agent /\ r.waiting = request[t].waiting
    <3> DEFINE r == [request[t] EXCEPT !.at = at]
    <3>1. r \in Request /\ r.agent = request[t].agent /\ r.waiting = request[t].waiting
      BY <1>1 DEF Request
    <3> QED BY <2>2, <3>1
  <2>3. CASE Advance(t)
    BY <2>1, <2>2, <2>3 DEF Advance
  <2>4. CASE request' = [request EXCEPT ![t].at = "lock", ![t].object = current]
    <3> DEFINE r == [request[t] EXCEPT !.at = "lock", !.object = current]
    <3>1. current \in Objects
      BY DEF TypeOK
    <3>2. r \in Request /\ r.agent = request[t].agent /\ r.waiting = request[t].waiting
      BY <1>1, <3>1 DEF Request
    <3> QED BY <2>4, <3>2
  <2>5. CASE request' = [request EXCEPT ![t].at = "upsert", ![t].heard = now]
    <3> DEFINE r == [request[t] EXCEPT !.at = "upsert", !.heard = now]
    <3>1. now \in Int
      BY DEF TypeOK
    <3>2. r \in Request /\ r.agent = request[t].agent /\ r.waiting = request[t].waiting
      BY <1>1, <3>1 DEF Request
    <3> QED BY <2>5, <3>2
  <2> QED BY <2>1, <2>2, <2>3, <2>4, <2>5
<1>3. DOMAIN request = Threads
  BY DEF TypeOK
<1> QED BY <1>2, <1>3

LEMMA AgentOfRequest ==
    ASSUME TypeOK PROVE \A t \in Threads : request[t].at # "idle" => request[t].agent \in Agents
BY DEF TypeOK, Request, IdleRequest

LEMMA MatchedStep == TypeOK /\ Matched /\ [Next]_vars => Matched'
<1> SUFFICES ASSUME TypeOK, Matched, [Next]_vars PROVE Matched'
  OBVIOUS
<1> USE DEF stored, objects, client
<1>1. ASSUME NEW a \in Agents, Begin(a) PROVE Matched'
  <2>1. request' = request /\ runner' = [runner EXCEPT ![a].plan = Pass(a)] /\ Pass(a) # <<>>
    BY <1>1 DEF Begin
  <2>2. \A b \in Agents : /\ runner'[b].waits = runner[b].waits
                          /\ runner[b].plan # <<>> => runner'[b].plan # <<>>
    BY <2>1 DEF TypeOK, Loop
  <2>3. \A t \in Threads : request[t].at # "idle" => request[t].agent \in Agents
    BY DEF TypeOK, Request, IdleRequest
  <2> QED BY <2>1, <2>2, <2>3 DEF Matched
<1>2. ASSUME NEW a \in Agents, Refused(a) PROVE Matched'
  <2>1. request' = request /\ runner' = [runner EXCEPT ![a] = AfterFailure(@)] /\ runner[a].waits = None
    BY <1>2 DEF Refused
  <2>2. \A t \in Threads : (request[t].at # "idle" /\ request[t].waiting) => request[t].agent # a
    BY <2>1, AgentAssumption DEF Matched
  <2>3. \A b \in Agents : b # a => runner'[b] = runner[b]
    BY <2>1 DEF TypeOK
  <2> QED BY <2>1, <2>2, <2>3, AgentOfRequest DEF Matched
<1>3. ASSUME NEW a \in Agents, Timeout(a) PROVE Matched'
  <2> DEFINE t == runner[a].waits
  <2>1. t \in Threads
    BY <1>3 DEF Timeout, TypeOK, Loop
  <2>2. /\ request' = [request EXCEPT ![t].waiting = FALSE]
        /\ runner' = [runner EXCEPT ![a] = AfterFailure(@)]
    BY <1>3 DEF Timeout
  <2>3. \A u \in Threads : u # t => request'[u] = request[u]
    BY <2>1, <2>2 DEF TypeOK
  <2>4. request'[t].at # "idle" => ~request'[t].waiting
    <3>1. CASE request[t] = IdleRequest
      BY <2>1, <2>2, <3>1 DEF IdleRequest, TypeOK
    <3>2. CASE request[t] \in Request
      BY <2>1, <2>2, <3>2 DEF Request, TypeOK
    <3> QED BY <2>1, <3>1, <3>2 DEF TypeOK
  <2>5. \A u \in Threads : (u # t /\ request[u].at # "idle" /\ request[u].waiting)
                              => request[u].agent # a
    BY DEF Matched
  <2>6. \A b \in Agents : b # a => runner'[b] = runner[b]
    BY <2>2 DEF TypeOK
  <2> QED BY <2>1, <2>3, <2>4, <2>5, <2>6, AgentOfRequest DEF Matched
<1>4. ASSUME NEW a \in Agents, NEW t \in Threads, Send(a, t) PROVE Matched'
  <2> DEFINE kind == Head(runner[a].plan)
             new(p) == [at |-> IF kind = "register" THEN "call" ELSE "verify",
                        kind |-> kind, agent |-> a, payload |-> p,
                        id |-> IF kind = "telemetry" THEN sent[a] + 1 ELSE 0,
                        heard |-> 0, object |-> 0, status |-> 0, waiting |-> TRUE]
  <2>0. PICK p \in Payloads : request' = [request EXCEPT ![t] = new(p)]
    BY <1>4 DEF Send
  <2>1. /\ request' = [request EXCEPT ![t] = new(p)] /\ new(p).agent = a
        /\ runner[a].waits = None /\ runner[a].plan # <<>>
    BY <1>4, <2>0 DEF Send
  <2> HIDE DEF new
  <2>2. runner' = [runner EXCEPT ![a].waits = t]
    BY <1>4 DEF Send
  <2>3. \A u \in Threads : (request[u].at # "idle" /\ request[u].waiting) => request[u].agent # a
    BY <2>1, AgentAssumption DEF Matched
  <2>4. runner'[a].waits = t /\ runner'[a].plan # <<>> /\ \A b \in Agents : b # a => runner'[b] = runner[b]
    BY <2>1, <2>2 DEF TypeOK, Loop
  <2>5. request'[t].agent = a /\ \A u \in Threads : u # t => request'[u] = request[u]
    BY <2>1 DEF TypeOK
  <2>6. \A u \in Threads : request[u].at # "idle" => request[u].agent \in Agents
    BY DEF TypeOK, Request, IdleRequest
  <2> QED BY <2>3, <2>4, <2>5, <2>6 DEF Matched
<1>5. ASSUME NEW t \in Threads, Verify(t) \/ Call(t) \/ Enter(t) \/ Upsert(t) \/ Insert(t) \/ FailWrite(t)
      PROVE  Matched'
  <2>1. runner' = runner /\ request[t].at # "idle"
    BY <1>5 DEF Verify, Call, Enter, Upsert, Insert, FailWrite
  <2>2. \/ \E status \in Int : Finish(t, status)
        \/ Advance(t)
        \/ \E at \in {"verify", "call", "lock", "upsert", "insert", "answer"} :
             request' = [request EXCEPT ![t].at = at]
        \/ request' = [request EXCEPT ![t].at = "lock", ![t].object = current]
        \/ request' = [request EXCEPT ![t].at = "upsert", ![t].heard = now]
    <3>1. CASE Verify(t)
      BY <3>1 DEF Verify
    <3>2. CASE Call(t)
      BY <3>2 DEF Call
    <3>3. CASE Enter(t)
      BY <3>3 DEF Enter
    <3>4. CASE Upsert(t) \/ Insert(t)
      BY <3>4 DEF Upsert, Insert
    <3>5. CASE FailWrite(t)
      BY <3>5 DEF FailWrite
    <3> QED BY <1>5, <3>1, <3>2, <3>3, <3>4, <3>5
  <2> QED BY <2>1, <2>2, SameWaits, MatchedKept
<1>6. ASSUME NEW t \in Threads, Answer(t) PROVE Matched'
  <2>1. request' = [request EXCEPT ![t] = IdleRequest] /\ request[t].at # "idle"
    BY <1>6 DEF Answer
  <2>2. request'[t].at = "idle" /\ \A u \in Threads : u # t => request'[u] = request[u]
    BY <2>1 DEF TypeOK, IdleRequest
  <2>3. CASE ~request[t].waiting
    BY <1>6, <2>2, <2>3 DEF Answer, Matched
  <2>4. CASE request[t].waiting
    <3>1. \A b \in Agents : b # request[t].agent => runner'[b] = runner[b]
      BY <1>6 DEF Answer, TypeOK
    <3>2. \A u \in Threads : (u # t /\ request[u].at # "idle" /\ request[u].waiting)
                                => request[u].agent # request[t].agent
      BY <2>1, <2>4 DEF Matched
    <3>3. \A u \in Threads : request[u].at # "idle" => request[u].agent \in Agents
      BY DEF TypeOK, Request, IdleRequest
    <3> QED BY <2>2, <3>1, <3>2, <3>3 DEF Matched
  <2> QED BY <2>3, <2>4
<1>7. CASE SeedStart \/ (\E a \in DemoAgents : SeedAgent(a)) \/ SeedReload \/ SeedSwap \/ Tick \/ Cleanup
  <2>1. runner' = runner /\ request' = request
    BY <1>7 DEF SeedStart, SeedAgent, SeedReload, SeedSwap, Tick, Cleanup
  <2> QED BY <2>1 DEF Matched
<1>8. CASE Crash
  BY <1>8 DEF Crash, Matched, IdleRequest
<1>9. CASE UNCHANGED vars
  BY <1>9 DEF vars, Matched
<1> QED
  BY <1>1, <1>2, <1>3, <1>4, <1>5, <1>6, <1>7, <1>8, <1>9 DEF Next, Serve

\* The agents and their requests keep their types, for every number of agents,
\* request threads and snapshots.
THEOREM TypeCorrect == Spec => [](TypeOK /\ Matched)
<1>1. Init => Matched
  BY DEF Init, Matched, IdleRequest
<1> QED BY <1>1, TypeInit, TypeStep, MatchedStep, PTL DEF Spec

-----------------------------------------------------------------------------
(* An accepted report is kept. *)

Kept(e) == (\A k \in Tables : e \in tables[k]) \/ e.at < now - Retention \/ torn

\* A report whose handler is about to answer 200 is kept already.
Answered(e) == \E t \in Threads :
    /\ request[t].at = "answer" /\ request[t].status = 200
    /\ request[t].kind = "telemetry" /\ e = Entry(request[t])

KeepInv == \A e \in Entries : e \in acked \/ Answered(e) => e.agent \in Agents /\ Kept(e)

\* What is kept stays kept: retention takes only what is old, the reset of the
\* demo data only what belongs to a demo agent.
LEMMA KeptStays ==
    ASSUME TypeOK, [Next]_vars, NEW e \in Entries, e.agent \in Agents, Kept(e)
    PROVE  Kept(e)'
<1> USE DEF stored, objects, client
<1>1. now \in Int /\ Retention \in Int /\ e.at \in Int
  BY AgentAssumption DEF TypeOK, Entries
<1>2. CASE tables' = tables
  <2>1. now' \in Int /\ now' >= now
    <3>1. CASE Tick
      BY <1>1, <3>1 DEF Tick
    <3>2. CASE ~Tick
      <4>1. now' = now
        BY <3>2, ZenonT(60) DEF Next, Serve, vars, Begin, Refused, Timeout, Send, Verify, Call, Enter,
           Upsert, Insert, FailWrite, Answer, SeedStart, SeedAgent, SeedReload, SeedSwap,
           Cleanup, Crash
      <4> QED BY <1>1, <4>1, SMTT(40)
    <3> QED BY <3>1, <3>2
  <2>2. torn' = torn \/ torn' \in {torn, TRUE}
    <3>1. CASE (\E u \in Threads : FailWrite(u)) \/ Crash
      BY <3>1 DEF FailWrite, Crash
    <3>2. CASE ~((\E u \in Threads : FailWrite(u)) \/ Crash)
      BY <3>2, ZenonT(60) DEF Next, Serve, vars, Begin, Refused, Timeout, Send, Verify, Call, Enter, Upsert,
         Insert, Answer, SeedStart, SeedAgent, SeedReload, SeedSwap, Tick, Cleanup
    <3> QED BY <3>1, <3>2
  <2>3. torn => torn'
    BY <2>2, Zenon
  <2> QED BY <1>1, <1>2, <2>1, <2>3 DEF Kept
<1>3. ASSUME NEW t \in Threads, Insert(t) PROVE Kept(e)'
  BY <1>3 DEF Insert, Kept
<1>4. CASE SeedStart
  <2>1. e.agent \notin DemoAgents
    BY AgentAssumption
  <2> QED BY <1>4, <2>1 DEF SeedStart, Kept
<1>5. ASSUME NEW a \in DemoAgents, SeedAgent(a) PROVE Kept(e)'
  BY <1>5 DEF SeedAgent, Kept
<1>6. CASE Cleanup
  BY <1>1, <1>6 DEF Cleanup, Kept
<1>7. \/ \E t \in Threads : Insert(t)
      \/ SeedStart \/ (\E a \in DemoAgents : SeedAgent(a)) \/ Cleanup \/ tables' = tables
  BY ZenonT(60) DEF Next, Serve, vars, Begin, Refused, Timeout, Send, Verify, Call, Enter, Upsert,
     FailWrite, Answer, SeedReload, SeedSwap, Tick, Crash
<1> QED BY <1>2, <1>3, <1>4, <1>5, <1>6, <1>7

\* The entry of a report does not change once its handler has the lock.
LEMMA SameEntry ==
    ASSUME TypeOK, NEW t \in Threads, request[t].at # "idle",
           (\E status \in Int : Finish(t, status)) \/ Advance(t)
    PROVE  /\ Entry(request'[t]) = Entry(request[t]) /\ request'[t].kind = request[t].kind
           /\ \A u \in Threads : u # t => request'[u] = request[u]
<1>1. request[t] \in Request /\ DOMAIN request = Threads
  BY DEF TypeOK, IdleRequest
<1>2. ASSUME NEW at, request' = [request EXCEPT ![t].at = at]
      PROVE  Entry(request'[t]) = Entry(request[t]) /\ request'[t].kind = request[t].kind
  BY <1>1, <1>2 DEF Entry, Request
<1>3. ASSUME NEW status, Finish(t, status)
      PROVE  Entry(request'[t]) = Entry(request[t]) /\ request'[t].kind = request[t].kind
  BY <1>1, <1>3 DEF Finish, Entry, Request
<1>4. \A u \in Threads : u # t => request'[u] = request[u]
  BY <1>1 DEF Finish, Advance
<1> QED BY <1>2, <1>3, <1>4 DEF Advance

LEMMA FinishReplaces ==
    ASSUME NEW t, NEW status, Finish(t, status)
    PROVE  \E r : request' = [request EXCEPT ![t] = r]
<1> DEFINE r == [request[t] EXCEPT !.at = "answer", !.status = status]
<1>1. request' = [request EXCEPT ![t] = r]
  BY DEF Finish
<1> QED BY <1>1

LEMMA KeepStep == TypeOK /\ Matched /\ KeepInv /\ [Next]_vars => KeepInv'
<1> SUFFICES ASSUME TypeOK, Matched, KeepInv, [Next]_vars, NEW e \in Entries,
                    (e \in acked \/ Answered(e))'
             PROVE  e.agent \in Agents /\ Kept(e)'
  BY DEF KeepInv
<1> USE DEF stored, objects, client
<1>1. CASE e \in acked \/ Answered(e)
  BY <1>1, KeptStays DEF KeepInv
\* Otherwise the step is the one that stores the report and frees the lock.
<1>2. CASE ~(e \in acked \/ Answered(e))
  <2>1. ASSUME NEW t \in Threads, Answer(t) PROVE FALSE
    <3>1. acked' = acked \/ acked' = acked \cup {Entry(request[t])}
      BY <2>1 DEF Answer
    <3>2. acked' # acked => Answered(Entry(request[t]))
      BY <2>1 DEF Answer, Answered
    <3>3. e \notin acked'
      BY <1>2, <3>1, <3>2
    <3>4. \A u \in Threads : request'[u].at # "answer" \/ request'[u] = request[u]
      BY <2>1 DEF Answer, TypeOK, IdleRequest
    <3> QED BY <1>2, <3>3, <3>4 DEF Answered, Entry
  <2>2. ASSUME NEW t \in Threads, Insert(t) PROVE e.agent \in Agents /\ Kept(e)'
    <3>1. acked' = acked /\ request[t].at = "insert"
      BY <2>2 DEF Insert
    <3>2. PICK u \in Threads : /\ request'[u].at = "answer" /\ request'[u].status = 200
                               /\ request'[u].kind = "telemetry" /\ e = Entry(request'[u])
      BY <1>2, <3>1 DEF Answered, Entry
    <3>3. u = t /\ e = Entry(request[t]) /\ request[t].kind = "telemetry"
      BY <1>2, <2>2, <3>1, <3>2, SameEntry DEF Insert, Answered
    <3>4. e.agent \in Agents
      BY <3>1, <3>3, AgentOfRequest DEF Entry
    <3>5. Kept(e)'
      BY <2>2, <3>3 DEF Insert, Kept
    <3> QED BY <3>4, <3>5
  <2>3. ASSUME NEW t \in Threads, Upsert(t) PROVE FALSE
    <3>1. acked' = acked /\ request[t].at = "upsert"
      BY <2>3 DEF Upsert
    <3>2. PICK u \in Threads : /\ request'[u].at = "answer" /\ request'[u].status = 200
                               /\ request'[u].kind = "telemetry" /\ e = Entry(request'[u])
      BY <1>2, <3>1 DEF Answered, Entry
    <3>3. u = t /\ request[t].kind = "telemetry"
      BY <1>2, <2>3, <3>1, <3>2, SameEntry DEF Upsert, Answered
    <3>4. Len(Stages(request[t].kind)) = 2
      BY <3>3 DEF Stages
    <3>5. request'[t].at = "insert"
      BY <2>3, <3>1, <3>4 DEF Upsert, Advance, TypeOK, Request, IdleRequest
    <3> QED BY <3>2, <3>3, <3>5
  <2>4. ASSUME NEW t \in Threads, Verify(t) \/ Enter(t) \/ FailWrite(t) \/ Call(t) PROVE FALSE
    <3>1. acked' = acked /\ request[t].at # "idle"
      BY <2>4 DEF Verify, Enter, FailWrite, Call
    <3>2. \A u \in Threads : u # t => request'[u] = request[u]
      <4>1. \E r : request' = [request EXCEPT ![t] = r]
        <5>1. CASE Verify(t)
          <6>1. \/ Finish(t, 401)
                \/ request' = [request EXCEPT ![t].at = "call"]
            BY <5>1 DEF Verify
          <6>2. CASE Finish(t, 401)
            BY <6>2, FinishReplaces
          <6>3. CASE request' = [request EXCEPT ![t].at = "call"]
            <7> DEFINE r == [request[t] EXCEPT !.at = "call"]
            <7>1. request' = [request EXCEPT ![t] = r]
              BY <6>3
            <7> QED BY <7>1
          <6> QED BY <6>1, <6>2, <6>3
        <5>2. CASE Enter(t)
          <6>1. \/ Finish(t, 404)
                \/ request' = [request EXCEPT ![t].at = "upsert", ![t].heard = now]
            BY <5>2 DEF Enter
          <6>2. CASE Finish(t, 404)
            BY <6>2, FinishReplaces
          <6>3. CASE request' = [request EXCEPT ![t].at = "upsert", ![t].heard = now]
            <7> DEFINE r == [request[t] EXCEPT !.at = "upsert", !.heard = now]
            <7>1. request' = [request EXCEPT ![t] = r]
              BY <6>3
            <7> QED BY <7>1
          <6> QED BY <6>1, <6>2, <6>3
        <5>3. CASE FailWrite(t)
          <6>1. Finish(t, 500)
            BY <5>3 DEF FailWrite
          <6> QED BY <6>1, FinishReplaces
        <5>4. CASE Call(t)
          BY <5>4 DEF Call
        <5> QED BY <2>4, <5>1, <5>2, <5>3, <5>4
      <4> QED BY <4>1 DEF TypeOK
    <3>3. request'[t].at # "answer" \/ request'[t].status # 200
      <4>1. request[t] \in Request
        BY <3>1 DEF TypeOK, IdleRequest
      <4>2. CASE Verify(t)
        BY <4>1, <4>2 DEF Verify, Finish, TypeOK, Request
      <4>3. CASE Enter(t)
        BY <4>1, <4>3 DEF Enter, Finish, TypeOK, Request
      <4>4. CASE FailWrite(t)
        BY <4>1, <4>4 DEF FailWrite, Finish, TypeOK, Request
      <4>5. CASE Call(t)
        BY <4>1, <4>5 DEF Call, TypeOK, Request
      <4> QED BY <2>4, <4>2, <4>3, <4>4, <4>5
    <3> QED BY <1>2, <3>1, <3>2, <3>3 DEF Answered, Entry
  <2>5. ASSUME NEW a \in Agents, NEW t \in Threads, Send(a, t) PROVE FALSE
    <3>1. acked' = acked
      BY <2>5 DEF Send
    <3>2. \A u \in Threads : request'[u].at # "answer" \/ request'[u] = request[u]
      BY <2>5 DEF Send, TypeOK
    <3> QED BY <1>2, <3>1, <3>2 DEF Answered, Entry
  <2>6. ASSUME NEW a \in Agents, Timeout(a) PROVE FALSE
    <3> DEFINE t == runner[a].waits
    <3>1. acked' = acked /\ request' = [request EXCEPT ![t].waiting = FALSE] /\ t \in Threads
      BY <2>6 DEF Timeout, TypeOK, Loop
    <3>2. \A u \in Threads : u # t => request'[u] = request[u]
      BY <3>1 DEF TypeOK
    <3>3. \/ request'[t].at = "idle"
          \/ /\ request'[t].at = request[t].at /\ request'[t].status = request[t].status
             /\ request'[t].kind = request[t].kind /\ Entry(request'[t]) = Entry(request[t])
      <4>1. CASE request[t] = IdleRequest
        BY <3>1, <4>1 DEF IdleRequest, TypeOK
      <4>2. CASE request[t] \in Request
        BY <3>1, <4>2 DEF Request, TypeOK, Entry
      <4> QED BY <3>1, <4>1, <4>2 DEF TypeOK
    <3>4. ~Answered(e)'
      BY <1>2, <3>1, <3>2, <3>3 DEF Answered, Entry
    <3> QED BY <1>2, <3>1, <3>4
  <2>7. CASE Crash
    BY <1>2, <2>7 DEF Crash, Answered, IdleRequest
  <2>8. CASE request' = request /\ acked' = acked
    BY <1>2, <2>8 DEF Answered, Entry
  <2>9. \/ \E t \in Threads : Serve(t)
        \/ \E a \in Agents, t \in Threads : Send(a, t)
        \/ \E a \in Agents : Timeout(a)
        \/ Crash \/ (request' = request /\ acked' = acked)
    BY DEF Next, vars, Begin, Refused, SeedStart, SeedAgent, SeedReload, SeedSwap, Tick, Cleanup
  <2> QED BY <2>1, <2>2, <2>3, <2>4, <2>5, <2>6, <2>7, <2>8, <2>9 DEF Serve
<1> QED BY <1>1, <1>2

\* A telemetry report whose runner has had the answer is in every snapshot
\* table until retention removes it or the file is torn: for every number of
\* agents, request threads, faults and seeds.
THEOREM AcceptedReportsAreKept == Spec => []AckedIsKept
<1>1. Init => KeepInv
  BY DEF Init, KeepInv, Answered, IdleRequest
<1>2. TypeOK /\ KeepInv => AckedIsKept
  BY DEF TypeOK, KeepInv, AckedIsKept, Kept
<1>3. Init => Matched
  BY DEF Init, Matched, IdleRequest
<1> QED BY <1>1, <1>2, <1>3, TypeInit, TypeStep, MatchedStep, KeepStep, PTL DEF Spec

-----------------------------------------------------------------------------
(* How a call moves: one handler at a time, and always for the same runner.*)

SameCaller(new, old) ==
    /\ new.agent = old.agent /\ new.kind = old.kind /\ new.id = old.id
    /\ new.waiting => old.waiting

LEMMA ServeMoves ==
    ASSUME TypeOK, NEW t \in Threads, Serve(t)
    PROVE  /\ \A u \in Threads : u # t => request'[u] = request[u]
           /\ request[t].at # "idle"
           /\ request'[t].at # "idle" => SameCaller(request'[t], request[t])
           /\ request'[t].at = "upsert" => Enter(t)
           /\ request'[t].at = "insert" => Upsert(t)
           /\ request'[t].at \in {"upsert", "insert"} => request'[t].object = request[t].object
<1> DEFINE Moved(r) ==
      /\ r.at # "idle" => SameCaller(r, request[t])
      /\ r.at = "upsert" => Enter(t)
      /\ r.at = "insert" => Upsert(t)
      /\ r.at \in {"upsert", "insert"} => r.object = request[t].object
<1>1. request[t].at # "idle"
  BY DEF Serve, Verify, Call, Enter, Upsert, Insert, FailWrite, Answer
<1>2. request[t] \in Request
  BY <1>1 DEF TypeOK, IdleRequest
<1>3. ASSUME NEW status, Finish(t, status)
      PROVE  \E r : request' = [request EXCEPT ![t] = r] /\ Moved(r)
  <2> DEFINE r == [request[t] EXCEPT !.at = "answer", !.status = status]
  <2>1. r.at = "answer" /\ SameCaller(r, request[t])
    BY <1>2 DEF Request, SameCaller
  <2>2. Moved(r)
    BY <2>1
  <2>3. request' = [request EXCEPT ![t] = r]
    BY <1>3 DEF Finish
  <2> QED BY <2>2, <2>3
<1>4. ASSUME NEW at, request' = [request EXCEPT ![t].at = at],
             at = "call" \/ (at = "insert" /\ Upsert(t))
      PROVE  \E r : request' = [request EXCEPT ![t] = r] /\ Moved(r)
  <2> DEFINE r == [request[t] EXCEPT !.at = at]
  <2>1. r.at = at /\ SameCaller(r, request[t]) /\ r.object = request[t].object
    BY <1>2 DEF Request, SameCaller
  <2>2. Moved(r)
    BY <1>4, <2>1
  <2> QED BY <1>4, <2>2
<1>5. \E r : request' = [request EXCEPT ![t] = r] /\ Moved(r)
  <2>1. CASE Verify(t)
    BY <1>3, <1>4, <2>1 DEF Verify
  <2>2. CASE Call(t)
    <3> DEFINE r == [request[t] EXCEPT !.at = "lock", !.object = current]
    <3>1. r.at = "lock" /\ SameCaller(r, request[t])
      BY <1>2 DEF Request, SameCaller
    <3>2. request' = [request EXCEPT ![t] = r] /\ Moved(r)
      BY <2>2, <3>1 DEF Call
    <3> QED BY <3>2
  <2>3. CASE Enter(t)
    <3>1. \/ Finish(t, 404)
          \/ request' = [request EXCEPT ![t].at = "upsert", ![t].heard = now]
      BY <2>3 DEF Enter
    <3>2. CASE request' = [request EXCEPT ![t].at = "upsert", ![t].heard = now]
      <4> DEFINE r == [request[t] EXCEPT !.at = "upsert", !.heard = now]
      <4>1. r.at = "upsert" /\ SameCaller(r, request[t]) /\ r.object = request[t].object
        BY <1>2 DEF Request, SameCaller
      <4>2. request' = [request EXCEPT ![t] = r] /\ Moved(r)
        BY <2>3, <3>2, <4>1
      <4> QED BY <4>2
    <3> QED BY <1>3, <3>1, <3>2
  <2>4. CASE Upsert(t)
    <3>1. Advance(t)
      BY <2>4 DEF Upsert
    <3> QED BY <1>3, <1>4, <2>4, <3>1 DEF Advance
  <2>5. CASE Insert(t)
    <3>1. Finish(t, 200)
      BY <2>5 DEF Insert, Advance
    <3> QED BY <1>3, <3>1
  <2>6. CASE FailWrite(t)
    <3>1. Finish(t, 500)
      BY <2>6 DEF FailWrite
    <3> QED BY <1>3, <3>1
  <2>7. CASE Answer(t)
    <3>1. request' = [request EXCEPT ![t] = IdleRequest]
      BY <2>7 DEF Answer
    <3>2. Moved(IdleRequest)
      BY DEF IdleRequest
    <3> QED BY <3>1, <3>2
  <2> QED BY <2>1, <2>2, <2>3, <2>4, <2>5, <2>6, <2>7 DEF Serve
<1>6. PICK r : request' = [request EXCEPT ![t] = r] /\ Moved(r)
  BY <1>5
<1>7. request'[t] = r /\ \A u \in Threads : u # t => request'[u] = request[u]
  BY <1>6 DEF TypeOK
<1> QED BY <1>1, <1>6, <1>7

\* A call begins before the registry is chosen, for a runner that made no other.
LEMMA SendMoves ==
    ASSUME TypeOK, Matched, NEW a \in Agents, NEW t \in Threads, Send(a, t)
    PROVE  /\ \A u \in Threads : u # t => request'[u] = request[u]
           /\ request'[t].at \in {"verify", "call"} /\ request'[t].agent = a
           /\ request'[t].kind = "telemetry" =>
                sent'[a] = sent[a] + 1 /\ request'[t].id = sent'[a]
           /\ sent'[a] >= sent[a] /\ \A b \in Agents : b # a => sent'[b] = sent[b]
           /\ \A u \in Threads : request[u].at # "idle" /\ request[u].agent = a
                => ~request[u].waiting
<1> DEFINE kind == Head(runner[a].plan)
           new(p) == [at |-> IF kind = "register" THEN "call" ELSE "verify",
                      kind |-> kind, agent |-> a, payload |-> p,
                      id |-> IF kind = "telemetry" THEN sent[a] + 1 ELSE 0,
                      heard |-> 0, object |-> 0, status |-> 0, waiting |-> TRUE]
<1>1. PICK p \in Payloads : request' = [request EXCEPT ![t] = new(p)]
  BY DEF Send
<1>2. request'[t] = new(p) /\ \A u \in Threads : u # t => request'[u] = request[u]
  BY <1>1 DEF TypeOK
<1>3. sent' = [sent EXCEPT ![a] = IF kind = "telemetry" THEN @ + 1 ELSE @]
  BY DEF Send
<1>4. sent[a] \in Nat /\ \A b \in Agents : b # a => sent'[b] = sent[b]
  BY <1>3 DEF TypeOK
<1>5. sent'[a] = IF kind = "telemetry" THEN sent[a] + 1 ELSE sent[a]
  BY <1>3 DEF TypeOK
<1>6. \A u \in Threads : request[u].at # "idle" /\ request[u].agent = a => ~request[u].waiting
  <2>1. runner[a].waits = None /\ None \notin Threads
    BY AgentAssumption DEF Send
  <2> QED BY <2>1 DEF Matched
<1> QED BY <1>2, <1>4, <1>5, <1>6

\* A timeout changes nothing of a call but that somebody waits for it.
LEMMA TimeoutMoves ==
    ASSUME TypeOK, NEW a \in Agents, Timeout(a)
    PROVE  \A u \in Threads :
             /\ request'[u].at = request[u].at
             /\ request[u].at # "idle" => /\ SameCaller(request'[u], request[u])
                                          /\ request'[u].object = request[u].object
<1> DEFINE t == runner[a].waits
<1>1. t \in Threads /\ request' = [request EXCEPT ![t].waiting = FALSE]
  BY DEF Timeout, TypeOK, Loop
<1>2. \A u \in Threads : u # t => request'[u] = request[u]
  BY <1>1 DEF TypeOK
<1>3. CASE request[t] = IdleRequest
  <2>1. request'[t].at = request[t].at
    BY <1>1, <1>3 DEF IdleRequest, TypeOK
  <2> QED BY <1>1, <1>2, <1>3, <2>1 DEF IdleRequest, SameCaller
<1>4. CASE request[t] \in Request
  <2>1. /\ request'[t].at = request[t].at /\ SameCaller(request'[t], request[t])
        /\ request'[t].object = request[t].object
    BY <1>1, <1>4 DEF Request, SameCaller, TypeOK
  <2> QED BY <1>2, <2>1 DEF SameCaller
<1> QED BY <1>1, <1>3, <1>4 DEF TypeOK

\* Everything else leaves the calls alone, or ends them all.
LEMMA CallMoves ==
    ASSUME [Next]_vars
    PROVE  \/ \E t \in Threads : Serve(t)
           \/ \E a \in Agents, t \in Threads : Send(a, t)
           \/ \E a \in Agents : Timeout(a)
           \/ Crash
           \/ SeedStart \/ (\E a \in DemoAgents : SeedAgent(a)) \/ SeedReload
           \/ /\ UNCHANGED <<request, row, memory, holder, sent, lagging, torn>>
              /\ Successor' = Successor
<1>1. CASE \E a \in Agents : Begin(a) \/ Refused(a)
  BY <1>1 DEF Begin, Refused, stored, objects, Successor
<1>2. CASE SeedSwap
  BY <1>2 DEF SeedSwap, stored, objects, client, Successor
<1>3. CASE Tick \/ Cleanup
  BY <1>3 DEF Tick, Cleanup, stored, objects, client, Successor
<1>4. CASE UNCHANGED vars
  BY <1>4 DEF vars, stored, objects, client, Successor
<1> QED BY <1>1, <1>2, <1>3, <1>4 DEF Next

-----------------------------------------------------------------------------
(* The lock of a registry object: whoever writes through it holds it.      *)

Writing(t) == request[t].at \in {"upsert", "insert"}

WritersLock == \A t \in Threads : Writing(t) => holder[request[t].object] = t

LEMMA BusyObject ==
    ASSUME TypeOK, NEW t \in Threads, request[t].at # "idle"
    PROVE  /\ request[t] \in Request /\ request[t].object \in Objects
           /\ request[t].agent \in Agents
BY DEF TypeOK, Request, IdleRequest

\* Giving the lock back disturbs nobody else's: there is nobody else.
LEMMA Release ==
    ASSUME TypeOK, WritersLock, NEW t \in Threads, Writing(t),
           holder' = [holder EXCEPT ![request[t].object] = None],
           \A u \in Threads : u # t => request'[u] = request[u], ~Writing(t)'
    PROVE  WritersLock'
<1> SUFFICES ASSUME NEW u \in Threads, Writing(u)' PROVE holder'[request'[u].object] = u
  BY DEF WritersLock
<1>1. u # t /\ request'[u] = request[u]
  OBVIOUS
<1>2. Writing(u) /\ holder[request[u].object] = u /\ holder[request[t].object] = t
  BY <1>1 DEF WritersLock, Writing
<1> QED BY <1>1, <1>2 DEF TypeOK

LEMMA LockStep == TypeOK /\ Matched /\ WritersLock /\ [Next]_vars => WritersLock'
<1> SUFFICES ASSUME TypeOK, Matched, WritersLock, [Next]_vars PROVE WritersLock'
  OBVIOUS
<1> USE DEF stored, objects, client
<1>1. ASSUME NEW t \in Threads, Serve(t) PROVE WritersLock'
  <2>1. /\ \A u \in Threads : u # t => request'[u] = request[u]
        /\ request'[t].at = "upsert" => Enter(t)
        /\ request'[t].at = "insert" => Upsert(t)
        /\ Writing(t)' => request'[t].object = request[t].object
    BY <1>1, ServeMoves DEF Writing
  <2>2. CASE Verify(t) \/ Call(t) \/ Answer(t)
    <3>1. holder' = holder /\ ~Writing(t)
      BY <2>2 DEF Verify, Call, Answer, Writing
    <3>2. ~Writing(t)'
      BY <2>1, <2>2 DEF Writing, Verify, Call, Answer, Enter, Upsert
    <3> QED BY <2>1, <3>1, <3>2 DEF WritersLock, Writing
  <2>3. CASE Enter(t)
    <3> DEFINE o == request[t].object
    <3>1. holder[o] = None /\ None \notin Threads /\ request[t].at = "lock"
      BY <2>3, AgentAssumption DEF Enter
    <3>2. (UNCHANGED holder /\ Finish(t, 404)) \/ holder' = [holder EXCEPT ![o] = t]
      BY <2>3 DEF Enter
    <3>3. CASE holder' = holder /\ Finish(t, 404)
      <4>1. ~Writing(t)'
        BY <3>3 DEF Finish, Writing, TypeOK, Request, IdleRequest
      <4> QED BY <2>1, <3>3, <4>1 DEF WritersLock, Writing
    <3>4. CASE holder' = [holder EXCEPT ![o] = t]
      <4>1. o \in Objects
        BY <3>1, BusyObject
      <4>2. ASSUME NEW u \in Threads, u # t, Writing(u)' PROVE holder'[request'[u].object] = u
        <5>1. request'[u] = request[u] /\ holder[request[u].object] = u
          BY <2>1, <4>2 DEF WritersLock, Writing
        <5> QED BY <3>1, <3>4, <5>1 DEF TypeOK
      <4>3. Writing(t)' => holder'[request'[t].object] = t
        BY <2>1, <3>4, <4>1 DEF TypeOK
      <4> QED BY <4>2, <4>3 DEF WritersLock
    <3> QED BY <3>2, <3>3, <3>4
  <2>4. CASE Upsert(t) \/ Insert(t)
    <3>1. Advance(t) /\ Writing(t) /\ request[t].at # "idle"
      BY <2>4 DEF Upsert, Insert, Writing
    <3>2. CASE holder' = holder
      <4>1. holder[request[t].object] = t
        BY <3>1 DEF WritersLock
      <4> QED BY <2>1, <3>2, <4>1 DEF WritersLock, Writing
    <3>3. CASE Finish(t, 200) /\ holder' = [holder EXCEPT ![request[t].object] = None]
      <4>1. ~Writing(t)'
        BY <3>1, <3>3, BusyObject DEF Finish, Writing, TypeOK, Request
      <4> QED BY <2>1, <3>1, <3>3, <4>1, Release
    <3> QED BY <3>1, <3>2, <3>3 DEF Advance
  <2>5. CASE FailWrite(t)
    <3>1. Finish(t, 500) /\ holder' = [holder EXCEPT ![request[t].object] = None] /\ Writing(t)
      BY <2>5 DEF FailWrite, Writing
    <3>2. ~Writing(t)'
      BY <3>1, BusyObject DEF Finish, Writing, TypeOK, Request
    <3> QED BY <2>1, <3>1, <3>2, Release
  <2> QED BY <1>1, <2>2, <2>3, <2>4, <2>5 DEF Serve
<1>2. ASSUME NEW a \in Agents, NEW t \in Threads, Send(a, t) PROVE WritersLock'
  <2>1. holder' = holder
    BY <1>2 DEF Send
  <2>2. ~Writing(t)' /\ \A u \in Threads : u # t => request'[u] = request[u]
    BY <1>2, SendMoves DEF Writing
  <2> QED BY <2>1, <2>2 DEF WritersLock, Writing
<1>3. ASSUME NEW a \in Agents, Timeout(a) PROVE WritersLock'
  <2>1. holder' = holder
    BY <1>3 DEF Timeout
  <2>2. \A u \in Threads : Writing(u)' => Writing(u) /\ request'[u].object = request[u].object
    BY <1>3, TimeoutMoves DEF Writing
  <2> QED BY <2>1, <2>2 DEF WritersLock
<1>4. CASE Crash
  BY <1>4 DEF Crash, WritersLock, Writing, IdleRequest
<1>5. CASE UNCHANGED <<request, holder>>
  BY <1>5 DEF WritersLock, Writing
<1>6. CASE SeedStart \/ (\E a \in DemoAgents : SeedAgent(a)) \/ SeedReload
  BY <1>5, <1>6 DEF SeedStart, SeedAgent, SeedReload
<1> QED BY <1>1, <1>2, <1>3, <1>4, <1>5, <1>6, CallMoves

-----------------------------------------------------------------------------
(* What the dashboard shows is what a restart would read.                  *)


\* The seed route writes the rows of demo agents only.
LEMMA SeedWrites ==
    ASSUME TypeOK, SeedStart \/ \E b \in DemoAgents : SeedAgent(b)
    PROVE  /\ UNCHANGED <<memory, lagging, torn, request>> /\ Successor' = Successor
           /\ \A a \in Agents : row'[a] = row[a]
<1>1. \A a \in Agents : a \in Everyone /\ a \notin DemoAgents
  BY AgentAssumption DEF Everyone
<1>2. CASE SeedStart
  <2>1. UNCHANGED <<memory, lagging, torn, request>> /\ Successor' = Successor
    BY <1>2 DEF SeedStart, Successor, TypeOK, objects
  <2> QED BY <1>1, <1>2, <2>1 DEF SeedStart
<1>3. ASSUME NEW b \in DemoAgents, SeedAgent(b)
      PROVE  /\ UNCHANGED <<memory, lagging, torn, request>> /\ Successor' = Successor
             /\ \A a \in Agents : row'[a] = row[a]
  <2>1. seed.at = "write" /\ seed'.at = "write" /\ current' = current
    BY <1>3 DEF SeedAgent, TypeOK, objects
  <2>2. UNCHANGED <<memory, lagging, torn, request>>
    BY <1>3 DEF SeedAgent, objects
  <2>3. \E new : row' = [row EXCEPT ![b] = new]
    BY <1>3 DEF SeedAgent
  <2> QED BY <1>1, <2>1, <2>2, <2>3 DEF Successor, TypeOK
<1> QED BY <1>2, <1>3

\* A writer other than the thread that moves is still writing.
LEMMA WriterStays ==
    ASSUME NEW a \in Agents, NEW t \in Threads, BeingWritten(a), Successor' = Successor,
           \A u \in Threads : u # t => request'[u] = request[u],
           request[t].at = "upsert" => request[t].agent # a \/ request[t].object # Successor
    PROVE  BeingWritten(a)'
BY DEF BeingWritten

LEMMA AgreesStep == TypeOK /\ Matched /\ MemoryAgrees /\ [Next]_vars => MemoryAgrees'
<1> SUFFICES ASSUME TypeOK, Matched, MemoryAgrees, [Next]_vars, NEW a \in Agents
             PROVE  (memory[Successor][a] = row[a] \/ a \in lagging \/ BeingWritten(a) \/ torn)'
  BY DEF MemoryAgrees
<1> USE DEF stored, objects, client
<1>0. /\ memory[Successor][a] = row[a] \/ a \in lagging \/ BeingWritten(a) \/ torn
      /\ Successor \in Objects /\ a \in Everyone
  BY DEF MemoryAgrees, Successor, TypeOK, Everyone
<1>1. ASSUME NEW t \in Threads, Serve(t)
      PROVE  (memory[Successor][a] = row[a] \/ a \in lagging \/ BeingWritten(a) \/ torn)'
  <2>1. /\ \A u \in Threads : u # t => request'[u] = request[u]
        /\ request[t].at # "idle"
        /\ request'[t].at \in {"upsert", "insert"} => request'[t].object = request[t].object
        /\ request'[t].at # "idle" => request'[t].agent = request[t].agent
    BY <1>1, ServeMoves DEF SameCaller
  <2>2. Successor' = Successor
    BY <1>1 DEF Serve, Verify, Call, Enter, Upsert, Insert, FailWrite, Answer, Successor
  <2>3. request[t].object \in Objects /\ request[t].agent \in Everyone
    BY <2>1, BusyObject DEF Everyone
  <2>4. CASE UNCHANGED <<row, memory, lagging, torn>> /\ request[t].at # "upsert"
    BY <1>0, <2>1, <2>2, <2>4, WriterStays
  <2>5. CASE Enter(t)
    <3>1. \/ UNCHANGED memory
          \/ /\ memory' = [memory EXCEPT ![request[t].object][request[t].agent] =
                                NewRecord(memory[request[t].object][request[t].agent], request[t])]
             /\ request' = [request EXCEPT ![t].at = "upsert", ![t].heard = now]
      BY <2>5 DEF Enter
    <3>2. UNCHANGED <<row, lagging, torn>> /\ request[t].at = "lock"
      BY <2>5 DEF Enter
    <3>3. CASE request[t].object = Successor /\ request[t].agent = a /\ memory' # memory
      <4>1. request'[t].at = "upsert"
        BY <2>1, <3>1, <3>3, BusyObject DEF TypeOK, Request
      <4> QED BY <2>1, <2>2, <3>3, <4>1 DEF BeingWritten
    <3>4. CASE ~(request[t].object = Successor /\ request[t].agent = a) \/ memory' = memory
      <4>1. memory'[Successor][a] = memory[Successor][a]
        BY <1>0, <3>1, <3>4 DEF TypeOK
      <4> QED BY <1>0, <2>1, <2>2, <3>2, <4>1, WriterStays
    <3> QED BY <3>3, <3>4
  <2>6. CASE Upsert(t)
    <3>1. /\ row' = [row EXCEPT ![request[t].agent] = memory[request[t].object][request[t].agent]]
          /\ lagging' = Lag(request[t].agent, request[t].object)
          /\ UNCHANGED <<memory, torn>>
      BY <2>6 DEF Upsert
    <3>2. CASE request[t].agent = a
      <4>1. CASE request[t].object = Successor
        BY <1>0, <2>2, <3>1, <3>2, <4>1 DEF TypeOK
      <4>2. CASE request[t].object # Successor
        BY <3>1, <3>2, <4>2 DEF Lag
      <4> QED BY <4>1, <4>2
    <3>3. CASE request[t].agent # a
      <4>1. row'[a] = row[a] /\ (a \in lagging => a \in lagging')
        BY <1>0, <3>1, <3>3 DEF Lag, TypeOK
      <4> QED BY <1>0, <2>1, <2>2, <3>1, <3>3, <4>1, WriterStays
    <3> QED BY <3>2, <3>3
  <2>7. CASE FailWrite(t)
    <3>1. /\ UNCHANGED <<row, memory>> /\ torn' \in {torn, TRUE} /\ lagging \subseteq lagging'
          /\ request[t].at = "upsert" => request[t].agent \in lagging'
      BY <2>7 DEF FailWrite
    <3>2. torn => torn'
      BY <3>1, Zenon
    <3>3. CASE a \in lagging'
      BY <3>3
    <3>4. CASE a \notin lagging'
      BY <1>0, <2>1, <2>2, <3>1, <3>2, <3>4, WriterStays
    <3> QED BY <3>3, <3>4
  <2>8. CASE Verify(t) \/ Call(t) \/ Insert(t) \/ Answer(t)
    BY <2>4, <2>8 DEF Verify, Call, Insert, Answer
  <2> QED BY <1>1, <2>5, <2>6, <2>7, <2>8 DEF Serve
<1>2. CASE UNCHANGED <<row, memory, lagging, torn>> /\ Successor' = Successor /\ (BeingWritten(a) => BeingWritten(a)')
  BY <1>0, <1>2
<1>3. ASSUME NEW b \in Agents, NEW t \in Threads, Send(b, t)
      PROVE  (memory[Successor][a] = row[a] \/ a \in lagging \/ BeingWritten(a) \/ torn)'
  <2>1. UNCHANGED <<row, memory, lagging, torn>> /\ Successor' = Successor /\ request[t].at = "idle"
    BY <1>3 DEF Send, Successor
  <2>2. \A u \in Threads : u # t => request'[u] = request[u]
    BY <1>3, SendMoves
  <2> QED BY <1>2, <2>1, <2>2, WriterStays
<1>4. ASSUME NEW b \in Agents, Timeout(b)
      PROVE  (memory[Successor][a] = row[a] \/ a \in lagging \/ BeingWritten(a) \/ torn)'
  <2>1. UNCHANGED <<row, memory, lagging, torn>> /\ Successor' = Successor
    BY <1>4 DEF Timeout, Successor
  <2>2. BeingWritten(a) => BeingWritten(a)'
    BY <1>4, <2>1, TimeoutMoves DEF BeingWritten, SameCaller
  <2> QED BY <1>2, <2>1, <2>2
<1>5. CASE Crash
  <2>1. memory' = [o \in Objects |-> IF o = 0 /\ ~torn' THEN row ELSE Blank] /\ row' = row
    BY <1>5 DEF Crash
  <2>2. Successor' = 0 /\ 0 \in Objects
    BY <1>5, AgentAssumption DEF Crash, Successor, Objects
  <2> QED BY <2>1, <2>2
<1>6. CASE SeedStart \/ \E b \in DemoAgents : SeedAgent(b)
  <2>1. UNCHANGED <<memory, lagging, torn, request>> /\ Successor' = Successor /\ row'[a] = row[a]
    BY <1>6, SeedWrites
  <2> QED BY <1>0, <2>1 DEF BeingWritten
<1>7. CASE SeedReload
  <2>1. memory' = [memory EXCEPT ![seeds] = Loaded] /\ row' = row /\ torn' = torn
    BY <1>7 DEF SeedReload
  <2>2. Successor' = seeds /\ seeds \in Objects
    BY <1>7 DEF SeedReload, Successor, TypeOK
  <2>3. memory'[Successor'] = Loaded
    BY <2>1, <2>2 DEF TypeOK
  <2> QED BY <2>1, <2>3 DEF Loaded
<1>8. CASE UNCHANGED <<request, row, memory, lagging, torn>> /\ Successor' = Successor
  BY <1>2, <1>8 DEF BeingWritten
<1> QED BY <1>1, <1>3, <1>4, <1>5, <1>6, <1>7, <1>8, CallMoves

\* What the registry answers of an agent is what a restart would read back,
\* outside the named windows: for every number of agents, request threads,
\* faults and seeds.
THEOREM DashboardIsStored == Spec => []MemoryAgrees
<1>1. Init => MemoryAgrees
  BY AgentAssumption DEF Init, MemoryAgrees, Successor, Objects
<1>2. Init => Matched
  BY DEF Init, Matched, IdleRequest
<1> QED BY <1>1, <1>2, TypeInit, TypeStep, MatchedStep, AgreesStep, PTL DEF Spec

-----------------------------------------------------------------------------
(* Reports of an agent are numbered, and its row never goes back.          *)

\* No row, no record in memory and no call knows a report the agent has not
\* made; a call somebody waits for carries the latest.
RowsKnown == \A a \in Agents : LastReport(row[a]) <= sent[a]
RecordsKnown == \A a \in Agents : \A o \in Objects : LastReport(memory[o][a]) <= sent[a]
CallsKnown == \A t \in Threads :
    request[t].at # "idle" /\ request[t].kind = "telemetry" =>
        /\ request[t].id <= sent[request[t].agent]
        /\ request[t].waiting => request[t].id = sent[request[t].agent]
Numbered == RowsKnown /\ RecordsKnown /\ CallsKnown

\* What a call is about to store for a runner that waits is no older than the row.
WritesAdvance == \A t \in Threads :
    request[t].at = "upsert" /\ request[t].waiting /\ request[t].object = Successor =>
        LET a == request[t].agent IN
        a \in lagging \/ torn \/ LastReport(row[a]) <= LastReport(memory[Successor][a])

LEMMA LastReportTyped ==
    ASSUME NEW record \in Record \cup {None}
    PROVE  LastReport(record) \in Nat
BY DEF LastReport, Record

LEMMA RecordsTyped ==
    ASSUME TypeOK, NEW a \in Agents
    PROVE  /\ LastReport(row[a]) \in Nat /\ sent[a] \in Nat
           /\ \A o \in Objects : LastReport(memory[o][a]) \in Nat
<1>1. a \in Everyone
  BY DEF Everyone
<1>2. row[a] \in Record \cup {None} /\ \A o \in Objects : memory[o][a] \in Record \cup {None}
  BY <1>1 DEF TypeOK
<1> QED BY <1>2, LastReportTyped DEF TypeOK

\* A handler keeps the last report it found, or has a newer one.
LEMMA NewReport ==
    ASSUME TypeOK, NEW r \in Request, NEW old \in Record \cup {None},
           old # None \/ r.kind = "register"
    PROVE  LastReport(NewRecord(old, r)) =
             IF r.kind = "telemetry" THEN r.id ELSE LastReport(old)
<1>1. NewRecord(old, r) # None
  BY NewRecordTyped, NoneAssumption
<1>2. LastReport(NewRecord(old, r)) = NewRecord(old, r).told
  BY <1>1 DEF LastReport
<1>3. CASE r.kind = "register"
  BY <1>2, <1>3 DEF NewRecord, Registered, LastReport
<1>4. CASE r.kind = "heartbeat"
  BY <1>2, <1>4 DEF NewRecord, Seen, LastReport, Record
<1>5. CASE r.kind = "telemetry"
  BY <1>2, <1>5 DEF NewRecord, Reported
<1> QED BY <1>3, <1>4, <1>5 DEF Request, Kinds

\* What a handler does with the memory and with the row of its agent.
LEMMA EnterWrites ==
    ASSUME TypeOK, NEW t \in Threads, Enter(t)
    PROVE  LET o == request[t].object
               a == request[t].agent
           IN  \/ memory' = memory /\ request'[t].at # "upsert"
               \/ /\ \A p \in Objects : \A b \in Everyone :
                       p # o \/ b # a => memory'[p][b] = memory[p][b]
                  /\ holder[o] = None
                  /\ LastReport(memory'[o][a]) = IF request[t].kind = "telemetry" THEN request[t].id
                                                 ELSE LastReport(memory[o][a])
<1> DEFINE r == request[t]
           o == r.object
           a == r.agent
           old == memory[o][a]
<1>1. r.at = "lock" /\ holder[o] = None
  BY DEF Enter
<1>2. r \in Request /\ o \in Objects /\ a \in Everyone
  BY <1>1, BusyObject DEF Everyone
<1>3. old \in Record \cup {None}
  BY <1>2 DEF TypeOK
<1>4. CASE old = None /\ r.kind # "register"
  <2>1. Finish(t, 404) /\ memory' = memory
    BY <1>4 DEF Enter, objects
  <2>2. request'[t].at = "answer"
    BY <1>2, <2>1 DEF Finish, TypeOK, Request
  <2> QED BY <2>1, <2>2
<1>5. CASE ~(old = None /\ r.kind # "register")
  <2>1. memory' = [memory EXCEPT ![o][a] = NewRecord(old, r)]
    BY <1>5 DEF Enter
  <2>2. memory'[o][a] = NewRecord(old, r)
    BY <1>2, <2>1 DEF TypeOK
  <2>3. \A p \in Objects : \A b \in Everyone : p # o \/ b # a => memory'[p][b] = memory[p][b]
    BY <1>2, <2>1 DEF TypeOK
  <2>4. LastReport(NewRecord(old, r)) = IF r.kind = "telemetry" THEN r.id ELSE LastReport(old)
    BY <1>2, <1>3, <1>5, NewReport
  <2> QED BY <1>1, <2>2, <2>3, <2>4
<1> QED BY <1>4, <1>5

LEMMA UpsertWrites ==
    ASSUME TypeOK, NEW t \in Threads, Upsert(t)
    PROVE  /\ row'[request[t].agent] = memory[request[t].object][request[t].agent]
           /\ \A b \in Everyone : b # request[t].agent => row'[b] = row[b]
           /\ UNCHANGED <<memory, torn, sent>> /\ Successor' = Successor
           /\ lagging' = Lag(request[t].agent, request[t].object)
           /\ request[t].at = "upsert"
<1>1. request[t].at = "upsert"
  BY DEF Upsert
<1>2. request[t].agent \in Everyone
  BY <1>1, BusyObject DEF Everyone
<1>3. row' = [row EXCEPT ![request[t].agent] = memory[request[t].object][request[t].agent]]
  BY DEF Upsert
<1>4. /\ UNCHANGED <<memory, torn, sent>> /\ Successor' = Successor
      /\ lagging' = Lag(request[t].agent, request[t].object)
  BY DEF Upsert, client, Successor
<1> QED BY <1>1, <1>2, <1>3, <1>4 DEF TypeOK

\* The row of an agent with a runner changes only in Upsert, and the memory
\* only in Enter, when a seed loads its own, and at a restart.
LEMMA RowsChange ==
    ASSUME TypeOK, [Next]_vars, NEW a \in Agents, row'[a] # row[a]
    PROVE  \E t \in Threads : Upsert(t) /\ request[t].agent = a
<1>1. a \in Everyone /\ a \notin DemoAgents
  BY AgentAssumption DEF Everyone
<1>2. CASE SeedStart
  BY <1>1, <1>2 DEF SeedStart
<1>3. ASSUME NEW b \in DemoAgents, SeedAgent(b) PROVE FALSE
  <2>1. \E new : row' = [row EXCEPT ![b] = new]
    BY <1>3 DEF SeedAgent
  <2> QED BY <1>1, <2>1 DEF TypeOK
<1>4. ASSUME NEW t \in Threads, Serve(t)
      PROVE  Upsert(t) /\ request[t].agent = a
  <2>1. Upsert(t)
    BY <1>4 DEF Serve, Verify, Call, Enter, Insert, FailWrite, Answer, stored
  <2> QED BY <1>1, <2>1, UpsertWrites
<1>5. ASSUME NEW b \in Agents, NEW t \in Threads, Send(b, t) PROVE FALSE
  BY <1>5 DEF Send, stored
<1>6. ASSUME NEW b \in Agents, Timeout(b) PROVE FALSE
  BY <1>6 DEF Timeout, stored
<1>7. CASE Crash \/ SeedReload
  BY <1>7 DEF Crash, SeedReload, stored
<1> QED BY <1>2, <1>3, <1>4, <1>5, <1>6, <1>7, CallMoves

LEMMA SentGrows ==
    ASSUME TypeOK, Matched, [Next]_vars
    PROVE  \A a \in Agents : sent[a] \in Nat /\ sent'[a] \in Nat /\ sent'[a] >= sent[a]
<1>1. \A a \in Agents : sent[a] \in Nat
  BY DEF TypeOK
<1>2. CASE sent' = sent
  BY <1>1, <1>2
<1>3. ASSUME NEW b \in Agents, NEW t \in Threads, Send(b, t)
      PROVE  \A a \in Agents : sent'[a] \in Nat /\ sent'[a] >= sent[a]
  <2>1. sent' \in [Agents -> Nat]
    BY <1>3, SMTT(40) DEF Send, TypeOK
  <2> QED BY <1>1, <1>3, <2>1, SendMoves, SMTT(40)
<1>4. sent' = sent \/ \E b \in Agents, t \in Threads : Send(b, t)
  BY ZenonT(60) DEF Next, Serve, vars, Begin, Refused, Timeout, Verify, Call, Enter, Upsert, Insert, FailWrite,
     Answer, SeedStart, SeedAgent, SeedReload, SeedSwap, Tick, Cleanup, Crash, client
<1> QED BY <1>1, <1>2, <1>3, <1>4

LEMMA RowsStep == TypeOK /\ Matched /\ Numbered /\ [Next]_vars => RowsKnown'
<1> SUFFICES ASSUME TypeOK, Matched, Numbered, [Next]_vars, NEW a \in Agents
             PROVE  LastReport(row'[a]) <= sent'[a]
  BY DEF RowsKnown, LastReport
<1>1. sent'[a] >= sent[a] /\ sent[a] \in Nat /\ sent'[a] \in Nat
  BY SentGrows
<1>2. LastReport(row[a]) \in Nat /\ \A o \in Objects : LastReport(memory[o][a]) \in Nat
  BY RecordsTyped
<1>3. CASE row'[a] = row[a]
  BY <1>1, <1>2, <1>3 DEF Numbered, RowsKnown
<1>4. CASE row'[a] # row[a]
  <2>1. PICK t \in Threads : Upsert(t) /\ request[t].agent = a
    BY <1>4, RowsChange
  <2>2. row'[a] = memory[request[t].object][a] /\ request[t].object \in Objects
    BY <2>1, UpsertWrites, BusyObject
  <2> QED BY <1>1, <1>2, <2>2 DEF Numbered, RecordsKnown
<1> QED BY <1>3, <1>4

LEMMA RecordsStep == TypeOK /\ Matched /\ Numbered /\ [Next]_vars => RecordsKnown'
<1> SUFFICES ASSUME TypeOK, Matched, Numbered, [Next]_vars, NEW a \in Agents, NEW o \in Objects
             PROVE  LastReport(memory'[o][a]) <= sent'[a]
  BY DEF RecordsKnown, LastReport
<1>1. sent'[a] >= sent[a] /\ sent[a] \in Nat /\ sent'[a] \in Nat
  BY SentGrows
<1>2. LastReport(row[a]) \in Nat /\ LastReport(memory[o][a]) \in Nat /\ a \in Everyone
  BY RecordsTyped DEF Everyone
<1>3. CASE memory'[o][a] = memory[o][a]
  BY <1>1, <1>2, <1>3 DEF Numbered, RecordsKnown
<1>4. CASE memory'[o][a] \in {row[a], None}
  <2>1. LastReport(None) = 0
    BY DEF LastReport
  <2> QED BY <1>1, <1>2, <1>4, <2>1 DEF Numbered, RowsKnown
<1>5. ASSUME NEW t \in Threads, Enter(t) PROVE LastReport(memory'[o][a]) <= sent'[a]
  <2>1. request[t].at = "lock"
    BY <1>5 DEF Enter
  <2>2. request[t].kind = "telemetry" => request[t].id <= sent[request[t].agent] /\ request[t].id \in Nat
    BY <2>1, BusyObject DEF Numbered, CallsKnown, Request
  <2>3. CASE o = request[t].object /\ a = request[t].agent
    <3>1. CASE memory' = memory
      BY <1>3, <3>1
    <3>2. CASE LastReport(memory'[o][a]) = IF request[t].kind = "telemetry" THEN request[t].id
                                           ELSE LastReport(memory[o][a])
      BY <1>1, <1>2, <2>2, <2>3, <3>2 DEF Numbered, RecordsKnown
    <3> QED BY <1>5, <2>3, <3>1, <3>2, EnterWrites
  <2>4. CASE ~(o = request[t].object /\ a = request[t].agent)
    <3>1. memory'[o][a] = memory[o][a]
      BY <1>2, <1>5, <2>4, EnterWrites
    <3> QED BY <1>3, <3>1
  <2> QED BY <2>3, <2>4
<1>6. CASE Crash
  <2>1. memory'[o] = IF o = 0 /\ ~torn' THEN row ELSE Blank
    BY <1>6 DEF Crash
  <2>2. memory'[o][a] \in {row[a], None}
    BY <1>2, <2>1 DEF Blank
  <2> QED BY <1>4, <2>2
<1>7. CASE SeedReload
  <2>1. memory' = [memory EXCEPT ![seeds] = Loaded]
    BY <1>7 DEF SeedReload
  <2>2. memory'[o] = memory[o] \/ memory'[o] = Loaded
    BY <2>1 DEF TypeOK
  <2>3. Loaded[a] \in {row[a], None}
    BY <1>2 DEF Loaded, Blank
  <2> QED BY <1>3, <1>4, <2>2, <2>3, SMTT(40)
<1>8. memory' = memory \/ Crash \/ SeedReload \/ \E t \in Threads : Enter(t)
  BY DEF Next, Serve, vars, Begin, Refused, Timeout, Send, Verify, Call, Upsert, Insert, FailWrite,
     Answer, SeedStart, SeedAgent, SeedSwap, Tick, Cleanup, objects
<1> QED BY <1>3, <1>5, <1>6, <1>7, <1>8

LEMMA CallsStep == TypeOK /\ Matched /\ Numbered /\ [Next]_vars => CallsKnown'
<1> SUFFICES ASSUME TypeOK, Matched, Numbered, [Next]_vars, NEW u \in Threads,
                    request'[u].at # "idle", request'[u].kind = "telemetry"
             PROVE  /\ request'[u].id <= sent'[request'[u].agent]
                    /\ request'[u].waiting => request'[u].id = sent'[request'[u].agent]
  BY DEF CallsKnown
<1>1. \A a \in Agents : sent'[a] >= sent[a] /\ sent[a] \in Nat /\ sent'[a] \in Nat
  BY SentGrows
<1>2. request[u].at # "idle" => request[u].agent \in Agents /\ request[u].id \in Nat
  BY BusyObject DEF Request
\* The same call of a runner that has made no other since.
<1>3. CASE request[u].at # "idle" /\ SameCaller(request'[u], request[u]) /\ sent' = sent
  BY <1>3 DEF SameCaller, Numbered, CallsKnown
<1>4. ASSUME NEW t \in Threads, Serve(t)
      PROVE  request[u].at # "idle" /\ SameCaller(request'[u], request[u]) /\ sent' = sent
  <2>1. sent' = sent
    BY <1>4 DEF Serve, Verify, Call, Enter, Upsert, Insert, FailWrite, Answer, client
  <2>2. CASE u = t
    BY <1>4, <2>1, <2>2, ServeMoves
  <2>3. CASE u # t
    BY <1>4, <2>1, <2>3, ServeMoves DEF SameCaller
  <2> QED BY <2>2, <2>3
<1>5. ASSUME NEW a \in Agents, NEW t \in Threads, Send(a, t)
      PROVE  /\ request'[u].id <= sent'[request'[u].agent]
             /\ request'[u].waiting => request'[u].id = sent'[request'[u].agent]
  <2>1. CASE u = t
    BY <1>1, <1>5, <2>1, SendMoves
  <2>2. CASE u # t
    <3>1. request'[u] = request[u] /\ request[u].at # "idle"
      BY <1>5, <2>2, SendMoves
    <3>2. /\ request[u].id <= sent[request[u].agent]
          /\ request[u].waiting => request[u].id = sent[request[u].agent]
      BY <3>1 DEF Numbered, CallsKnown
    <3>3. CASE request[u].agent = a
      <4>1. ~request[u].waiting
        BY <1>5, <3>1, <3>3, SendMoves
      <4> QED BY <1>1, <1>2, <3>1, <3>2, <4>1
    <3>4. CASE request[u].agent # a
      <4>1. sent'[request[u].agent] = sent[request[u].agent]
        BY <1>2, <1>5, <3>1, <3>4, SendMoves
      <4> QED BY <3>1, <3>2, <4>1
    <3> QED BY <3>3, <3>4
  <2> QED BY <2>1, <2>2
<1>6. ASSUME NEW a \in Agents, Timeout(a)
      PROVE  request[u].at # "idle" /\ SameCaller(request'[u], request[u]) /\ sent' = sent
  BY <1>6, TimeoutMoves DEF Timeout
<1>7. CASE Crash
  BY <1>7 DEF Crash, IdleRequest
<1>8. CASE UNCHANGED <<request, sent>>
  BY <1>3, <1>8 DEF SameCaller
<1>9. CASE SeedStart \/ (\E a \in DemoAgents : SeedAgent(a)) \/ SeedReload
  BY <1>8, <1>9 DEF SeedStart, SeedAgent, SeedReload, client
<1> QED BY <1>3, <1>4, <1>5, <1>6, <1>7, <1>8, <1>9, CallMoves

-----------------------------------------------------------------------------
(* The order of the rows. *)

\* Nobody is writing through a registry whose lock is free.
LEMMA FreeLock ==
    ASSUME WritersLock, NEW o, holder[o] = None
    PROVE  \A u \in Threads : request[u].at = "upsert" => request[u].object # o
BY AgentAssumption DEF WritersLock, Writing

LEMMA WritesStep ==
    TypeOK /\ Matched /\ MemoryAgrees /\ WritersLock /\ Numbered /\ WritesAdvance /\ [Next]_vars
        => WritesAdvance'
<1> SUFFICES ASSUME TypeOK, Matched, MemoryAgrees, WritersLock, Numbered, WritesAdvance, [Next]_vars,
                    NEW u \in Threads, request'[u].at = "upsert", request'[u].waiting,
                    request'[u].object = Successor'
             PROVE  LET a == request'[u].agent IN
                    \/ a \in lagging' \/ torn'
                    \/ LastReport(row'[a]) <= LastReport(memory'[Successor'][a])
  BY DEF WritesAdvance, LastReport
<1> DEFINE a == request'[u].agent
<1>1. Successor \in Objects
  BY DEF Successor, TypeOK
\* The call went on as it was.
<1>2. CASE /\ request[u].at = "upsert" /\ SameCaller(request'[u], request[u])
           /\ request[u].object = Successor /\ Successor' = Successor
           /\ row'[a] = row[a] /\ memory'[Successor][a] = memory[Successor][a]
           /\ (torn => torn') /\ (a \in lagging => a \in lagging')
  BY <1>2 DEF WritesAdvance, SameCaller
<1>3. ASSUME NEW t \in Threads, Serve(t), u # t
      PROVE  \/ a \in lagging' \/ torn'
             \/ LastReport(row'[a]) <= LastReport(memory'[Successor'][a])
  <2>1. /\ request'[u] = request[u] /\ SameCaller(request'[u], request[u])
        /\ request[t].at # "idle"
    BY <1>3, ServeMoves DEF SameCaller
  <2>2. Successor' = Successor
    BY <1>3 DEF Serve, Verify, Call, Enter, Upsert, Insert, FailWrite, Answer, Successor,
       objects
  <2>3. holder[Successor] = u /\ a \in Agents
    BY <2>1, <2>2, BusyObject DEF WritersLock, Writing
  <2>4. a \in Everyone /\ request[t].object \in Objects /\ request[t].agent \in Agents
    BY <1>3, <2>1, <2>3, BusyObject DEF Everyone
  <2>5. CASE Enter(t)
    <3>1. request[t].object # Successor
      BY <2>3, <2>5, AgentAssumption DEF Enter
    <3>2. memory'[Successor][a] = memory[Successor][a]
      BY <1>1, <2>4, <2>5, <3>1, EnterWrites
    <3>3. UNCHANGED <<row, torn, lagging>>
      BY <2>5 DEF Enter, stored
    <3> QED BY <1>2, <2>1, <2>2, <3>2, <3>3
  <2>6. CASE Upsert(t)
    <3>1. request[t].object # Successor
      BY <1>3, <2>3, <2>6 DEF Upsert, WritersLock, Writing
    <3>2. lagging' = lagging \cup {request[t].agent} /\ UNCHANGED <<memory, torn>>
      BY <2>6, <3>1, UpsertWrites DEF Lag
    <3>3. CASE request[t].agent = a
      BY <3>2, <3>3
    <3>4. CASE request[t].agent # a
      <4>1. row'[a] = row[a]
        BY <2>4, <2>6, <3>4, UpsertWrites
      <4> QED BY <1>2, <2>1, <2>2, <3>2, <4>1
    <3> QED BY <3>3, <3>4
  <2>7. CASE FailWrite(t)
    <3>1. UNCHANGED <<row, memory>> /\ torn' \in {torn, TRUE} /\ lagging \subseteq lagging'
      BY <2>7 DEF FailWrite
    <3>2. torn => torn'
      BY <3>1, Zenon
    <3> QED BY <1>2, <2>1, <2>2, <3>1, <3>2
  <2>8. CASE Verify(t) \/ Call(t) \/ Insert(t) \/ Answer(t)
    <3>1. UNCHANGED <<row, memory, torn, lagging>>
      BY <2>8 DEF Verify, Call, Insert, Answer, stored, objects
    <3> QED BY <1>2, <2>1, <2>2, <3>1
  <2> QED BY <1>3, <2>5, <2>6, <2>7, <2>8 DEF Serve
\* The handler that has just taken the lock: what it found in the memory was
\* the row, and what a waiting runner reports is its latest.
<1>4. CASE Serve(u)
  <2>1. Enter(u) /\ request'[u].object = request[u].object /\ SameCaller(request'[u], request[u])
        /\ request[u].at # "idle"
    BY <1>4, ServeMoves
  <2>2. Successor' = Successor /\ UNCHANGED <<row, torn, lagging>> /\ request[u].at = "lock"
    BY <2>1 DEF Enter, Successor, stored, objects
  <2>3. /\ a = request[u].agent /\ a \in Agents /\ request[u].object = Successor
        /\ request[u].waiting /\ request[u].id \in Nat
    BY <2>1, <2>2, BusyObject DEF SameCaller, Request
  <2>4. /\ holder[Successor] = None
        /\ LastReport(memory'[Successor][a]) = IF request[u].kind = "telemetry" THEN request[u].id
                                               ELSE LastReport(memory[Successor][a])
    BY <2>1, <2>3, EnterWrites
  <2>5. memory[Successor][a] = row[a] \/ a \in lagging \/ torn
    BY <2>3, <2>4, FreeLock DEF MemoryAgrees, BeingWritten
  <2>6. request[u].kind = "telemetry" => LastReport(row[a]) <= request[u].id
    BY <2>2, <2>3 DEF Numbered, CallsKnown, RowsKnown
  <2>7. LastReport(row[a]) \in Nat
    BY <2>3, RecordsTyped
  <2> QED BY <2>2, <2>4, <2>5, <2>6, <2>7
<1>5. ASSUME NEW b \in Agents, NEW t \in Threads, Send(b, t)
      PROVE  \/ a \in lagging' \/ torn'
             \/ LastReport(row'[a]) <= LastReport(memory'[Successor'][a])
  <2>1. UNCHANGED <<row, memory, torn, lagging>> /\ Successor' = Successor
    BY <1>5 DEF Send, Successor, stored, objects
  <2>2. request'[u] = request[u] /\ SameCaller(request'[u], request[u])
    BY <1>5, SendMoves DEF SameCaller
  <2> QED BY <1>2, <2>1, <2>2
<1>6. ASSUME NEW b \in Agents, Timeout(b)
      PROVE  \/ a \in lagging' \/ torn'
             \/ LastReport(row'[a]) <= LastReport(memory'[Successor'][a])
  <2>1. UNCHANGED <<row, memory, torn, lagging>> /\ Successor' = Successor
    BY <1>6 DEF Timeout, Successor, stored, objects
  <2>2. /\ request[u].at = "upsert" /\ SameCaller(request'[u], request[u])
        /\ request[u].object = Successor
    BY <1>6, <2>1, TimeoutMoves
  <2> QED BY <1>2, <2>1, <2>2
<1>7. CASE Crash
  BY <1>7 DEF Crash, IdleRequest
<1>8. CASE SeedStart \/ \E b \in DemoAgents : SeedAgent(b)
  <2>1. request' = request /\ a \in Agents
    BY <1>8, SeedWrites, BusyObject
  <2> QED BY <1>2, <1>8, <2>1, SeedWrites DEF SameCaller
\* What is loaded is the rows.
<1>9. CASE SeedReload
  <2>1. memory' = [memory EXCEPT ![seeds] = Loaded] /\ row' = row /\ torn' = torn
    BY <1>9 DEF SeedReload, stored
  <2>2. Successor' = seeds /\ seeds \in Objects
    BY <1>9 DEF SeedReload, Successor, TypeOK
  <2>3. memory'[Successor'] = Loaded
    BY <2>1, <2>2 DEF TypeOK
  <2>4. a \in Agents
    BY <1>9, BusyObject DEF SeedReload
  <2>5. LastReport(row[a]) \in Nat
    BY <2>4, RecordsTyped
  <2> QED BY <2>1, <2>3, <2>5 DEF Loaded
<1>10. CASE UNCHANGED <<request, row, memory, holder, sent, lagging, torn>> /\ Successor' = Successor
  BY <1>2, <1>10 DEF SameCaller
<1> QED BY <1>3, <1>4, <1>5, <1>6, <1>7, <1>8, <1>9, <1>10, CallMoves

Orderly == /\ TypeOK /\ Matched /\ MemoryAgrees /\ WritersLock
           /\ Numbered /\ WritesAdvance

LEMMA OrderlyInit == Init => Orderly
<1> SUFFICES ASSUME Init PROVE Orderly
  OBVIOUS
<1>1. TypeOK
  BY TypeInit
<1>2. Matched /\ WritersLock /\ WritesAdvance /\ CallsKnown
  BY DEF Init, Matched, WritersLock, Writing, WritesAdvance, CallsKnown, IdleRequest
<1>3. MemoryAgrees
  BY AgentAssumption DEF Init, MemoryAgrees, Successor, Objects
<1>4. RowsKnown /\ RecordsKnown
  BY DEF Init, RowsKnown, RecordsKnown, LastReport, Blank, Everyone
<1> QED BY <1>1, <1>2, <1>3, <1>4 DEF Orderly, Numbered

LEMMA OrderlyStep == Orderly /\ [Next]_vars => Orderly'
BY TypeStep, MatchedStep, AgreesStep, LockStep, RowsStep, RecordsStep, CallsStep, WritesStep
   DEF Orderly, Numbered

\* The report kept with an agent's row goes back only by a handler whose
\* runner has given up, after a seed or a failure, or in a torn file: for
\* every number of agents, request threads, faults and seeds.
THEOREM RowsNeverGoBack == Spec => ReportsAdvance
<1> DEFINE Forward == \A a \in Agents :
             LastReport(row'[a]) < LastReport(row[a]) =>
                 \/ a \in lagging \cup lagging' \/ torn
                 \/ \E t \in Threads : request[t].at = "upsert" /\ request[t].agent = a
                                       /\ ~request[t].waiting
<1>1. Orderly /\ [Next]_vars => Forward
  <2> SUFFICES ASSUME Orderly, [Next]_vars, NEW a \in Agents,
                      LastReport(row'[a]) < LastReport(row[a])
               PROVE  \/ a \in lagging \cup lagging' \/ torn
                      \/ \E t \in Threads : request[t].at = "upsert" /\ request[t].agent = a
                                            /\ ~request[t].waiting
    OBVIOUS
  <2> USE DEF Orderly
  <2>1. LastReport(row[a]) \in Nat /\ \A o \in Objects : LastReport(memory[o][a]) \in Nat
    BY RecordsTyped
  <2>2. row'[a] # row[a]
    BY <2>1
  <2>3. PICK t \in Threads : Upsert(t) /\ request[t].agent = a
    BY <2>2, RowsChange
  <2>4. /\ row'[a] = memory[request[t].object][a] /\ lagging' = Lag(a, request[t].object)
        /\ request[t].at = "upsert" /\ request[t].object \in Objects
    BY <2>3, UpsertWrites, BusyObject
  <2>5. CASE request[t].object # Successor
    BY <2>4, <2>5 DEF Lag
  <2>6. CASE request[t].object = Successor
    <3>1. request[t].waiting => \/ a \in lagging \/ torn
                                \/ LastReport(row[a]) <= LastReport(memory[Successor][a])
      BY <2>3, <2>4, <2>6 DEF WritesAdvance
    <3> QED BY <2>1, <2>3, <2>4, <2>6, <3>1
  <2> QED BY <2>5, <2>6
<1>2. Orderly /\ [Next]_vars => [Forward]_vars
  BY <1>1
<1> QED BY <1>2, OrderlyInit, OrderlyStep, PTL DEF Spec, ReportsAdvance

-----------------------------------------------------------------------------
(* Settings. *)

UpdateFields == {"at", "payload", "values"}
Steps == {"open", "write", "replace", "switch"}

UpdatesWellFormed ==
    /\ spoilt \in BOOLEAN
    /\ together \subseteq Requests
    /\ update = [t \in Requests |-> update[t]]
    /\ \A t \in Requests :
          \/ update[t] = NoUpdate
          \/ /\ update[t].at \in Steps
             /\ DOMAIN update[t] = UpdateFields /\ update[t] = [f \in UpdateFields |-> update[t][f]]

At(t, steps) == update[t].at \in steps

\* A thread that is busy and has met nobody is the only one that is busy.
Solitude ==
    \A t \in Requests : At(t, Steps) /\ t \notin together =>
        together = {} /\ \A u \in Requests : At(u, Steps) => u = t

\* A lone update that has replaced the cache is about to set the switch; after it they agree.
SwitchFollows ==
    together = {} /\ (\A t \in Requests : ~At(t, Steps)) => persist = cache["persist_logs"]
LastReplaced == \A t \in Requests : At(t, {"switch"}) /\ t \notin together => cache = update[t].values

\* The file that only a lone update has written: nobody is writing, one thread at most has
\* written, and it is about to put the same values in the cache, or has done so.
FileFollows ==
    ~spoilt =>
        /\ \A t \in Requests : ~At(t, {"write"})
        /\ \A t, u \in Requests : At(t, {"replace", "switch"}) /\ At(u, {"replace", "switch"})
                                  => t = u
        /\ \A t \in Requests : At(t, {"replace"}) => file.values = update[t].values
        /\ (\A t \in Requests : ~At(t, {"replace"})) => file.values = cache

\* A lone update truncates the file before it writes, and its copy is still that of the cache.
TruncatedAlone == \A t \in Requests : At(t, {"write"}) /\ t \notin together => file = Truncated
CopyIsCurrent ==
    \A t \in Requests : At(t, {"open", "write", "replace"}) /\ t \notin together
        => update[t].values = Merged(cache, update[t].payload)

SettingsInv == /\ UpdatesWellFormed /\ Solitude /\ SwitchFollows /\ LastReplaced
       /\ FileFollows /\ TruncatedAlone /\ CopyIsCurrent

\* No text is shorter than an empty file.
LEMMA SizeIsNatural == ASSUME IsFiniteSet(Keys), NEW values PROVE Size(values) \in Nat
<1>1. IsFiniteSet({k \in Keys : ~values[k]})
  BY FS_Subset
<1> QED BY <1>1, FS_CardinalityType DEF Size

\* A file that can be read has been loaded.
LEMMA SettingsInitInv == SettingsInit => SettingsInv
<1> SUFFICES ASSUME SettingsInit PROVE SettingsInv
  OBVIOUS
<1>1. \A t \in Requests : update[t] = NoUpdate /\ ~At(t, Steps)
  BY DEF SettingsInit, NoUpdate, At, Steps
<1>2. UpdatesWellFormed
  BY <1>1 DEF SettingsInit, UpdatesWellFormed
<1>3. /\ \A t \in Requests : ~At(t, {"write"}) /\ ~At(t, {"replace"}) /\ ~At(t, {"switch"})
      /\ \A t \in Requests : ~At(t, {"replace", "switch"}) /\ ~At(t, {"open", "write", "replace"})
  BY <1>1 DEF At, Steps
<1>4. ~spoilt => file.values = cache
  <2>1. CASE file = Truncated
    BY <2>1 DEF SettingsInit
  <2>2. CASE file = Text(Defaults)
    <3>1. file.values = Defaults
      BY <2>2 DEF Text
    <3>2. cache = IF file.values = Unreadable THEN Defaults ELSE file.values
      BY DEF SettingsInit, FromFile
    <3> QED BY <3>1, <3>2
  <2> QED BY <2>1, <2>2 DEF SettingsInit
<1>5. persist = cache["persist_logs"]
  BY DEF SettingsInit
<1> QED
  BY <1>1, <1>2, <1>3, <1>4, <1>5
  DEF SettingsInv, Solitude, SwitchFollows, LastReplaced, FileFollows, TruncatedAlone, CopyIsCurrent

\* A thread moves on: its payload and its copy stay, and so do the other threads.
LEMMA Moves ==
    ASSUME UpdatesWellFormed, NEW t \in Requests, update[t].at \in Steps, NEW s \in Steps, Goto(t, s)
    PROVE  /\ update' = [u \in Requests |-> update'[u]]
           /\ \A u \in Requests : u # t => update'[u] = update[u]
           /\ update'[t].at = s
           /\ update'[t].values = update[t].values /\ update'[t].payload = update[t].payload
           /\ DOMAIN update'[t] = UpdateFields /\ update'[t] = [f \in UpdateFields |-> update'[t][f]]
<1>1. DOMAIN update[t] = UpdateFields /\ update[t] = [f \in UpdateFields |-> update[t][f]]
  BY DEF UpdatesWellFormed, NoUpdate, Steps
<1>2. /\ update' = [u \in Requests |-> update'[u]]
      /\ \A u \in Requests : u # t => update'[u] = update[u]
      /\ update'[t] = [update[t] EXCEPT !.at = s]
  BY DEF Goto, UpdatesWellFormed
<1> QED BY <1>1, <1>2 DEF UpdateFields

\* Where the threads are after t has moved to s.
LEMMA WhereTheyAre ==
    ASSUME UpdatesWellFormed, NEW t \in Requests, update[t].at \in Steps, NEW s \in Steps, Goto(t, s)
    PROVE  \A S : /\ At(t, S)' <=> s \in S
                 /\ \A u \in Requests : u # t => (At(u, S)' <=> At(u, S))
BY Moves DEF At

\* What holds after every step within an update.
LEMMA StepWithin ==
    ASSUME SettingsInv, NEW t \in Requests, update[t].at \in Steps, NEW s \in Steps, Goto(t, s),
           together' = together, spoilt' \in BOOLEAN
    PROVE  UpdatesWellFormed' /\ Solitude' /\ SwitchFollows'
<1>1. UpdatesWellFormed
  BY DEF SettingsInv
<1>2. UpdatesWellFormed'
  <2>1. /\ update' = [u \in Requests |-> update'[u]]
        /\ \A u \in Requests : u # t => update'[u] = update[u]
        /\ update'[t].at = s
        /\ DOMAIN update'[t] = UpdateFields /\ update'[t] = [f \in UpdateFields |-> update'[t][f]]
    BY <1>1, Moves
  <2> QED BY <1>1, <2>1 DEF UpdatesWellFormed
<1>3. At(t, Steps) /\ At(t, Steps)' /\ \A u \in Requests : u # t => (At(u, Steps)' <=> At(u, Steps))
  BY <1>1, WhereTheyAre DEF At
<1>4. Solitude'
  BY <1>3 DEF SettingsInv, Solitude
<1> QED BY <1>2, <1>3, <1>4 DEF SwitchFollows

LEMMA SettingsStepInv == ASSUME IsFiniteSet(Keys) PROVE SettingsInv /\ [SettingsNext]_settingsVars => SettingsInv'
<1> SUFFICES ASSUME SettingsInv, [SettingsNext]_settingsVars PROVE SettingsInv'
  OBVIOUS
<1>1. ASSUME NEW t \in Requests, BeginUpdate(t) PROVE SettingsInv'
  <2>1. PICK payload \in Updates : update' = [update EXCEPT ![t] =
                  [at |-> "open", payload |-> payload, values |-> Copy(payload)]]
    BY <1>1 DEF BeginUpdate
  <2>2. /\ update' = [u \in Requests |-> update'[u]]
        /\ \A u \in Requests : u # t => update'[u] = update[u]
        /\ update'[t] = [at |-> "open", payload |-> payload, values |-> Copy(payload)]
    BY <2>1 DEF SettingsInv, UpdatesWellFormed
  <2>3. /\ update'[t].at = "open" /\ update'[t].payload = payload
        /\ update'[t].values = Merged(cache, payload)
        /\ DOMAIN update'[t] = UpdateFields /\ update'[t] = [f \in UpdateFields |-> update'[t][f]]
    BY <2>2 DEF Copy, UpdateFields
  <2>4. update[t].at = "idle" /\ ~At(t, Steps)
    BY <1>1 DEF BeginUpdate, At, Steps
  <2>5. \A u \in Requests : At(u, Steps) <=> u \in Busy
    BY DEF SettingsInv, UpdatesWellFormed, At, Steps, Busy, NoUpdate
  <2>6. Busy \subseteq Requests
    BY DEF Busy
  <2>7. /\ \A u \in Requests : u # t => /\ At(u, Steps)' = At(u, Steps)
                                        /\ At(u, {"write"})' = At(u, {"write"})
                                        /\ At(u, {"switch"})' = At(u, {"switch"})
                                        /\ At(u, {"replace"})' = At(u, {"replace"})
                                        /\ At(u, {"replace", "switch"})' = At(u, {"replace", "switch"})
                                        /\ At(u, {"open", "write", "replace"})'
                                             = At(u, {"open", "write", "replace"})
        /\ At(t, Steps)' /\ ~At(t, {"write"})' /\ ~At(t, {"switch"})' /\ ~At(t, {"replace"})'
        /\ ~At(t, {"replace", "switch"})'
    BY <2>2, <2>3 DEF At, Steps
  <2>8. UNCHANGED <<cache, file, persist, spoilt>>
    BY <1>1 DEF BeginUpdate
  <2>9. UpdatesWellFormed'
    BY <1>1, <2>2, <2>3, <2>6, <2>8 DEF BeginUpdate, SettingsInv, UpdatesWellFormed, Steps
  <2>10. /\ Busy = {} => together' = {}
         /\ Busy # {} => together' = together \cup Busy \cup {t}
    BY <1>1 DEF BeginUpdate
  <2>11. Solitude'
    BY <2>5, <2>7, <2>10 DEF SettingsInv, Solitude
  <2>12. SwitchFollows'
    BY <2>7 DEF SwitchFollows
  <2>13. LastReplaced' /\ TruncatedAlone'
    BY <2>2, <2>5, <2>7, <2>8, <2>10 DEF SettingsInv, LastReplaced, TruncatedAlone, At, Steps, Truncated
  <2>14. CopyIsCurrent'
    BY <2>2, <2>3, <2>5, <2>7, <2>8, <2>10 DEF SettingsInv, CopyIsCurrent, At, Steps, Merged
  <2>15. FileFollows'
    BY <2>2, <2>4, <2>7, <2>8 DEF SettingsInv, FileFollows, At
  <2> QED BY <2>9, <2>11, <2>12, <2>13, <2>14, <2>15 DEF SettingsInv
<1>2. ASSUME NEW t \in Requests, Truncate(t) PROVE SettingsInv'
  <2>1. /\ update[t].at = "open" /\ Goto(t, "write") /\ file' = Truncated /\ spoilt' = TRUE
        /\ cache' = cache /\ persist' = persist /\ together' = together
    BY <1>2 DEF Truncate
  <2>2. "open" \in Steps /\ "write" \in Steps
    BY DEF Steps
  <2>3. UpdatesWellFormed' /\ Solitude' /\ SwitchFollows'
    BY <2>1, <2>2, StepWithin
  <2>4. /\ \A u \in Requests : u # t => update'[u] = update[u]
        /\ update'[t].at = "write" /\ update'[t].values = update[t].values
        /\ update'[t].payload = update[t].payload
    BY <2>1, <2>2, Moves DEF SettingsInv
  <2>5. LastReplaced' /\ CopyIsCurrent'
    BY <2>1, <2>4 DEF SettingsInv, LastReplaced, CopyIsCurrent, At, Merged
  <2>6. TruncatedAlone' /\ FileFollows'
    BY <2>1 DEF TruncatedAlone, FileFollows, Truncated
  <2> QED BY <2>3, <2>5, <2>6 DEF SettingsInv
<1>3. ASSUME NEW t \in Requests, Write(t) PROVE SettingsInv'
  <2>1. /\ update[t].at = "write" /\ Goto(t, "replace") /\ spoilt' = (t \in together)
        /\ file' = IF Size(Written(t)) >= file.size THEN Text(Written(t))
                   ELSE [file EXCEPT !.values = Unreadable]
        /\ cache' = cache /\ persist' = persist /\ together' = together
    BY <1>3 DEF Write
  <2>2. "write" \in Steps /\ "replace" \in Steps
    BY DEF Steps
  <2>3. UpdatesWellFormed' /\ Solitude' /\ SwitchFollows'
    BY <2>1, <2>2, StepWithin
  <2>4. /\ UpdatesWellFormed /\ At(t, Steps)
        /\ \A u \in Requests : At(u, Steps) /\ u # t => t \in together /\ u \in together
    BY <2>1, <2>2 DEF SettingsInv, Solitude, At
  <2>5. /\ \A u \in Requests : u # t => update'[u] = update[u]
        /\ update'[t].at = "replace" /\ update'[t].values = update[t].values
        /\ update'[t].payload = update[t].payload
    BY <2>1, <2>2, <2>4, Moves
  <2>6. LastReplaced' /\ CopyIsCurrent'
    BY <2>1, <2>5 DEF SettingsInv, LastReplaced, CopyIsCurrent, At, Merged
  <2>7. TruncatedAlone'
    BY <2>1, <2>4, <2>5 DEF TruncatedAlone, At, Steps
  <2>8. ASSUME t \notin together PROVE file'.values = update'[t].values
    <3>1. file.size = 0
      BY <2>1, <2>8 DEF SettingsInv, TruncatedAlone, At, Truncated
    <3>2. Size(Written(t)) >= file.size
      BY <3>1, SizeIsNatural
    <3> QED BY <2>1, <2>5, <3>2 DEF Text, Written
  <2>9. FileFollows'
    <3> SUFFICES ASSUME t \notin together PROVE FileFollows'
      BY <2>1 DEF FileFollows
    <3>1. \A u \in Requests : u # t => ~At(u, Steps)'
      BY <2>4, <2>5 DEF At
    <3> QED BY <2>5, <2>8, <3>1 DEF FileFollows, At, Steps
  <2> QED BY <2>3, <2>6, <2>7, <2>9 DEF SettingsInv
<1>4. ASSUME NEW t \in Requests, FailToSave(t) PROVE SettingsInv'
  <2>1. /\ update[t].at \in {"open", "write"} /\ Goto(t, "replace") /\ spoilt' = TRUE
        /\ cache' = cache /\ file' = file /\ persist' = persist /\ together' = together
    BY <1>4 DEF FailToSave
  <2>2. update[t].at \in Steps /\ "replace" \in Steps
    BY <2>1 DEF Steps
  <2>3. UpdatesWellFormed' /\ Solitude' /\ SwitchFollows'
    BY <2>1, <2>2, StepWithin
  <2>4. UpdatesWellFormed
    BY DEF SettingsInv
  <2>5. /\ \A u \in Requests : u # t => update'[u] = update[u]
        /\ update'[t].at = "replace" /\ update'[t].values = update[t].values
        /\ update'[t].payload = update[t].payload
    BY <2>1, <2>2, <2>4, Moves
  <2>6. LastReplaced' /\ TruncatedAlone'
    BY <2>1, <2>5 DEF SettingsInv, LastReplaced, TruncatedAlone, At, Truncated
  <2>7. CopyIsCurrent'
    BY <2>1, <2>5 DEF SettingsInv, CopyIsCurrent, At, Merged
  <2>8. FileFollows'
    BY <2>1 DEF FileFollows
  <2> QED BY <2>3, <2>6, <2>7, <2>8 DEF SettingsInv
<1>5. ASSUME NEW t \in Requests, Replace(t) PROVE SettingsInv'
  <2>1. /\ update[t].at = "replace" /\ Goto(t, "switch") /\ cache' = update[t].values
        /\ file' = file /\ persist' = persist /\ together' = together /\ spoilt' = spoilt
    BY <1>5 DEF Replace
  <2>2. "replace" \in Steps /\ "switch" \in Steps /\ UpdatesWellFormed
    BY DEF Steps, SettingsInv
  <2>3. UpdatesWellFormed' /\ Solitude' /\ SwitchFollows'
    BY <2>1, <2>2, StepWithin DEF UpdatesWellFormed
  <2>4. At(t, Steps) /\ \A u \in Requests : At(u, Steps) /\ u # t => u \in together
    BY <2>1, <2>2 DEF SettingsInv, Solitude, At
  <2>5. /\ \A u \in Requests : u # t => update'[u] = update[u]
        /\ update'[t].at = "switch" /\ update'[t].values = update[t].values
        /\ update'[t].payload = update[t].payload
    BY <2>1, <2>2, Moves
  <2>6. LastReplaced' /\ CopyIsCurrent'
    BY <2>1, <2>4, <2>5 DEF LastReplaced, CopyIsCurrent, At, Steps
  <2>7. TruncatedAlone'
    BY <2>1, <2>5 DEF SettingsInv, TruncatedAlone, At, Truncated
  <2>8. FileFollows'
    BY <2>1, <2>5 DEF SettingsInv, FileFollows, At
  <2> QED BY <2>3, <2>6, <2>7, <2>8 DEF SettingsInv
<1>6. ASSUME NEW t \in Requests, Switch(t) PROVE SettingsInv'
  <2>1. /\ update[t].at = "switch" /\ update' = [update EXCEPT ![t] = NoUpdate]
        /\ persist' = update[t].values["persist_logs"]
        /\ cache' = cache /\ file' = file /\ together' = together /\ spoilt' = spoilt
    BY <1>6 DEF Switch
  <2>2. /\ update' = [u \in Requests |-> update'[u]]
        /\ \A u \in Requests : u # t => update'[u] = update[u]
        /\ update'[t] = NoUpdate /\ update'[t].at = "idle"
    BY <2>1 DEF SettingsInv, UpdatesWellFormed, NoUpdate
  <2>3. UpdatesWellFormed'
    BY <2>1, <2>2 DEF SettingsInv, UpdatesWellFormed
  <2>4. Solitude'
    BY <2>1, <2>2 DEF SettingsInv, Solitude, At, Steps
  <2>5. SwitchFollows'
    <3> SUFFICES ASSUME together = {} PROVE persist' = cache'["persist_logs"]
      BY <2>1 DEF SwitchFollows
    <3> QED BY <2>1 DEF SettingsInv, LastReplaced, At
  <2>6. LastReplaced' /\ CopyIsCurrent' /\ TruncatedAlone'
    BY <2>1, <2>2 DEF SettingsInv, LastReplaced, CopyIsCurrent, TruncatedAlone, At, Truncated, Merged
  <2>7. FileFollows'
    BY <2>1, <2>2 DEF SettingsInv, FileFollows, At
  <2> QED BY <2>3, <2>4, <2>5, <2>6, <2>7 DEF SettingsInv
<1>7. CASE Restart
  <2>1. /\ cache' = FromFile(file) /\ persist' = cache'["persist_logs"] /\ file' = file
        /\ update' = [t \in Requests |-> NoUpdate]
        /\ together' = {} /\ spoilt' = (file.values = Unreadable)
    BY <1>7 DEF Restart
  <2>2. /\ update' = [t \in Requests |-> update'[t]]
        /\ \A t \in Requests : update'[t] = NoUpdate /\ update'[t].at = "idle"
    BY <2>1 DEF NoUpdate
  <2>3. UpdatesWellFormed'
    BY <2>1, <2>2 DEF UpdatesWellFormed
  <2>4. ~spoilt' => file'.values = cache'
    BY <2>1 DEF FromFile
  <2> QED
    BY <2>1, <2>2, <2>3, <2>4
    DEF SettingsInv, Solitude, SwitchFollows, LastReplaced, FileFollows, TruncatedAlone, CopyIsCurrent,
        At, Steps
<1>8. CASE UNCHANGED settingsVars
  BY <1>8
  DEF settingsVars, SettingsInv, UpdatesWellFormed, Solitude, SwitchFollows, LastReplaced, FileFollows, TruncatedAlone,
      CopyIsCurrent, At, Truncated, Merged
<1> QED BY <1>1, <1>2, <1>3, <1>4, <1>5, <1>6, <1>7, <1>8 DEF SettingsNext

\* Between updates the cache, the file and the switch say the same, unless updates have met or
\* saving has failed since one that was alone: for any number of threads, updates and faults.
THEOREM SettingsInStep == ASSUME IsFiniteSet(Keys) PROVE SettingsSpec => []InStep
<1>1. SettingsInv => InStep
  <2>1. ASSUME SettingsInv, Busy = {}, together = {} PROVE persist = cache["persist_logs"]
    <3>1. \A t \in Requests : ~At(t, Steps)
      BY <2>1 DEF Busy, At, Steps
    <3> QED BY <2>1, <3>1 DEF SettingsInv, SwitchFollows
  <2>2. ASSUME SettingsInv, Busy = {}, ~spoilt PROVE file.values = cache
    <3>1. \A t \in Requests : ~At(t, {"replace"})
      BY <2>2 DEF Busy, At
    <3> QED BY <2>2, <3>1 DEF SettingsInv, FileFollows
  <2> QED BY <2>1, <2>2 DEF InStep
<1> QED BY <1>1, SettingsInitInv, SettingsStepInv, PTL DEF SettingsSpec

\* An update that meets no other changes only the settings it asks for, whatever updates have
\* met, failed or been cut off before it.
THEOREM LoneUpdatesKeepTheRest == ASSUME IsFiniteSet(Keys) PROVE SettingsSpec => NothingLost
<1>1. SettingsInv /\ [SettingsNext]_settingsVars => [\A t \in Requests :
          update[t].at = "replace" /\ update'[t].at = "switch" /\ t \notin together
          => cache' = Merged(cache, update[t].payload)]_settingsVars
  <2> SUFFICES ASSUME SettingsInv, SettingsNext, NEW t \in Requests,
                      update[t].at = "replace", update'[t].at = "switch", t \notin together
               PROVE  cache' = Merged(cache, update[t].payload)
    OBVIOUS
  <2>1. update[t].values = Merged(cache, update[t].payload)
    BY DEF SettingsInv, CopyIsCurrent, At
  <2>2. ~Restart
    BY DEF Restart, NoUpdate
  <2>3. PICK u \in Requests : \/ BeginUpdate(u) \/ Truncate(u) \/ Write(u) \/ FailToSave(u)
                              \/ Replace(u) \/ Switch(u)
    BY <2>2 DEF SettingsNext
  <2>4. update = [v \in Requests |-> update[v]]
    BY DEF SettingsInv, UpdatesWellFormed
  <2>5. u # t => update'[t] = update[t]
    BY <2>3, <2>4 DEF BeginUpdate, Truncate, Write, FailToSave, Replace, Switch, Goto
  <2>6. u = t
    BY <2>5
  <2>7. Replace(t)
    BY <2>3, <2>6 DEF BeginUpdate, Truncate, Write, FailToSave, Switch
  <2> QED BY <2>1, <2>7 DEF Replace
<1> QED BY <1>1, SettingsInitInv, SettingsStepInv, PTL DEF SettingsSpec, NothingLost

-----------------------------------------------------------------------------
(* Custom filters. *)

ChangeFields == {"at", "kind", "id", "number", "good", "rows"}
ChangesWellFormed ==
    /\ unreadable \in BOOLEAN
    /\ change = [c \in Clients |-> change[c]]
    /\ \A c \in Clients :
          \/ change[c] = NoChange
          \/ change[c].at \in {"lock", "apply"} /\ DOMAIN change[c] = ChangeFields
                /\ change[c] = [f \in ChangeFields |-> change[c][f]]

LockHeld == \A c \in Clients : change[c].at = "apply" => owner = {c}
ReadIsCurrent == \A c \in Clients : change[c].at = "apply" => change[c].rows = Custom

FiltersInv == ChangesWellFormed /\ LockHeld /\ ReadIsCurrent /\ AnswersKept

LEMMA FiltersInitInv == FiltersInit => FiltersInv
<1> SUFFICES ASSUME FiltersInit PROVE FiltersInv
  OBVIOUS
<1>1. change = [c \in Clients |-> NoChange]
  BY DEF FiltersInit
<1>2. \A c \in Clients : change[c] = NoChange /\ change[c].at # "apply"
  BY <1>1 DEF NoChange
<1>3. ChangesWellFormed
  BY <1>1, <1>2 DEF FiltersInit, ChangesWellFormed
<1>4. AnswersKept
  BY DEF FiltersInit, AnswersKept
<1> QED BY <1>2, <1>3, <1>4 DEF FiltersInv, LockHeld, ReadIsCurrent

\* A thread that leaves the critical section was the only one in it.
LEMMA LeavesItEmpty ==
    ASSUME FiltersInv, NEW c \in Clients, change[c].at = "apply", Leave(c)
    PROVE  /\ change' = [d \in Clients |-> change'[d]]
           /\ \A d \in Clients : \/ change'[d] = NoChange
                                 \/ change'[d] = change[d] /\ change[d].at = "lock"
<1>1. \A d \in Clients : change[d].at = "apply" => d = c
  BY DEF FiltersInv, LockHeld
<1>2. change' = [change EXCEPT ![c] = NoChange]
  BY DEF Leave
<1>3. \A d \in Clients : change'[d] = IF d = c THEN NoChange ELSE change[d]
  BY <1>2 DEF FiltersInv, ChangesWellFormed
<1>4. \A d \in Clients : d # c => change[d] = NoChange \/ change[d].at = "lock"
  BY <1>1 DEF FiltersInv, ChangesWellFormed
<1>5. change' = [d \in Clients |-> change'[d]]
  BY <1>2 DEF FiltersInv, ChangesWellFormed
<1> QED BY <1>3, <1>4, <1>5

\* What is written was read under the lock: the file then holds what is promised.
LEMMA FileIsPromised ==
    ASSUME FiltersInv, NEW c \in Clients, change[c].at = "apply", FileWritten(change[c])
    PROVE  rows' = promised' /\ unreadable' = FALSE
<1>1. change[c].rows = IF unreadable THEN << >> ELSE promised
  BY DEF FiltersInv, ReadIsCurrent, AnswersKept, Custom
<1> QED BY <1>1 DEF FileWritten

LEMMA FiltersStepInv == FiltersInv /\ [FiltersNext]_filterVars => FiltersInv'
<1> SUFFICES ASSUME FiltersInv, [FiltersNext]_filterVars PROVE FiltersInv'
  OBVIOUS
<1>1. ASSUME NEW c \in Clients, Ask(c) PROVE FiltersInv'
  <2>1. PICK r : /\ change' = [change EXCEPT ![c] = r] /\ r.at = "lock"
                 /\ DOMAIN r = ChangeFields /\ r = [f \in ChangeFields |-> r[f]]
    BY <1>1 DEF Ask, ChangeFields
  <2>2. /\ change' = [d \in Clients |-> change'[d]]
        /\ \A d \in Clients : change'[d] = IF d = c THEN r ELSE change[d]
    BY <2>1 DEF FiltersInv, ChangesWellFormed
  <2> QED
    BY <1>1, <2>1, <2>2
    DEF Ask, FiltersInv, ChangesWellFormed, LockHeld, ReadIsCurrent, AnswersKept, Custom
<1>2. ASSUME NEW c \in Clients, TakeLock(c) PROVE FiltersInv'
  <2>1. DOMAIN change[c] = ChangeFields /\ change[c] = [f \in ChangeFields |-> change[c][f]]
    BY <1>2 DEF TakeLock, FiltersInv, ChangesWellFormed, NoChange
  <2>2. /\ change' = [d \in Clients |-> change'[d]]
        /\ \A d \in Clients : d # c => change'[d] = change[d]
        /\ change'[c] = [change[c] EXCEPT !.at = "apply", !.rows = Custom]
    BY <1>2 DEF TakeLock, FiltersInv, ChangesWellFormed
  <2>3. /\ change'[c].at = "apply" /\ change'[c].rows = Custom
        /\ DOMAIN change'[c] = ChangeFields /\ change'[c] = [f \in ChangeFields |-> change'[c][f]]
    BY <2>1, <2>2 DEF ChangeFields
  <2>4. \A d \in Clients : change[d].at # "apply"
    BY <1>2 DEF TakeLock, LockFree, FiltersInv, LockHeld
  <2> QED
    BY <1>2, <2>2, <2>3, <2>4
    DEF TakeLock, FiltersInv, ChangesWellFormed, LockHeld, ReadIsCurrent, AnswersKept, Custom
<1>3. ASSUME NEW c \in Clients, Refuse(c) PROVE FiltersInv'
  <2>1. \A d \in Clients : change'[d].at # "apply"
    BY <1>3, LeavesItEmpty DEF Refuse, NoChange
  <2> QED
    BY <1>3, <2>1, LeavesItEmpty
    DEF Refuse, FiltersInv, ChangesWellFormed, LockHeld, ReadIsCurrent, AnswersKept
<1>4. ASSUME NEW c \in Clients, Save(c) PROVE FiltersInv'
  <2>1. \A d \in Clients : change'[d].at # "apply"
    BY <1>4, LeavesItEmpty DEF Save, ToWrite, NoChange
  <2>2. rows' = promised' /\ unreadable' = FALSE
    BY <1>4, FileIsPromised DEF Save, ToWrite
  <2> QED
    BY <1>4, <2>1, <2>2, LeavesItEmpty
    DEF Save, ToWrite, FiltersInv, ChangesWellFormed, LockHeld, ReadIsCurrent, AnswersKept
<1>5. ASSUME NEW c \in Clients, FailToWrite(c) PROVE FiltersInv'
  <2>1. \A d \in Clients : change'[d].at # "apply"
    BY <1>5, LeavesItEmpty DEF FailToWrite, ToWrite, NoChange
  <2> QED
    BY <1>5, <2>1, LeavesItEmpty
    DEF FailToWrite, ToWrite, FiltersInv, ChangesWellFormed, LockHeld, ReadIsCurrent, AnswersKept
<1>6. CASE Die
  <2>1. unreadable' \in BOOLEAN /\ AnswersKept'
    <3>1. CASE UNCHANGED <<rows, unreadable, promised>>
      BY <3>1 DEF FiltersInv, ChangesWellFormed, AnswersKept
    <3>2. CASE unreadable' = TRUE
      BY <3>2 DEF AnswersKept
    <3>3. ASSUME NEW c \in Clients, ToWrite(c), FileWritten(change[c])
          PROVE  unreadable' \in BOOLEAN /\ AnswersKept'
      BY <3>3, FileIsPromised DEF ToWrite, AnswersKept
    <3> QED BY <1>6, <3>1, <3>2, <3>3 DEF Die
  <2>2. change' = [c \in Clients |-> NoChange]
    BY <1>6 DEF Die
  <2>3. /\ change' = [c \in Clients |-> change'[c]]
        /\ \A c \in Clients : change'[c] = NoChange /\ change'[c].at # "apply"
    BY <2>2 DEF NoChange
  <2> QED
    BY <2>1, <2>2, <2>3
    DEF FiltersInv, ChangesWellFormed, LockHeld, ReadIsCurrent
<1>7. CASE UNCHANGED filterVars
  BY <1>7 DEF filterVars, FiltersInv, ChangesWellFormed, LockHeld, ReadIsCurrent, AnswersKept, Custom
<1> QED BY <1>1, <1>2, <1>3, <1>4, <1>5, <1>6, <1>7 DEF FiltersNext

\* The file holds what the answers said, for any number of clients, requests, failed writes and
\* crashes: the lock around reading and writing in SavedFilterService leaves no update lost.
THEOREM FiltersKept == FiltersSpec => []AnswersKept
<1>1. FiltersInv => AnswersKept
  BY DEF FiltersInv
<1> QED BY <1>1, FiltersInitInv, FiltersStepInv, PTL DEF FiltersSpec

-----------------------------------------------------------------------------
(* Flow snapshots. *)

FlowCopy == [flow : Flows, packets : Nat \ {0}]
Rows == Range(writer.rows)
Queued == Range(queue)

FlowTypes ==
    /\ packets \in [Flows -> Nat] /\ flowRows \in [Flows -> Nat]
    /\ hand \in [Ingesters -> {<< >>} \cup {<<c>> : c \in FlowCopy}]
    /\ queue \in Seq(FlowCopy)
    /\ writer \in [at : {"check", "wait", "gather", "write", "pause", "ended"},
                   rows : Seq(FlowCopy), retries : Nat]
    /\ taken \subseteq FlowCopy /\ lost \subseteq taken

\* Of two copies of a flow, the one of A has fewer packets; and later copies in s have more.
Below(A, B) == \A a \in A, b \in B : a.flow = b.flow => a.packets < b.packets
Rising(s) == \A j, k \in DOMAIN s : j < k /\ s[j].flow = s[k].flow => s[j].packets < s[k].packets

\* A copy in a thread's hand is newer than all that were taken, which are no newer than the flow.
HandIsNewest ==
    /\ \A c \in taken : c.packets <= packets[c.flow]
    /\ \A i \in Ingesters, c \in FlowCopy : hand[i] = <<c>> =>
          OwnerOf[c.flow] = i /\ c.packets = packets[c.flow] /\ Below(taken, {c})

\* What waits is in order: given up, in the batch, in the queue; and newer than the table.
InOrder ==
    /\ Rising(writer.rows) /\ Rising(queue) /\ Below(Rows, Queued)
    /\ Below(lost, Rows \cup Queued)
    /\ \A c \in Rows \cup Queued : c \in taken /\ flowRows[c.flow] < c.packets

\* A taken copy waits, is given up, or the table has it or a newer one; and what the table has
\* was taken and not given up.
Settled == \A c \in taken : c \in lost \cup Rows \cup Queued \/ c.packets <= flowRows[c.flow]
Sourced == \A f \in Flows : \/ flowRows[f] = 0
                            \/ [flow |-> f, packets |-> flowRows[f]] \in taken \ lost

\* The writer begins a batch with empty hands, and only if there is a writer.
BatchAtWork ==
    /\ writer.at \in {"check", "wait", "ended"} => writer.rows = << >>
    /\ ~batching => queue = << >> /\ writer.at = "check"

FlowsInv == FlowTypes /\ HandIsNewest /\ InOrder /\ Settled /\ Sourced /\ BatchAtWork

\* A flow with a copy in s has a last one, and it is the newest when s is in order.
LEMMA LatestIsLargest ==
    ASSUME NEW s \in Seq(FlowCopy), Rising(s), NEW f, \E k \in DOMAIN s : s[k].flow = f
    PROVE  /\ LatestOf(s, f) \in DOMAIN s /\ s[LatestOf(s, f)].flow = f
           /\ \A j \in DOMAIN s : s[j].flow = f => s[j].packets <= s[LatestOf(s, f)].packets
<1> DEFINE T == {Len(s) - k : k \in {j \in DOMAIN s : s[j].flow = f}}
<1>1. DOMAIN s = 1 .. Len(s) /\ Len(s) \in Nat /\ \A k \in DOMAIN s : s[k] \in FlowCopy
  BY LenProperties, ElementOfSeq
<1>2. T \subseteq Nat /\ T # {}
  BY <1>1
<1>3. PICK x \in T : \A y \in T : x <= y
  BY <1>2, Least
<1>4. PICK last \in DOMAIN s : s[last].flow = f /\ x = Len(s) - last
  BY <1>3
<1>5. ASSUME NEW j \in last + 1 .. Len(s) PROVE s[j].flow # f
  <2>1. SUFFICES ASSUME s[j].flow = f PROVE FALSE
    OBVIOUS
  <2>2. j \in DOMAIN s /\ Len(s) - j \in T
    BY <1>1, <1>4, <2>1
  <2>3. x <= Len(s) - j
    BY <1>3, <2>2
  <2> QED
    BY <1>1, <1>4, <2>3
<1>6. /\ LatestOf(s, f) \in DOMAIN s /\ s[LatestOf(s, f)].flow = f
      /\ \A j \in LatestOf(s, f) + 1 .. Len(s) : s[j].flow # f
  BY <1>4, <1>5 DEF LatestOf
<1>7. ASSUME NEW j \in DOMAIN s, s[j].flow = f PROVE s[j].packets <= s[LatestOf(s, f)].packets
  <2>1. j <= LatestOf(s, f)
    BY <1>1, <1>6, <1>7
  <2>2. s[j].packets \in Nat /\ s[LatestOf(s, f)].packets \in Nat
    BY <1>1, <1>6 DEF FlowCopy
  <2>3. CASE j = LatestOf(s, f)
    BY <2>2, <2>3
  <2>4. CASE j < LatestOf(s, f)
    BY <1>6, <1>7, <2>2, <2>4 DEF Rising
  <2> QED
    BY <1>1, <1>6, <2>1, <2>3, <2>4
<1> QED
  BY <1>6, <1>7

\* Writing copies in their order, all newer than the table, brings each flow to the last of its
\* copies and leaves the others alone.
LEMMA UpsertTakesNewest ==
    ASSUME NEW s \in Seq(FlowCopy), Rising(s), flowRows \in [Flows -> Nat],
           \A c \in Range(s) : flowRows[c.flow] < c.packets
    PROVE  /\ Upserted(s) \in [Flows -> Nat]
           /\ \A f \in Flows : flowRows[f] <= Upserted(s)[f]
           /\ \A c \in Range(s) : c.packets <= Upserted(s)[c.flow]
           /\ \A f \in Flows : \/ Upserted(s)[f] = flowRows[f] /\ \A c \in Range(s) : c.flow # f
                               \/ [flow |-> f, packets |-> Upserted(s)[f]] \in Range(s)
<1>1. \A k \in DOMAIN s : s[k] \in Range(s) /\ s[k] \in FlowCopy
  BY ElementOfSeq, LenProperties DEF Range
<1>2. ASSUME NEW f \in Flows, \E k \in DOMAIN s : s[k].flow = f
      PROVE  /\ [flow |-> f, packets |-> s[LatestOf(s, f)].packets] \in Range(s)
             /\ s[LatestOf(s, f)].packets \in Nat /\ flowRows[f] <= s[LatestOf(s, f)].packets
             /\ \A c \in Range(s) : c.flow = f => c.packets <= s[LatestOf(s, f)].packets
  <2>1. /\ LatestOf(s, f) \in DOMAIN s /\ s[LatestOf(s, f)].flow = f
        /\ \A j \in DOMAIN s : s[j].flow = f => s[j].packets <= s[LatestOf(s, f)].packets
    BY <1>2, LatestIsLargest
  <2>2. s[LatestOf(s, f)] \in Range(s) /\ s[LatestOf(s, f)] \in FlowCopy
    BY <1>1, <2>1
  <2>3. s[LatestOf(s, f)] = [flow |-> f, packets |-> s[LatestOf(s, f)].packets]
    BY <2>1, <2>2 DEF FlowCopy
  <2>4. flowRows[f] < s[LatestOf(s, f)].packets
    BY <2>1, <2>2
  <2>5. s[LatestOf(s, f)].packets \in Nat
    BY <2>2 DEF FlowCopy
  <2> QED
    BY <2>1, <2>2, <2>3, <2>4, <2>5 DEF Range
<1>3. \A f \in Flows : Upserted(s)[f] = IF \E k \in DOMAIN s : s[k].flow = f
                                        THEN s[LatestOf(s, f)].packets ELSE flowRows[f]
  BY DEF Upserted
<1>4. \A f \in Flows : Upserted(s)[f] \in Nat
  BY <1>2, <1>3
<1>5. Upserted(s) \in [Flows -> Nat]
  BY <1>2 DEF Upserted
<1>6. ASSUME NEW c \in Range(s) PROVE c.packets <= Upserted(s)[c.flow]
  <2>1. PICK k \in DOMAIN s : s[k] = c
    BY DEF Range
  <2>2. c.flow \in Flows /\ \E j \in DOMAIN s : s[j].flow = c.flow
    BY <1>1, <2>1 DEF FlowCopy
  <2> QED
    BY <1>2, <1>3, <2>2
<1>7. ASSUME NEW f \in Flows
      PROVE  /\ flowRows[f] <= Upserted(s)[f]
             /\ \/ Upserted(s)[f] = flowRows[f] /\ \A c \in Range(s) : c.flow # f
                \/ [flow |-> f, packets |-> Upserted(s)[f]] \in Range(s)
  <2>1. CASE \E k \in DOMAIN s : s[k].flow = f
    BY <1>2, <1>3, <2>1
  <2>2. CASE ~ \E k \in DOMAIN s : s[k].flow = f
    BY <1>3, <2>2 DEF Range
  <2> QED
    BY <2>1, <2>2
<1> QED
  BY <1>5, <1>6, <1>7

LEMMA FlowsInitInv == FlowsInit => FlowsInv
<1> SUFFICES ASSUME FlowsInit PROVE FlowsInv
  OBVIOUS
<1>1. << >> \in Seq(FlowCopy) /\ Range(<< >>) = {} /\ Rising(<< >>)
  BY EmptySeq DEF Range, Rising
<1>2. \A i \in Ingesters : hand[i] = << >> /\ \A c : hand[i] # <<c>>
  BY DEF FlowsInit
<1>3. queue = << >> /\ writer.rows = << >> /\ taken = {} /\ lost = {}
  BY DEF FlowsInit
<1>4. FlowTypes
  BY <1>1 DEF FlowsInit, FlowTypes
<1>5. HandIsNewest /\ Settled
  BY <1>2, <1>3 DEF HandIsNewest, Settled
<1>6. InOrder
  BY <1>1, <1>3 DEF InOrder, Below, Rows, Queued
<1>7. Sourced /\ BatchAtWork
  BY DEF FlowsInit, Sourced, BatchAtWork
<1> QED
  BY <1>4, <1>5, <1>6, <1>7 DEF FlowsInv

\* A sequence in order stays so when something newer is appended or its head is taken, and
\* its head is older than the rest.
LEMMA RisingAppend ==
    ASSUME NEW s \in Seq(FlowCopy), Rising(s), NEW c \in FlowCopy, Below(Range(s), {c})
    PROVE  Rising(Append(s, c))
<1>1. /\ DOMAIN s = 1 .. Len(s) /\ DOMAIN Append(s, c) = 1 .. (Len(s) + 1) /\ Len(s) \in Nat
      /\ \A i \in 1 .. Len(s) : Append(s, c)[i] = s[i]
      /\ Append(s, c)[Len(s) + 1] = c
  BY AppendProperties, LenProperties
<1> SUFFICES ASSUME NEW j \in 1 .. (Len(s) + 1), NEW k \in 1 .. (Len(s) + 1), j < k,
                    Append(s, c)[j].flow = Append(s, c)[k].flow
             PROVE  Append(s, c)[j].packets < Append(s, c)[k].packets
  BY <1>1 DEF Rising
<1>2. j \in DOMAIN s /\ s[j] \in Range(s)
  BY <1>1 DEF Range
<1>3. CASE k \in DOMAIN s
  BY <1>1, <1>2, <1>3 DEF Rising
<1>4. CASE k = Len(s) + 1
  BY <1>1, <1>2, <1>4 DEF Below
<1> QED
  BY <1>1, <1>3, <1>4

LEMMA RisingTail ==
    ASSUME NEW s \in Seq(FlowCopy), Rising(s), s # << >>
    PROVE  Rising(Tail(s)) /\ Below({Head(s)}, Range(Tail(s)))
<1>1. /\ DOMAIN s = 1 .. Len(s) /\ DOMAIN Tail(s) = 1 .. (Len(s) - 1) /\ Len(s) \in Nat \ {0}
      /\ \A i \in 1 .. (Len(s) - 1) : Tail(s)[i] = s[i + 1]
      /\ Head(s) = s[1]
  BY HeadTailProperties, LenProperties, EmptySeq
<1>2. ASSUME NEW j \in DOMAIN Tail(s), NEW k \in DOMAIN Tail(s), j < k,
             Tail(s)[j].flow = Tail(s)[k].flow
      PROVE  Tail(s)[j].packets < Tail(s)[k].packets
  <2>1. j + 1 \in DOMAIN s /\ k + 1 \in DOMAIN s /\ j + 1 < k + 1
    BY <1>1, <1>2
  <2> QED
    BY <1>1, <1>2, <2>1 DEF Rising
<1>3. ASSUME NEW k \in DOMAIN Tail(s), s[1].flow = Tail(s)[k].flow
      PROVE  s[1].packets < Tail(s)[k].packets
  <2>1. 1 \in DOMAIN s /\ k + 1 \in DOMAIN s /\ 1 < k + 1
    BY <1>1
  <2> QED
    BY <1>1, <1>3, <2>1 DEF Rising
<1> QED
  BY <1>1, <1>2, <1>3 DEF Rising, Below, Range

LEMMA OneCopy == \A c : Range(<<c>>) = {c} /\ Rising(<<c>>)
  BY DEF Range, Rising

\* A step that leaves the copies where they are.
LEMMA CopiesStay ==
    ASSUME FlowsInv, UNCHANGED <<batching, packets, hand, queue, flowRows, taken, lost>>,
           writer'.rows = writer.rows, writer'.retries \in Nat,
           DOMAIN writer' = DOMAIN writer, writer' = [n \in DOMAIN writer |-> writer'[n]],
           \/ writer'.at = writer.at
           \/ writer'.at \in {"check", "wait", "ended"} /\ writer.rows = << >>
           \/ writer'.at \in {"write", "pause"},
           ~batching => writer' = writer
    PROVE  FlowsInv'
<1>1. FlowTypes'
  <2>1. writer' \in [at : {"check", "wait", "gather", "write", "pause", "ended"},
                     rows : Seq(FlowCopy), retries : Nat]
    BY DEF FlowsInv, FlowTypes
  <2> QED
    BY <2>1 DEF FlowsInv, FlowTypes, FlowCopy, Flows
<1>2. HandIsNewest'
  BY DEF FlowsInv, HandIsNewest, Below, FlowCopy, Flows
<1>3. InOrder' /\ Settled' /\ Sourced'
  BY DEF FlowsInv, InOrder, Settled, Sourced, Below, Rising, Rows, Queued, Flows
<1>4. BatchAtWork'
  BY DEF FlowsInv, BatchAtWork
<1> QED
  BY <1>1, <1>2, <1>3, <1>4 DEF FlowsInv

\* A copy leaves the queue for the batch.
LEMMA CopyIsGathered ==
    ASSUME FlowsInv, queue # << >>, queue' = Tail(queue), writer.at \in {"wait", "gather"},
           NEW n \in Nat,
           writer' = [at |-> "gather", rows |-> Append(writer.rows, Head(queue)), retries |-> n],
           UNCHANGED <<batching, packets, hand, flowRows, taken, lost>>
    PROVE  FlowsInv'
<1>1. /\ queue \in Seq(FlowCopy) /\ writer.rows \in Seq(FlowCopy) /\ Head(queue) \in FlowCopy
      /\ Tail(queue) \in Seq(FlowCopy)
  BY HeadTailProperties DEF FlowsInv, FlowTypes
<1>2. Queued = {Head(queue)} \cup Queued' /\ Rows' = Rows \cup {Head(queue)}
  <2>1. Range(queue) = {Head(queue)} \cup Range(Tail(queue))
    BY <1>1, RangeTail
  <2>2. Range(Append(writer.rows, Head(queue))) = Range(writer.rows) \cup {Head(queue)}
    BY <1>1, RangeAppend
  <2>3. Queued' = Range(Tail(queue)) /\ Rows' = Range(Append(writer.rows, Head(queue)))
    BY DEF Queued, Rows
  <2> QED
    BY <2>1, <2>2, <2>3 DEF Queued, Rows
<1>3. Rising(Tail(queue)) /\ Below({Head(queue)}, Queued')
  BY <1>1, RisingTail DEF FlowsInv, InOrder, Queued
<1>4. Below(Rows, {Head(queue)})
  BY <1>2 DEF FlowsInv, InOrder, Below
<1>5. Rising(Append(writer.rows, Head(queue)))
  BY <1>1, <1>4, RisingAppend DEF FlowsInv, InOrder, Rows
<1>6. FlowTypes'
  <2>1. Append(writer.rows, Head(queue)) \in Seq(FlowCopy)
    BY <1>1, AppendProperties
  <2>2. writer' \in [at : {"check", "wait", "gather", "write", "pause", "ended"},
                     rows : Seq(FlowCopy), retries : Nat]
    BY <2>1
  <2> QED
    BY <1>1, <2>2 DEF FlowsInv, FlowTypes, FlowCopy, Flows
<1>7. HandIsNewest' /\ Sourced'
  BY DEF FlowsInv, HandIsNewest, Sourced, Below, FlowCopy, Flows
<1>8. Rising(writer.rows)' /\ Rising(queue)'
  <2>1. writer.rows' = Append(writer.rows, Head(queue))
    OBVIOUS
  <2> QED
    BY <1>3, <1>5, <2>1 DEF Rising
<1>9. Below(Rows, Queued)' /\ Below(lost, Rows \cup Queued)'
  BY <1>2, <1>3 DEF FlowsInv, InOrder, Below
<1>10. InOrder'
  BY <1>2, <1>8, <1>9 DEF FlowsInv, InOrder
<1>11. Settled'
  BY <1>2 DEF FlowsInv, Settled
<1>12. BatchAtWork'
  BY DEF FlowsInv, BatchAtWork
<1> QED
  BY <1>6, <1>7, <1>10, <1>11, <1>12 DEF FlowsInv

\* The batch is given up, or written.
LEMMA BatchIsGivenUp ==
    ASSUME FlowsInv, writer.at \in {"write", "pause"}, GiveUp,
           UNCHANGED <<batching, packets, hand, queue, flowRows, taken>>
    PROVE  FlowsInv'
<1>1. /\ writer' = [at |-> "check", rows |-> << >>, retries |-> 0]
      /\ lost' = lost \cup Rows
  BY DEF GiveUp, Done, Rows
<1>2. << >> \in Seq(FlowCopy) /\ Range(<< >>) = {} /\ Rising(<< >>)
  BY EmptySeq DEF Range, Rising
<1>3. Rows' = {} /\ Queued' = Queued
  BY <1>1, <1>2 DEF Rows, Queued
<1>4. lost' \subseteq taken'
  BY <1>1 DEF FlowsInv, FlowTypes, InOrder
<1>5. FlowTypes'
  BY <1>1, <1>2, <1>4 DEF FlowsInv, FlowTypes, FlowCopy, Flows
<1>6. HandIsNewest'
  BY DEF FlowsInv, HandIsNewest, Below, FlowCopy, Flows
<1>7. Below(lost', Queued)
  BY <1>1 DEF FlowsInv, InOrder, Below
<1>8. InOrder'
  <2>1. Rising(writer.rows)' /\ Rising(queue)'
    BY <1>1, <1>2 DEF FlowsInv, InOrder, Rising
  <2>2. Below(Rows, Queued)' /\ Below(lost, Rows \cup Queued)'
    BY <1>3, <1>7 DEF Below
  <2> QED
    BY <1>3, <2>1, <2>2 DEF FlowsInv, InOrder
<1>9. Settled'
  BY <1>1, <1>3 DEF FlowsInv, Settled
<1>10. ASSUME NEW f \in Flows, flowRows[f] # 0
       PROVE  [flow |-> f, packets |-> flowRows[f]] \in taken \ lost'
  <2> DEFINE c == [flow |-> f, packets |-> flowRows[f]]
  <2>1. c \in taken \ lost
    BY <1>10 DEF FlowsInv, Sourced
  <2>2. flowRows[f] \in Nat /\ c.flow = f /\ c.packets = flowRows[f]
    BY DEF FlowsInv, FlowTypes
  <2>3. c \notin Rows
    <3>1. SUFFICES ASSUME c \in Rows PROVE FALSE
      OBVIOUS
    <3>2. flowRows[c.flow] < c.packets
      BY <3>1 DEF FlowsInv, InOrder
    <3> QED
      BY <2>2, <3>2
  <2> QED
    BY <1>1, <2>1, <2>3
<1>11. Sourced'
  BY <1>10 DEF Sourced, Flows
<1>12. BatchAtWork'
  BY <1>1 DEF FlowsInv, BatchAtWork
<1> QED
  BY <1>5, <1>6, <1>8, <1>9, <1>11, <1>12 DEF FlowsInv

LEMMA BatchIsWritten == ASSUME FlowsInv, WriteBatch PROVE FlowsInv'
<1>1. /\ writer' = [at |-> "check", rows |-> << >>, retries |-> 0]
      /\ flowRows' = Upserted(writer.rows) /\ batching
      /\ UNCHANGED <<batching, packets, hand, queue, taken, lost>>
  BY DEF FlowsInv, BatchAtWork, WriteBatch, Done
<1>2. << >> \in Seq(FlowCopy) /\ Range(<< >>) = {} /\ Rising(<< >>)
  BY EmptySeq DEF Range, Rising
<1>3. Rows' = {} /\ Queued' = Queued
  BY <1>1, <1>2 DEF Rows, Queued
<1>4. /\ flowRows' \in [Flows -> Nat] /\ flowRows \in [Flows -> Nat]
      /\ \A f \in Flows : flowRows[f] <= flowRows'[f]
      /\ \A c \in Rows : c.packets <= flowRows'[c.flow]
      /\ \A f \in Flows : \/ flowRows'[f] = flowRows[f]
                          \/ [flow |-> f, packets |-> flowRows'[f]] \in Rows
  <2>1. writer.rows \in Seq(FlowCopy) /\ flowRows \in [Flows -> Nat]
    BY DEF FlowsInv, FlowTypes
  <2>2. Rising(writer.rows) /\ \A c \in Rows : flowRows[c.flow] < c.packets
    BY DEF FlowsInv, InOrder
  <2> QED
    BY <1>1, <2>1, <2>2, UpsertTakesNewest DEF Rows
<1>5. \A c \in taken : c \in FlowCopy /\ c.flow \in Flows /\ c.packets \in Nat
  BY DEF FlowsInv, FlowTypes, FlowCopy
<1>6. FlowTypes'
  BY <1>1, <1>2, <1>4 DEF FlowsInv, FlowTypes, FlowCopy, Flows
<1>7. HandIsNewest'
  BY <1>1 DEF FlowsInv, HandIsNewest, Below, FlowCopy, Flows
<1>8. ASSUME NEW c \in Queued PROVE c \in taken /\ flowRows'[c.flow] < c.packets
  <2>1. c \in taken /\ flowRows[c.flow] < c.packets
    BY DEF FlowsInv, InOrder
  <2>2. c.flow \in Flows /\ c.packets \in Nat
    BY <1>5, <2>1
  <2>3. CASE flowRows'[c.flow] = flowRows[c.flow]
    BY <2>1, <2>3
  <2>4. CASE [flow |-> c.flow, packets |-> flowRows'[c.flow]] \in Rows
    BY <2>1, <2>4 DEF FlowsInv, InOrder, Below
  <2> QED
    BY <1>4, <2>2, <2>3, <2>4
<1>9. InOrder'
  <2>1. Rising(writer.rows)' /\ Rising(queue)'
    BY <1>1, <1>2 DEF FlowsInv, InOrder, Rising
  <2>2. Below(Rows, Queued)' /\ Below(lost, Rows \cup Queued)'
    BY <1>1, <1>3 DEF FlowsInv, InOrder, Below
  <2> QED
    BY <1>1, <1>3, <1>8, <2>1, <2>2 DEF InOrder
<1>10. ASSUME NEW c \in taken PROVE c \in lost \cup Queued \/ c.packets <= flowRows'[c.flow]
  <2>1. c.flow \in Flows /\ c.packets \in Nat
    BY <1>5
  <2>2. c \in lost \cup Rows \cup Queued \/ c.packets <= flowRows[c.flow]
    BY DEF FlowsInv, Settled
  <2>3. flowRows[c.flow] <= flowRows'[c.flow] /\ flowRows[c.flow] \in Nat /\ flowRows'[c.flow] \in Nat
    BY <1>4, <2>1
  <2> QED
    BY <1>4, <2>1, <2>2, <2>3
<1>11. Settled'
  BY <1>1, <1>3, <1>10 DEF Settled
<1>12. ASSUME NEW f \in Flows, flowRows'[f] # 0
       PROVE  [flow |-> f, packets |-> flowRows'[f]] \in taken \ lost
  <2>1. CASE flowRows'[f] = flowRows[f]
    BY <1>12, <2>1 DEF FlowsInv, Sourced
  <2>2. CASE [flow |-> f, packets |-> flowRows'[f]] \in Rows
    <3> DEFINE c == [flow |-> f, packets |-> flowRows'[f]]
    <3>1. c \in taken /\ c.packets \in Nat
      BY <1>5, <2>2 DEF FlowsInv, InOrder
    <3>2. c \notin lost
      <4>1. SUFFICES ASSUME c \in lost PROVE FALSE
        OBVIOUS
      <4>2. c.packets < c.packets
        BY <2>2, <4>1 DEF FlowsInv, InOrder, Below
      <4> QED
        BY <3>1, <4>2
    <3> QED
      BY <3>1, <3>2
  <2> QED
    BY <1>4, <2>1, <2>2
<1>13. Sourced'
  BY <1>1, <1>12 DEF Sourced, Flows
<1>14. BatchAtWork'
  BY <1>1 DEF FlowsInv, BatchAtWork
<1> QED
  BY <1>6, <1>7, <1>9, <1>11, <1>13, <1>14 DEF FlowsInv

\* A copy in a hand is newer than all that were taken, and than the table.
LEMMA InHand ==
    ASSUME FlowsInv, NEW i \in Ingesters, hand[i] # << >>
    PROVE  /\ hand[i][1] \in FlowCopy /\ hand[i] = <<hand[i][1]>>
           /\ OwnerOf[hand[i][1].flow] = i
           /\ hand[i][1].packets = packets[hand[i][1].flow]
           /\ Below(taken, {hand[i][1]})
           /\ flowRows[hand[i][1].flow] < hand[i][1].packets
<1>1. PICK c \in FlowCopy : hand[i] = <<c>>
  BY DEF FlowsInv, FlowTypes
<1>2. hand[i][1] = c
  BY <1>1
<1>3. OwnerOf[c.flow] = i /\ c.packets = packets[c.flow] /\ Below(taken, {c})
  BY <1>1 DEF FlowsInv, HandIsNewest
<1>4. c.flow \in Flows /\ c.packets \in Nat \ {0}
  BY DEF FlowCopy
<1>5. flowRows[c.flow] < c.packets
  <2>1. CASE flowRows[c.flow] = 0
    BY <1>4, <2>1
  <2>2. CASE [flow |-> c.flow, packets |-> flowRows[c.flow]] \in taken
    BY <1>3, <2>2 DEF Below
  <2> QED
    BY <1>4, <2>1, <2>2 DEF FlowsInv, Sourced
<1> QED
  BY <1>1, <1>2, <1>3, <1>5

LEMMA CopyIsMade == ASSUME FlowsInv, NEW i \in Ingesters, NEW f \in Flows, Ingest(i, f) PROVE FlowsInv'
<1> DEFINE c == [flow |-> f, packets |-> packets[f] + 1]
<1>1. /\ UNCHANGED <<batching, queue, writer, flowRows, taken, lost>>
      /\ packets' = [packets EXCEPT ![f] = @ + 1] /\ hand' = [hand EXCEPT ![i] = <<c>>]
      /\ OwnerOf[f] = i /\ hand[i] = << >>
  BY DEF Ingest
<1>2. packets \in [Flows -> Nat] /\ packets[f] \in Nat /\ c \in FlowCopy
  BY DEF FlowsInv, FlowTypes, FlowCopy
<1>3. FlowTypes'
  <2>1. packets' \in [Flows -> Nat]
    BY <1>1, <1>2
  <2>2. hand' \in [Ingesters -> {<< >>} \cup {<<d>> : d \in FlowCopy}]
    BY <1>1, <1>2 DEF FlowsInv, FlowTypes
  <2> QED
    BY <1>1, <2>1, <2>2 DEF FlowsInv, FlowTypes, FlowCopy, Flows
<1>4. ASSUME NEW d \in taken PROVE d.flow \in Flows /\ d.packets \in Nat /\ d.packets <= packets[d.flow]
  BY DEF FlowsInv, FlowTypes, HandIsNewest, FlowCopy
<1>5. \A d \in taken : d.packets <= packets'[d.flow]
  BY <1>1, <1>2, <1>4
<1>6. ASSUME NEW j \in Ingesters, NEW d \in FlowCopy, hand'[j] = <<d>>
      PROVE  OwnerOf[d.flow] = j /\ d.packets = packets'[d.flow] /\ Below(taken, {d})
  <2>1. CASE j = i
    <3>1. d = c
      BY <1>1, <1>6, <2>1 DEF FlowsInv, FlowTypes
    <3>2. OwnerOf[d.flow] = j /\ d.packets = packets'[d.flow]
      BY <1>1, <1>2, <2>1, <3>1
    <3>3. Below(taken, {c})
      BY <1>2, <1>4 DEF Below
    <3> QED
      BY <3>1, <3>2, <3>3
  <2>2. CASE j # i
    <3>1. hand[j] = <<d>>
      BY <1>1, <1>6, <2>2 DEF FlowsInv, FlowTypes
    <3>2. OwnerOf[d.flow] = j /\ d.packets = packets[d.flow] /\ Below(taken, {d})
      BY <3>1 DEF FlowsInv, HandIsNewest
    <3>3. d.flow # f
      BY <1>1, <2>2, <3>2
    <3> QED
      BY <1>1, <1>2, <3>2, <3>3
  <2> QED
    BY <2>1, <2>2
<1>7. HandIsNewest'
  BY <1>1, <1>5, <1>6 DEF HandIsNewest, Below, FlowCopy, Flows
<1>8. InOrder' /\ Settled' /\ Sourced' /\ BatchAtWork'
  BY <1>1 DEF FlowsInv, InOrder, Settled, Sourced, BatchAtWork, Below, Rising, Rows, Queued, Flows
<1> QED
  BY <1>3, <1>7, <1>8 DEF FlowsInv

\* The hand of a thread is emptied, and the copy taken or not.
LEMMA HandsOver ==
    ASSUME FlowsInv, NEW i \in Ingesters, hand[i] # << >>, hand' = [hand EXCEPT ![i] = << >>],
           UNCHANGED packets, taken' \in {taken, taken \cup {hand[i][1]}}
    PROVE  /\ hand' \in [Ingesters -> {<< >>} \cup {<<d>> : d \in FlowCopy}]
           /\ HandIsNewest'
<1> DEFINE c == hand[i][1]
<1>1. /\ c \in FlowCopy /\ OwnerOf[c.flow] = i /\ c.packets = packets[c.flow] /\ Below(taken, {c})
      /\ c.flow \in Flows /\ packets[c.flow] \in Nat
  BY InHand DEF FlowsInv, FlowTypes, FlowCopy
<1>2. hand' \in [Ingesters -> {<< >>} \cup {<<d>> : d \in FlowCopy}]
  BY DEF FlowsInv, FlowTypes
<1>3. \A d \in taken' : d.packets <= packets[d.flow]
  BY <1>1 DEF FlowsInv, HandIsNewest
<1>4. ASSUME NEW j \in Ingesters, NEW d \in FlowCopy, hand'[j] = <<d>>
      PROVE  OwnerOf[d.flow] = j /\ d.packets = packets[d.flow] /\ Below(taken', {d})
  <2>1. j # i
    BY <1>4 DEF FlowsInv, FlowTypes
  <2>2. hand[j] = <<d>>
    BY <1>4, <2>1 DEF FlowsInv, FlowTypes
  <2>3. OwnerOf[d.flow] = j /\ d.packets = packets[d.flow] /\ Below(taken, {d})
    BY <2>2 DEF FlowsInv, HandIsNewest
  <2> QED
    BY <1>1, <2>1, <2>3 DEF Below
<1>5. HandIsNewest'
  BY <1>3, <1>4 DEF HandIsNewest, Below, FlowCopy, Flows
<1> QED
  BY <1>2, <1>5

LEMMA CopyIsQueued == ASSUME FlowsInv, NEW i \in Ingesters, Enqueue(i) PROVE FlowsInv'
<1> DEFINE c == hand[i][1]
<1>1. /\ UNCHANGED <<batching, packets, writer, flowRows, lost>> /\ batching
      /\ hand[i] # << >> /\ hand' = [hand EXCEPT ![i] = << >>]
      /\ \/ queue' = queue \o hand[i] /\ taken' = taken \cup {c}
         \/ UNCHANGED <<queue, taken>>
  BY DEF Enqueue, Given
<1>2. /\ c \in FlowCopy /\ hand[i] = <<c>> /\ Below(taken, {c}) /\ flowRows[c.flow] < c.packets
  BY <1>1, InHand
<1>3. /\ hand' \in [Ingesters -> {<< >>} \cup {<<d>> : d \in FlowCopy}]
      /\ HandIsNewest'
  BY <1>1, HandsOver
<1>4. queue \in Seq(FlowCopy) /\ queue \o <<c>> = Append(queue, c)
  BY <1>2, AppendIsConcat DEF FlowsInv, FlowTypes
<1>5. CASE UNCHANGED <<queue, taken>>
  <2>1. FlowTypes'
    BY <1>1, <1>3, <1>5 DEF FlowsInv, FlowTypes, FlowCopy, Flows
  <2>2. InOrder' /\ Settled' /\ Sourced' /\ BatchAtWork'
    BY <1>1, <1>5
    DEF FlowsInv, InOrder, Settled, Sourced, BatchAtWork, Below, Rising, Rows, Queued, Flows
  <2> QED
    BY <1>3, <2>1, <2>2 DEF FlowsInv
<1>6. CASE queue' = Append(queue, c) /\ taken' = taken \cup {c}
  <2>1. Append(queue, c) \in Seq(FlowCopy) /\ Range(Append(queue, c)) = Range(queue) \cup {c}
    BY <1>2, <1>4, AppendProperties, RangeAppend
  <2>2. Queued' = Queued \cup {c} /\ Rows' = Rows
    BY <1>1, <1>6, <2>1 DEF Queued, Rows
  <2>3. Below(Rows, {c}) /\ Below(Queued, {c}) /\ Below(lost, {c})
    BY <1>2 DEF FlowsInv, FlowTypes, InOrder, Below
  <2>4. Rising(Append(queue, c))
    BY <1>2, <1>4, <2>3, RisingAppend DEF FlowsInv, InOrder, Queued
  <2>5. FlowTypes'
    BY <1>1, <1>2, <1>3, <1>6, <2>1 DEF FlowsInv, FlowTypes, FlowCopy, Flows
  <2>6. InOrder'
    <3>1. Rising(writer.rows)' /\ Rising(queue)'
      BY <1>1, <1>6, <2>4 DEF FlowsInv, InOrder, Rising
    <3>2. Below(Rows, Queued)' /\ Below(lost, Rows \cup Queued)'
      BY <1>1, <2>2, <2>3 DEF FlowsInv, InOrder, Below
    <3>3. \A d \in Rows' \cup Queued' : d \in taken' /\ flowRows'[d.flow] < d.packets
      BY <1>1, <1>2, <1>6, <2>2 DEF FlowsInv, InOrder
    <3> QED
      BY <3>1, <3>2, <3>3 DEF InOrder
  <2>7. Settled' /\ BatchAtWork'
    BY <1>1, <1>6, <2>2 DEF FlowsInv, Settled, BatchAtWork
  <2>8. Sourced'
    BY <1>1, <1>6 DEF FlowsInv, Sourced, Flows
  <2> QED
    BY <1>3, <2>5, <2>6, <2>7, <2>8 DEF FlowsInv
<1> QED
  BY <1>1, <1>2, <1>4, <1>5, <1>6

LEMMA CopyIsWritten == ASSUME FlowsInv, NEW i \in Ingesters, WriteDirectly(i) PROVE FlowsInv'
<1> DEFINE c == hand[i][1]
<1>1. /\ UNCHANGED <<batching, packets, queue, writer, lost>>
      /\ hand[i] # << >> /\ hand' = [hand EXCEPT ![i] = << >>]
      /\ \/ flowRows' = Upserted(hand[i]) /\ taken' = taken \cup {c}
         \/ UNCHANGED <<flowRows, taken>>
  BY DEF WriteDirectly, Given
<1>2. queue = << >> /\ writer.rows = << >>
  BY DEF WriteDirectly, FlowsInv, BatchAtWork
<1>3. /\ c \in FlowCopy /\ hand[i] = <<c>> /\ Below(taken, {c}) /\ flowRows[c.flow] < c.packets
  BY <1>1, InHand
<1>4. /\ hand' \in [Ingesters -> {<< >>} \cup {<<d>> : d \in FlowCopy}]
      /\ HandIsNewest'
  BY <1>1, HandsOver
<1>5. Range(<< >>) = {} /\ Rising(<< >>)
  BY DEF Range, Rising
<1>6. CASE UNCHANGED <<flowRows, taken>>
  <2>1. FlowTypes'
    BY <1>1, <1>4, <1>6 DEF FlowsInv, FlowTypes, FlowCopy, Flows
  <2>2. InOrder' /\ Settled' /\ Sourced' /\ BatchAtWork'
    BY <1>1, <1>6
    DEF FlowsInv, InOrder, Settled, Sourced, BatchAtWork, Below, Rising, Rows, Queued, Flows
  <2> QED
    BY <1>4, <2>1, <2>2 DEF FlowsInv
<1>7. CASE flowRows' = Upserted(<<c>>) /\ taken' = taken \cup {c}
  <2>1. /\ flowRows' \in [Flows -> Nat] /\ flowRows \in [Flows -> Nat]
        /\ \A f \in Flows : flowRows[f] <= flowRows'[f]
        /\ c.packets <= flowRows'[c.flow]
        /\ \A f \in Flows : \/ flowRows'[f] = flowRows[f]
                            \/ [flow |-> f, packets |-> flowRows'[f]] = c
    <3>1. <<c>> \in Seq(FlowCopy) /\ flowRows \in [Flows -> Nat]
      BY <1>3 DEF FlowsInv, FlowTypes
    <3>2. Range(<<c>>) = {c} /\ Rising(<<c>>)
      BY OneCopy
    <3> QED
      BY <1>3, <1>7, <3>1, <3>2, UpsertTakesNewest
  <2>2. Rows' = {} /\ Queued' = {} /\ Rows = {} /\ Queued = {}
    BY <1>1, <1>2, <1>5 DEF Rows, Queued
  <2>3. FlowTypes'
    BY <1>1, <1>3, <1>4, <1>7, <2>1 DEF FlowsInv, FlowTypes, FlowCopy, Flows
  <2>4. InOrder' /\ BatchAtWork'
    BY <1>1, <1>2, <1>5, <2>2 DEF FlowsInv, InOrder, Below, Rising, BatchAtWork
  <2>5. \A d \in taken : d.flow \in Flows /\ d.packets \in Nat
    BY DEF FlowsInv, FlowTypes, FlowCopy
  <2>6. ASSUME NEW d \in taken PROVE d \in lost \/ d.packets <= flowRows'[d.flow]
    <3>1. d \in lost \/ d.packets <= flowRows[d.flow]
      BY <2>2 DEF FlowsInv, Settled
    <3>2. flowRows[d.flow] <= flowRows'[d.flow] /\ flowRows[d.flow] \in Nat /\ flowRows'[d.flow] \in Nat
      BY <2>1, <2>5
    <3> QED
      BY <2>5, <3>1, <3>2
  <2>7. Settled'
    BY <1>1, <1>7, <2>1, <2>2, <2>6 DEF Settled
  <2>8. c \notin lost
    <3>1. SUFFICES ASSUME c \in lost PROVE FALSE
      OBVIOUS
    <3>2. c.packets < c.packets /\ c.packets \in Nat
      BY <1>3, <3>1 DEF FlowsInv, FlowTypes, Below, FlowCopy
    <3> QED
      BY <3>2
  <2>9. Sourced'
    BY <1>1, <1>7, <2>1, <2>8 DEF FlowsInv, Sourced, Flows
  <2> QED
    BY <1>4, <2>3, <2>4, <2>7, <2>9 DEF FlowsInv
<1> QED
  BY <1>1, <1>3, <1>6, <1>7

LEMMA FlowsStepInv == FlowsInv /\ [FlowsNext]_flowVars => FlowsInv'
<1> SUFFICES ASSUME FlowsInv, [FlowsNext]_flowVars PROVE FlowsInv'
  OBVIOUS
<1>1. /\ writer.at \in {"check", "wait", "gather", "write", "pause", "ended"}
      /\ writer.retries \in Nat /\ DOMAIN writer = {"at", "rows", "retries"}
      /\ writer = [n \in DOMAIN writer |-> writer[n]]
      /\ writer.at \in {"check", "wait", "ended"} => writer.rows = << >>
      /\ writer.at # "check" => batching
  BY DEF FlowsInv, FlowTypes, BatchAtWork
<1>2. ASSUME NEW i \in Ingesters, Enqueue(i) PROVE FlowsInv'
  BY <1>2, CopyIsQueued
<1>3. ASSUME NEW i \in Ingesters, WriteDirectly(i) PROVE FlowsInv'
  BY <1>3, CopyIsWritten
<1>4. ASSUME NEW i \in Ingesters, NEW f \in Flows, Ingest(i, f) PROVE FlowsInv'
  BY <1>4, CopyIsMade
<1>5. CASE Check
  <2>1. writer' = [writer EXCEPT !.at = IF GoOn THEN "wait" ELSE "ended"]
    BY <1>5 DEF Check, WriterGoes
  <2>2. /\ writer'.rows = writer.rows /\ writer'.retries = writer.retries
        /\ DOMAIN writer' = DOMAIN writer /\ writer' = [n \in DOMAIN writer |-> writer'[n]]
        /\ writer'.at \in {"check", "wait", "ended"} /\ writer.rows = << >> /\ batching
    BY <1>1, <1>5, <2>1 DEF Check
  <2> QED
    BY <1>1, <1>5, <2>2, CopiesStay DEF Check
<1>6. CASE Wait
  <2>1. CASE queue = << >>
    <3>1. writer' = [writer EXCEPT !.at = "check"] /\ UNCHANGED queue
      BY <1>6, <2>1 DEF Wait, WriterGoes
    <3>2. /\ writer'.rows = writer.rows /\ writer'.retries = writer.retries
          /\ DOMAIN writer' = DOMAIN writer /\ writer' = [n \in DOMAIN writer |-> writer'[n]]
          /\ writer'.at \in {"check", "wait", "ended"} /\ writer.rows = << >> /\ batching
      BY <1>1, <1>6, <3>1 DEF Wait
    <3> QED
      BY <1>1, <1>6, <3>1, <3>2, CopiesStay DEF Wait
  <2>2. CASE queue # << >>
    <3>1. writer.rows = << >> /\ Append(<< >>, Head(queue)) = <<Head(queue)>>
      BY <1>1, <1>6 DEF Wait
    <3>2. writer' = [at |-> "gather", rows |-> Append(writer.rows, Head(queue)), retries |-> 0]
      BY <1>6, <2>2, <3>1 DEF Wait
    <3> QED
      BY <1>6, <2>2, <3>2, CopyIsGathered DEF Wait
  <2> QED
    BY <2>1, <2>2
<1>7. CASE Gather
  <2>1. CASE /\ writer' = [writer EXCEPT !.rows = Append(@, Head(queue))]
             /\ queue # << >> /\ queue' = Tail(queue)
    <3>1. writer' = [at |-> "gather", rows |-> Append(writer.rows, Head(queue)),
                     retries |-> writer.retries]
      BY <1>1, <1>7, <2>1 DEF Gather, FlowsInv, FlowTypes
    <3> QED
      BY <1>1, <1>7, <2>1, <3>1, CopyIsGathered DEF Gather
  <2>2. CASE writer' = [writer EXCEPT !.at = "write"] /\ UNCHANGED queue
    <3>1. /\ writer'.rows = writer.rows /\ writer'.retries = writer.retries
          /\ DOMAIN writer' = DOMAIN writer /\ writer' = [n \in DOMAIN writer |-> writer'[n]]
          /\ writer'.at = "write" /\ batching
      BY <1>1, <1>7, <2>2 DEF Gather
    <3> QED
      BY <1>1, <1>7, <2>2, <3>1, CopiesStay DEF Gather
  <2> QED
    BY <1>7, <2>1, <2>2 DEF Gather, WriterGoes
<1>8. CASE WriteBatch
  BY <1>8, BatchIsWritten
<1>9. CASE BatchFails
  <2>1. CASE GiveUp
    BY <1>9, <2>1, BatchIsGivenUp DEF BatchFails
  <2>2. CASE writer' = [writer EXCEPT !.at = "pause", !.retries = @ + 1] /\ UNCHANGED lost
    <3>1. /\ writer'.rows = writer.rows /\ writer'.retries = writer.retries + 1
          /\ DOMAIN writer' = DOMAIN writer /\ writer' = [n \in DOMAIN writer |-> writer'[n]]
          /\ writer'.at = "pause" /\ batching
      BY <1>1, <1>9, <2>2 DEF BatchFails
    <3> QED
      BY <1>1, <1>9, <2>2, <3>1, CopiesStay DEF BatchFails
  <2> QED
    BY <1>9, <2>1, <2>2 DEF BatchFails
<1>10. CASE Pause
  <2>1. CASE GiveUp
    BY <1>10, <2>1, BatchIsGivenUp DEF Pause
  <2>2. CASE writer' = [writer EXCEPT !.at = "write"] /\ UNCHANGED lost
    <3>1. /\ writer'.rows = writer.rows /\ writer'.retries = writer.retries
          /\ DOMAIN writer' = DOMAIN writer /\ writer' = [n \in DOMAIN writer |-> writer'[n]]
          /\ writer'.at = "write" /\ batching
      BY <1>1, <1>10, <2>2 DEF Pause
    <3> QED
      BY <1>1, <1>10, <2>2, <3>1, CopiesStay DEF Pause
  <2> QED
    BY <1>10, <2>1, <2>2 DEF Pause, WriterGoes
<1>11. CASE Close \/ UNCHANGED flowVars
  <2>1. UNCHANGED <<batching, packets, hand, queue, writer, flowRows, taken, lost>>
    BY <1>11 DEF Close, flowVars
  <2> QED
    BY <1>1, <2>1, CopiesStay
<1> QED
  BY <1>2, <1>3, <1>4, <1>5, <1>6, <1>7, <1>8, <1>9, <1>10, <1>11 DEF FlowsNext, WriterStep

\* What is asked of a flow whose copies have left the queue and the batch follows: the row is
\* among the copies taken and not given up, and none of those is newer.
LEMMA SettledIsNewest == FlowsInv => NewestIsStored
<1> SUFFICES ASSUME FlowsInv, NEW f \in Flows,
                    \A k \in DOMAIN queue : queue[k].flow # f,
                    \A k \in DOMAIN writer.rows : writer.rows[k].flow # f
             PROVE  flowRows[f] = Newest(f, taken \ lost)
  BY DEF NewestIsStored
<1> DEFINE counts == {c.packets : c \in {d \in taken \ lost : d.flow = f}} \cup {0}
<1>1. \A c \in Rows \cup Queued : c.flow # f
  BY DEF Rows, Queued, Range
<1>2. \A n \in counts : n \in Nat /\ n <= flowRows[f]
  <2>1. flowRows[f] \in Nat /\ \A c \in taken : c.packets \in Nat
    BY DEF FlowsInv, FlowTypes, FlowCopy
  <2>2. \A c \in taken \ lost : c.flow = f => c.packets <= flowRows[f]
    BY <1>1 DEF FlowsInv, Settled
  <2> QED
    BY <2>1, <2>2
<1>3. flowRows[f] \in counts
  <2>1. CASE flowRows[f] = 0
    BY <2>1
  <2>2. CASE [flow |-> f, packets |-> flowRows[f]] \in taken \ lost
    BY <2>2
  <2> QED
    BY <2>1, <2>2 DEF FlowsInv, Sourced
<1>4. ASSUME NEW n \in counts, \A m \in counts : m <= n PROVE n = flowRows[f]
  BY <1>2, <1>3, <1>4
<1> QED
  BY <1>2, <1>3, <1>4 DEF Newest

\* The row of a flow is the newest copy that was taken and not given up, once none of the flow
\* waits, for any number of threads, flows and packets, any sizes of queue and batch, and
\* whatever _FlowSnapshotBatchWriter gathers, retries, gives up or is closed over.
THEOREM FlowsAreNewest == FlowsSpec => []NewestIsStored
<1> QED BY FlowsInitInv, FlowsStepInv, SettledIsNewest, PTL DEF FlowsSpec
=============================================================================
