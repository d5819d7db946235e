--------------------------- MODULE AgentRegistry ---------------------------
(***************************************************************************)
(* Agent mode: the runner on each monitored host (agent_runner.py), the    *)
(* agent routes of the backend (main.py) and the registry behind them      *)
(* (agent_registry.py), which keeps the agents in memory and writes them   *)
(* to SQLite, or appends them to a JSONL file.                             *)
(*                                                                         *)
(* A request goes through its handler one step at a time: the token check  *)
(* without a lock, the choice of the registry, its lock, the memory, the   *)
(* agent's row, the snapshot rows, the answer.  Any write may fail, a      *)
(* client may stop waiting, the backend may crash and restart, and seeding *)
(* demo data replaces the registry under the handlers' feet.               *)
(***************************************************************************)
EXTENDS Integers, Sequences, FiniteSets

CONSTANTS
    Agents,       \* agents with a runner
    DemoAgents,   \* agents that seed_demo_data creates
    AwayAgents,   \* those of them whose profile is offline
    Threads,      \* request threads of the backend
    Payloads,     \* what a telemetry report may say
    Stores,       \* which of "sqlite" and "jsonl" the registry is built over
    OfflineAfter, \* NETBOT_AGENT_OFFLINE_AFTER_SECONDS, in ticks
    Retention,    \* NETBOT_AGENT_HISTORY_RETENTION_DAYS, in ticks
    BackoffCap,   \* the longest pause of a runner
    MaxTime,      \* bound on ticks
    MaxFaults,    \* bound on failed writes, timeouts, refusals and crashes
    MaxSeeds,     \* bound on calls of the demo seed route
    None

ASSUME AgentAssumption ==
    /\ Agents \cap DemoAgents = {} /\ AwayAgents \subseteq DemoAgents
    /\ None \notin Agents \cup DemoAgents \cup Threads
    /\ Stores \subseteq {"sqlite", "jsonl"}
    /\ Payloads # {}
    /\ Payloads \subseteq [critical : Nat, high : Nat, medium : Nat, low : Nat,
                           cpu : Nat, memory : Nat, disk : Nat,
                           captureError : BOOLEAN, traffic : Nat]
    /\ OfflineAfter \in Nat /\ Retention \in Nat /\ MaxTime \in Nat
    /\ MaxFaults \in Nat /\ MaxSeeds \in Nat /\ BackoffCap \in Nat \ {0, 1}

VARIABLES
    store,    \* the kind of storage, fixed
    row,      \* agents table, or the last line of each agent in the file
    tables,   \* for each snapshot table, the telemetry it holds
    torn,     \* the file holds half a line
    memory,   \* for each registry object, its _agents
    current,  \* which registry object the global agent_registry is
    holder,   \* for each registry object, the thread that holds _lock
    request,  \* what each request thread is doing
    runner,   \* the loop of each agent
    due,      \* which of its timers have expired
    sent,     \* how many telemetry reports each agent has made
    seed,     \* where the seed route is, and the demo agents left to write
    now, faults, seeds,
    acked,    \* telemetry whose runner has had the answer
    lagging   \* agents whose row and whose current record may differ

stored  == <<row, tables, torn>>
objects == <<memory, current, holder>>
client  == <<runner, due, sent>>
vars == <<store, stored, objects, request, client, seed, now, faults, seeds, acked, lagging>>

Everyone == Agents \cup DemoAgents
Tables   == {"telemetry", "health", "alerts", "flows", "risk"}
Objects  == 0..MaxSeeds
Blank    == [a \in Everyone |-> None]

-----------------------------------------------------------------------------
(* What a report is worth. *)

Pressure(percent) == IF percent >= 95 THEN 15
                     ELSE IF percent >= 85 THEN 10
                     ELSE IF percent >= 75 THEN 5 ELSE 0

RiskScore(status, p) ==
    LET raw == 35 * p.critical + 20 * p.high + 10 * p.medium + 4 * p.low
               + Pressure(p.cpu) + Pressure(p.memory) + Pressure(p.disk)
               + (IF p.captureError THEN 15 ELSE 0)
               + (IF status = "offline" THEN 20 ELSE 0)
               + (IF p.traffic >= 10000 THEN 10 ELSE 0)
    IN  IF raw > 100 THEN 100 ELSE raw

Severity(score) == IF score >= 80 THEN "critical"
                   ELSE IF score >= 60 THEN "high"
                   ELSE IF score >= 30 THEN "medium" ELSE "low"

Status(record) == IF now - record.seen > OfflineAfter THEN "offline" ELSE "online"

-----------------------------------------------------------------------------
(* Records: when the agent was last heard of, its last report and risk.    *)
(* The node's type, name, profile and version are left out: memory and the *)
(* file hold them, the agents table has no column for them.                *)

\* Mutant: the record is built without **existing.
RegisteredAnew(old) == [seen |-> now, told |-> 0, risk |-> 0]

Registered(old) ==
    [seen |-> now, told |-> IF old = None THEN 0 ELSE old.told,
                   risk |-> IF old = None THEN 0 ELSE old.risk]

Seen(old) == [old EXCEPT !.seen = now]

Reported(old, r) ==
    [seen |-> now, told |-> r.id, risk |-> RiskScore(Status(old), r.payload)]

LongAgo(old) == [old EXCEPT !.seen = now - OfflineAfter - 1]

NewRecord(old, r) == CASE r.kind = "register"  -> Registered(old)
                       [] r.kind = "heartbeat" -> Seen(old)
                       [] r.kind = "telemetry" -> Reported(old, r)

\* Mutant: the last report is not read back from the row.
LoadedWithoutReports ==
    IF torn THEN Blank
    ELSE [a \in Everyone |-> IF row[a] = None THEN None ELSE [row[a] EXCEPT !.told = 0]]

\* What a new registry object reads back; one torn line and it reads nothing.
Loaded == IF torn THEN Blank ELSE row

Entry(r) == [agent |-> r.agent, id |-> r.id, at |-> r.heard]

IdleRequest == [at |-> "idle"]
FirstPause  == 2
FreshRunner == [registered |-> FALSE, plan |-> <<>>, pause |-> FirstPause, waits |-> None]

Init ==
    /\ store \in Stores
    /\ row = Blank /\ torn = FALSE
    /\ tables = [k \in Tables |-> {}]
    /\ memory = [o \in Objects |-> Blank]
    /\ current = 0
    /\ holder = [o \in Objects |-> None]
    /\ request = [t \in Threads |-> IdleRequest]
    /\ runner = [a \in Agents |-> FreshRunner]
    /\ due = [a \in Agents |-> {"heartbeat", "telemetry"}]
    /\ sent = [a \in Agents |-> 0]
    /\ seed = [at |-> "idle", left |-> {}, object |-> 0]
    /\ now = 0 /\ faults = 0 /\ seeds = 0
    /\ acked = {} /\ lagging = {}

-----------------------------------------------------------------------------
(* The runner: one pass of its loop makes the calls that are due, in order.*)

Pass(a) == (IF runner[a].registered THEN <<>> ELSE <<"register">>)
           \o (IF "heartbeat" \in due[a] THEN <<"heartbeat">> ELSE <<>>)
           \o (IF "telemetry" \in due[a] THEN <<"telemetry">> ELSE <<>>)

Begin(a) ==
    /\ runner[a].waits = None /\ runner[a].plan = <<>> /\ Pass(a) # <<>>
    /\ runner' = [runner EXCEPT ![a].plan = Pass(a)]
    /\ UNCHANGED <<store, stored, objects, request, due, sent, seed, now, faults, seeds, acked, lagging>>

\* Mutant: a failed call does not make the runner register again.
AfterFailureStays(r) == [r EXCEPT !.plan = <<>>, !.waits = None]

AfterFailure(r) ==
    [r EXCEPT !.registered = FALSE, !.plan = <<>>, !.waits = None,
              !.pause = IF 2 * @ > BackoffCap THEN BackoffCap ELSE 2 * @]

AfterSuccess(r) ==
    LET done == [r EXCEPT !.plan = Tail(@), !.waits = None]
    IN  IF Head(r.plan) = "register"
        THEN [done EXCEPT !.registered = TRUE, !.pause = FirstPause] ELSE done

Send(a, t) ==
    /\ runner[a].waits = None /\ runner[a].plan # <<>> /\ request[t].at = "idle"
    /\ LET kind == Head(runner[a].plan) IN
       \E p \in Payloads :
         /\ kind # "telemetry" => p = CHOOSE q \in Payloads : TRUE
         /\ sent' = [sent EXCEPT ![a] = IF kind = "telemetry" THEN @ + 1 ELSE @]
         /\ request' = [request EXCEPT ![t] =
              [at |-> IF kind = "register" THEN "call" ELSE "verify",
               kind |-> kind, agent |-> a, payload |-> p,
               id |-> IF kind = "telemetry" THEN sent[a] + 1 ELSE 0,
               heard |-> 0, object |-> 0, status |-> 0, waiting |-> TRUE]]
    /\ runner' = [runner EXCEPT ![a].waits = t]
    /\ UNCHANGED <<store, stored, objects, due, seed, now, faults,
                   seeds, acked, lagging>>

\* The backend cannot be reached: the call raises at once.
Refused(a) ==
    /\ runner[a].waits = None /\ runner[a].plan # <<>> /\ faults < MaxFaults
    /\ runner' = [runner EXCEPT ![a] = AfterFailure(@)]
    /\ faults' = faults + 1
    /\ UNCHANGED <<store, stored, objects, request, due, sent, seed, now, seeds, acked, lagging>>

\* Eight seconds without an answer; the handler goes on without a client.
Timeout(a) ==
    /\ runner[a].waits # None /\ faults < MaxFaults
    /\ request' = [request EXCEPT ![runner[a].waits].waiting = FALSE]
    /\ runner' = [runner EXCEPT ![a] = AfterFailure(@)]
    /\ faults' = faults + 1
    /\ UNCHANGED <<store, stored, objects, due, sent, seed, now, seeds,
                   acked, lagging>>

-----------------------------------------------------------------------------
(* The handlers. *)

Finish(t, status) == request' = [request EXCEPT ![t].at = "answer", ![t].status = status]

\* _require_known_agent: the token check, on the global registry, unlocked.
Verify(t) ==
    /\ request[t].at = "verify"
    /\ IF memory[current][request[t].agent] = None
       THEN Finish(t, 401)
       ELSE request' = [request EXCEPT ![t].at = "call"]
    /\ UNCHANGED <<store, stored, objects, client, seed, now, faults,
                   seeds, acked, lagging>>

\* agent_registry.heartbeat(...): the global is read again, the lock is not held yet.
Call(t) ==
    /\ request[t].at = "call"
    /\ request' = [request EXCEPT ![t].at = "lock", ![t].object = current]
    /\ UNCHANGED <<store, stored, objects, client, seed, now, faults,
                   seeds, acked, lagging>>

\* with self._lock: the record in memory is replaced before anything is stored.
Enter(t) ==
    LET r == request[t]
        o == r.object
        old == memory[o][r.agent]
    IN  /\ r.at = "lock" /\ holder[o] = None
        /\ IF old = None /\ r.kind # "register"
           THEN Finish(t, 404) /\ UNCHANGED objects
           ELSE /\ memory' = [memory EXCEPT ![o][r.agent] = NewRecord(old, r)]
                /\ holder' = [holder EXCEPT ![o] = t]
                /\ request' = [request EXCEPT ![t].at = "upsert", ![t].heard = now]
                /\ UNCHANGED current
        /\ UNCHANGED <<store, stored, client, seed, now, faults, seeds,
                       acked, lagging>>

\* The registry whose memory will answer from now on: a seed that has read the
\* rows already is about to make its own object the global one.
Successor == IF seed.at = "swap" THEN seed.object ELSE current

Lag(a, o) == IF o = Successor THEN lagging \ {a} ELSE lagging \cup {a}

\* Mutant: the route answers when the agent's row is stored.
StagesOfRow(kind) == <<"upsert">>

\* The two transactions of a call, or its one or two lines of the file.
Stages(kind) == IF kind = "register" \/ (kind = "heartbeat" /\ store = "jsonl")
                THEN <<"upsert">> ELSE <<"upsert", "insert">>

Advance(t) ==
    IF request[t].at = "upsert" /\ Len(Stages(request[t].kind)) = 2
    THEN /\ request' = [request EXCEPT ![t].at = "insert"]
         /\ UNCHANGED holder
    ELSE /\ Finish(t, 200)
         /\ holder' = [holder EXCEPT ![request[t].object] = None]

\* _upsert_agent, or the line of the record.
Upsert(t) ==
    LET r == request[t] IN
    /\ r.at = "upsert"
    /\ row' = [row EXCEPT ![r.agent] = memory[r.object][r.agent]]
    /\ lagging' = Lag(r.agent, r.object)
    /\ Advance(t)
    /\ UNCHANGED <<store, tables, torn, memory, current, client, seed, now, faults, seeds, acked>>

\* The heartbeat's row, or all five snapshots of a report in one transaction.
Insert(t) ==
    LET r == request[t] IN
    /\ r.at = "insert"
    /\ tables' = [k \in Tables |->
                    tables[k] \cup (IF r.kind = "telemetry" THEN {Entry(r)} ELSE {})]
    /\ Advance(t)
    /\ UNCHANGED <<store, row, torn, memory, current, client, seed, now, faults, seeds, acked, lagging>>

\* A write raises (a locked database, a full disk): the transaction is undone,
\* half a line stays in a file, the memory keeps what it was given.
FailWrite(t) ==
    LET r == request[t] IN
    /\ r.at \in {"upsert", "insert"} /\ faults < MaxFaults
    /\ torn' \in (IF store = "jsonl" THEN {torn, TRUE} ELSE {torn})
    /\ lagging' = IF r.at = "upsert" THEN lagging \cup {r.agent} ELSE lagging
    /\ Finish(t, 500)
    /\ holder' = [holder EXCEPT ![r.object] = None]
    /\ faults' = faults + 1
    /\ UNCHANGED <<store, row, tables, memory, current, client, seed, now, seeds, acked>>

\* The answer reaches the runner, unless it has stopped waiting.
Answer(t) ==
    LET r == request[t]
        a == r.agent
        ok == r.status = 200
    IN  /\ r.at = "answer"
        /\ request' = [request EXCEPT ![t] = IdleRequest]
        /\ IF ~r.waiting THEN UNCHANGED <<runner, due, acked>>
           ELSE /\ runner' = [runner EXCEPT ![a] = IF ok THEN AfterSuccess(@)
                                                   ELSE AfterFailure(@)]
                /\ due' = [due EXCEPT ![a] = IF ok THEN @ \ {r.kind} ELSE @]
                /\ acked' = IF ok /\ r.kind = "telemetry"
                            THEN acked \cup {Entry(r)} ELSE acked
        /\ UNCHANGED <<store, stored, objects, sent, seed, now, faults,
                       seeds, lagging>>

Serve(t) == \/ Verify(t) \/ Call(t) \/ Enter(t) \/ Upsert(t) \/ Insert(t)
            \/ FailWrite(t) \/ Answer(t)

-----------------------------------------------------------------------------
(* The demo seed route: a private registry writes the demo agents, then a  *)
(* third one, loaded from the rows, becomes the global registry.  Its calls*)
(* are one step each: nobody else writes the rows of a demo agent.         *)

SeedStart ==
    /\ seed.at = "idle" /\ seeds < MaxSeeds
    /\ \E reset \in BOOLEAN :
         \* the private registry is loaded; delete_demo_agents works from what it knows
         row' = IF reset /\ store = "sqlite"
                THEN [a \in Everyone |-> IF a \in DemoAgents /\ Loaded[a] # None
                                         THEN None ELSE row[a]]
                ELSE row
    /\ tables' = [k \in Tables |->
                    {e \in tables[k] : e.agent \in DemoAgents => row'[e.agent] # None}]
    /\ seed' = [seed EXCEPT !.at = "write", !.left = DemoAgents]
    /\ seeds' = seeds + 1
    /\ UNCHANGED <<store, torn, objects, request, client, now, faults,
                   acked, lagging>>

\* register, heartbeat, telemetry and, for the offline ones, set_agent_last_seen,
\* which is not written to a file.
SeedAgent(a) ==
    /\ seed.at = "write" /\ a \in seed.left
    /\ \E p \in Payloads :
         LET r == [agent |-> a, id |-> 1, heard |-> now, payload |-> p]
             told == Reported(Registered(None), r)
         IN  /\ row' = [row EXCEPT ![a] = IF a \in AwayAgents /\ store = "sqlite"
                                         THEN LongAgo(told) ELSE told]
             /\ tables' = [k \in Tables |-> tables[k] \cup {Entry(r)}]
    /\ seed' = [seed EXCEPT !.left = @ \ {a}]
    /\ UNCHANGED <<store, torn, objects, request, client, now, faults,
                   seeds, acked, lagging>>

\* AgentRegistry(storage_path) reads the rows ...
SeedReload ==
    /\ seed.at = "write" /\ seed.left = {}
    /\ seed' = [seed EXCEPT !.at = "swap", !.object = seeds]
    /\ memory' = [memory EXCEPT ![seeds] = Loaded]
    /\ lagging' = {}
    /\ UNCHANGED <<store, stored, current, holder, request, client, now,
                   faults, seeds, acked>>

\* ... and only then becomes the global one.
SeedSwap ==
    /\ seed.at = "swap"
    /\ current' = seed.object
    /\ seed' = [seed EXCEPT !.at = "idle"]
    /\ UNCHANGED <<store, stored, memory, holder, request, client, now,
                   faults, seeds, acked, lagging>>

-----------------------------------------------------------------------------
(* The rest of the world. *)

\* Time passes: statuses age, and the runners' two timers expire.
Tick ==
    /\ now < MaxTime
    /\ now' = now + 1
    /\ due' = [a \in Agents |-> {"heartbeat", "telemetry"}]
    /\ UNCHANGED <<store, stored, objects, request, runner, sent, seed, faults, seeds, acked, lagging>>

\* cleanup_history, in the route's registry or in the cleanup script's own.
Cleanup ==
    /\ store = "sqlite"
    /\ tables' = [k \in Tables |-> {e \in tables[k] : e.at >= now - Retention}]
    /\ UNCHANGED <<store, row, torn, objects, request, client, seed, now, faults, seeds, acked, lagging>>

Appending == (\E t \in Threads : request[t].at \in {"upsert", "insert"})
             \/ seed.at = "write"

\* The backend dies in the middle of anything and starts again over what is stored.
Crash ==
    /\ faults < MaxFaults
    /\ torn' \in (IF store = "jsonl" /\ Appending THEN {torn, TRUE} ELSE {torn})
    /\ memory' = [o \in Objects |-> IF o = 0 /\ ~torn' THEN row ELSE Blank]
    /\ current' = 0 /\ holder' = [o \in Objects |-> None]
    /\ request' = [t \in Threads |-> IdleRequest]
    /\ runner' = [a \in Agents |-> IF runner[a].waits = None THEN runner[a]
                                   ELSE AfterFailure(runner[a])]
    /\ seed' = [at |-> "idle", left |-> {}, object |-> 0]
    /\ faults' = faults + 1 /\ lagging' = {}
    /\ UNCHANGED <<store, row, tables, due, sent, now, seeds, acked>>

Next ==
    \/ \E a \in Agents : Begin(a) \/ Refused(a) \/ Timeout(a)
    \/ \E a \in Agents, t \in Threads : Send(a, t)
    \/ \E t \in Threads : Serve(t)
    \/ SeedStart \/ (\E a \in DemoAgents : SeedAgent(a)) \/ SeedReload \/ SeedSwap
    \/ Tick \/ Cleanup \/ Crash

\* A runner keeps looping and a request thread keeps running; nobody has to
\* seed, clean up or read a and the bounded faults stop.
Fairness ==
    /\ \A a \in Agents : WF_vars(Begin(a)) /\ WF_vars(\E t \in Threads : Send(a, t))
    /\ \A t \in Threads : WF_vars(Serve(t))

Spec == Init /\ [][Next]_vars /\ Fairness

-----------------------------------------------------------------------------
Kinds  == {"register", "heartbeat", "telemetry"}
Record == [seen : Int, told : Nat, risk : Int]
ASSUME NoneAssumption == None \notin Record
Entries == [agent : Everyone, id : Nat, at : Int]
Request == [at : {"verify", "call", "lock", "upsert", "insert", "answer"},
            kind : Kinds, agent : Agents, payload : Payloads, id : Nat, heard : Int,
            object : Objects, status : Int, waiting : BOOLEAN]
Loop == [registered : BOOLEAN, plan : Seq(Kinds), pause : Nat, waits : Threads \cup {None}]

TypeOK ==
    /\ store \in {"sqlite", "jsonl"} /\ torn \in BOOLEAN
    /\ row \in [Everyone -> Record \cup {None}]
    /\ tables \in [Tables -> SUBSET Entries]
    /\ memory \in [Objects -> [Everyone -> Record \cup {None}]]
    /\ current \in Objects
    /\ holder \in [Objects -> Threads \cup {None}]
    /\ request \in [Threads -> {IdleRequest} \cup Request]
    /\ runner \in [Agents -> Loop]
    /\ due \in [Agents -> SUBSET Kinds] /\ sent \in [Agents -> Nat]
    /\ seed \in [at : {"idle", "write", "swap"}, left : SUBSET DemoAgents, object : Objects]
    /\ now \in Nat /\ faults \in Nat /\ seeds \in Objects
    /\ acked \subseteq Entries /\ lagging \subseteq Everyone

(* A runner that has been told its report was accepted can rely on it: the *)
(* report is in all five snapshot tables, whatever crashed or was seeded   *)
(* since, until retention removes it.  A file that holds half a line can   *)
(* no longer be read at all.                                               *)
AckedIsKept == \A e \in acked :
    (\A k \in Tables : e \in tables[k]) \/ e.at < now - Retention \/ torn

BeingWritten(a) == \E t \in Threads :
    request[t].at = "upsert" /\ request[t].agent = a /\ request[t].object = Successor

\* What the dashboard shows of an agent is what a restart would read back,
\* except while a call is writing it, after a failed write of its row or a
\* write through a registry that a seed has replaced (until the next write of
\* that agent), and once a file holds half a line.
MemoryAgrees == \A a \in Agents :
    memory[Successor][a] = row[a] \/ a \in lagging \/ BeingWritten(a) \/ torn

LastReport(record) == IF record = None THEN 0 ELSE record.told

\* The report kept with an agent's row is replaced by an older one only by a
\* late handler whose runner has given up, or after a seed or a failure.
ReportsAdvance == [][\A a \in Agents :
    LastReport(row'[a]) < LastReport(row[a]) =>
        \/ a \in lagging \cup lagging' \/ torn
        \/ \E t \in Threads : request[t].at = "upsert" /\ request[t].agent = a
                              /\ ~request[t].waiting]_vars

\* Refusals, timeouts, failed writes, a restart that forgets the agent and a
\* registry replaced under it: the runner registers again and a report that is
\* due is accepted in the end.
ReportsGetThrough == \A a \in Agents :
    "telemetry" \in due[a] ~> "telemetry" \notin due[a]

=============================================================================
