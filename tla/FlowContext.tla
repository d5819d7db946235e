------------------------------ MODULE FlowContext ------------------------------
(***************************************************************************)
(* What the history view derives from stored packets and alerts            *)
(* (backend/app/repositories/history_repository.py): the flow a row        *)
(* belongs to, the context of a packet or of an alert inside a sample of   *)
(* rows, and the reconstruction of its stream.                             *)
(*                                                                         *)
(* A packet row is a record [id, cap, src, dst, sport, dport, proto,       *)
(* direction, remote, length, t, pid, process, request, status, snippet,   *)
(* binary, own, answers]: id is the row's number (shown as text: "mem-pkt- *)
(* N", or the SQLite key), cap the capture id, t the second of capture,    *)
(* request a requested target or "", status a response code or 0.  own     *)
(* numbers the packets of all runs and answers is the own number of the    *)
(* request that a response answers: no code fields.  An alert row has id,  *)
(* own, packet (the capture id it names) and what it copies from the       *)
(* packet.                                                                 *)
(* Samples are sets, and a context is made from rows of one moment (the    *)
(* code reads packet, packets and alerts one after the other); texts,      *)
(* previews and confidences are left out, and the cap of four processes.   *)
(***************************************************************************)
EXTENDS Integers, Sequences, FiniteSetsExt, Functions

CONSTANTS
    PrivateHosts,   \* addresses that are local to everybody
    OwnHosts,       \* public addresses of the capturing machine
    Day,            \* seconds of a day: a live time is written "%H:%M:%S"
    HostOf,         \* the host of a request's target
    AuthTargets,    \* targets that look like a login
    SensitiveTargets,   \* targets that look like administration
    Limits          \* The thresholds the code writes as numbers: shown (5), few (3), short
                    \* (15), manyShort (4), gaps (3), beaconMin (5), beaconMax (900), burst
                    \* (8), burstSpan (15), hosts (5), fanSessions (6), hostBurst (8),
                    \* hostSpan (10), sessions (4), spread (3), ports (6), scanSpan (60),
                    \* sweep (4), exchanges (6), diff (6), timeline (12), packets (500),
                    \* alerts (250).

None == [id |-> 0]

-----------------------------------------------------------------------------
(* The flow of a row. *)

OnLan(h) == h \in PrivateHosts \cup OwnHosts

\* infer_flow, when the packet is captured: it knows the machine's own addresses.
Direction(src, dst) ==
    CASE OnLan(src) /\ ~OnLan(dst) -> "OUTGOING"
      [] ~OnLan(src) /\ OnLan(dst) -> "INCOMING"
      [] OnLan(src) /\ OnLan(dst) -> "LOCAL"
      [] OTHER -> "OTHER"
Remote(src, dst) == IF ~OnLan(src) /\ OnLan(dst) THEN src ELSE dst

\* The first address that is not private, or else the first there is.
Preferred(r) ==
    IF r.remote \notin PrivateHosts \/ {r.dst, r.src} \subseteq PrivateHosts THEN r.remote
    ELSE IF r.dst \notin PrivateHosts THEN r.dst ELSE r.src

\* Mutant: the ends of a flow as the packet names them, whatever its direction.
AsSent(r) ==
    [proto |-> r.proto, direction |-> r.direction, local |-> r.src, remote |-> r.dst,
     lport |-> r.sport, rport |-> r.dport]

FlowIdentity(r) ==
    LET Seen(inward, known) ==
            [proto |-> r.proto,
             direction |-> IF ~known THEN r.direction ELSE IF inward THEN "INCOMING" ELSE "OUTGOING",
             local |-> IF inward THEN r.dst ELSE r.src,
             remote |-> IF inward THEN r.src ELSE r.dst,
             lport |-> IF inward THEN r.dport ELSE r.sport,
             rport |-> IF inward THEN r.sport ELSE r.dport]
        Towards(peer) ==
            Seen(r.direction = "INCOMING" \/ (r.direction # "OUTGOING" /\ peer = r.src),
                 r.direction \in {"INCOMING", "OUTGOING"} \/ peer \in {r.src, r.dst})
    IN  Towards(Preferred(r))

Flow(i) == <<i.proto, i.local, i.lport, i.remote, i.rport>>
FlowOf(r) == Flow(FlowIdentity(r))
SamePeer(i, j) == i.proto = j.proto /\ i.local = j.local /\ i.remote = j.remote
SameFlow(i, j) == SamePeer(i, j) /\ i.lport = j.lport /\ i.rport = j.rport
SamePort(i, j) == SamePeer(i, j) /\ {i.lport, i.rport} \cap {j.lport, j.rport} # {}

-----------------------------------------------------------------------------
(* Order.  Times are compared as times of day, ids as texts. *)

\* The rank of a number below 100 among texts: "1" < "10" < "11" < "2".
TextRank(n) == IF n < 10 THEN 11 * n ELSE 11 * (n \div 10) + (n % 10) + 1

Clock(r) == r.t % Day
Earlier(a, b) == \/ Clock(a) < Clock(b)
                 \/ Clock(a) = Clock(b) /\ TextRank(a.id) < TextRank(b.id)
Later(a, b) == Earlier(b, a)

Ordered(S, Before(_, _)) ==
    [i \in 1..Cardinality(S) |->
        CHOOSE x \in S : Cardinality({y \in S : Before(y, x)}) = i - 1]
FirstFew(s, n) == SubSeq(s, 1, IF Len(s) < n THEN Len(s) ELSE n)
Ids(s) == [i \in DOMAIN s |-> s[i].id]
Others(S, id) == {r \in S : r.id # id}
Shown(S, id) == Ids(FirstFew(Ordered(Others(S, id), Later), Limits.shown))
MaxOf(S, default) == IF S = {} THEN default ELSE Max(S)
MinOf(S, default) == IF S = {} THEN default ELSE Min(S)

-----------------------------------------------------------------------------
(* Sessions: one record for each flow of a set of rows. *)

SessionRecords(S) ==
    LET Record(i, rows, times) ==
            [proto |-> i.proto, local |-> i.local, lport |-> i.lport, remote |-> i.remote,
             rport |-> i.rport, packets |-> Cardinality(rows),
             bytes |-> MapThenSumSet(LAMBDA r : r.length, rows),
             first |-> Min(times), last |-> Max(times)]
        OfFlow(i, rows) == Record(i, rows, {Clock(r) : r \in rows})
    IN  {OfFlow(i, {r \in S : FlowOf(r) = Flow(i)})
            : i \in {[FlowIdentity(r) EXCEPT !.direction = ""] : r \in S}}
Short(s) == s.packets <= Limits.few /\ s.last - s.first <= Limits.short

\* Ports and hosts other than the missing ones.
Ports(S) == S \ {0}

SameProcess(p, r) ==
    IF p.pid # 0 /\ r.pid # 0 THEN p.pid = r.pid
    ELSE p.process # "" /\ p.process = r.process

ProcessCorrelation(p, ps, as) ==
    LET Correlated(rows, ids, sessions) ==
            [packets |-> Cardinality(rows),
             alerts |-> Cardinality({a \in as : SameProcess(p, a)}),
             sessions |-> sessions,
             related |-> Shown(rows, p.id),
             pattern |->
                IF sessions < Limits.spread THEN "single session"
                ELSE IF /\ Cardinality(Ports(UNION {{i.lport, i.rport} : i \in ids})) >= Limits.spread
                        /\ Cardinality({i.remote : i \in ids}) >= Limits.spread
                     THEN "many ports and hosts" ELSE "many sessions"]
        Found(rows, ids) == Correlated(rows, ids, Cardinality({Flow(i) : i \in ids}))
        Of(rows) == Found(rows, {FlowIdentity(r) : r \in rows})
    IN  IF p.pid # 0 \/ p.process # ""
        THEN Of({r \in ps : SameProcess(p, r)})
        ELSE [packets |-> 0, alerts |-> 0, sessions |-> 0, related |-> << >>,
              pattern |-> "single session"]

HostCorrelation(i, ps) ==
    LET rows == {r \in ps : FlowIdentity(r).local = i.local}
        ids == {FlowIdentity(r) : r \in rows}
        FlowCount(js) == Cardinality({Flow(j) : j \in js})
        Hosts(d) == Cardinality({j.remote : j \in {k \in ids : k.direction = d}})
        Burst(times) == Cardinality({r \in rows : Max(times) - Clock(r) <= Limits.hostSpan})
        Correlated(sessions, out, in, together, burst) ==
            [sessions |-> sessions, out |-> out, in |-> in, together |-> together,
             burst |-> burst,
             pattern |->
                IF out >= Limits.hosts /\ sessions >= Limits.fanSessions THEN "fan out"
                ELSE IF in >= Limits.hosts /\ sessions >= Limits.fanSessions THEN "fan in"
                ELSE IF burst >= Limits.hostBurst THEN "burst"
                ELSE IF together >= Limits.sessions THEN "peer recurs" ELSE "focused"]
    IN  Correlated(FlowCount(ids), Hosts("OUTGOING"), Hosts("INCOMING"),
                   FlowCount({k \in ids : k.remote = i.remote}), Burst({Clock(r) : r \in rows}))

TargetPort(s, direction) ==
    CASE direction = "INCOMING" -> s.lport
      [] direction = "OUTGOING" -> s.rport
      [] OTHER -> IF s.rport # 0 THEN s.rport ELSE s.lport

PortCorrelation(i, ps) ==
    LET rows == {r \in ps : LET j == FlowIdentity(r) IN j.local = i.local /\ j.proto = i.proto}
        Targets(together) == Cardinality(Ports({TargetPort(s, i.direction) : s \in together}))
        Span(firsts) == MaxOf(firsts, 0) - MinOf(firsts, 0)
        Correlated(targets, span, together, onLocal, onRemote) ==
            [targets |-> targets, span |-> span,
             pattern |->
                IF /\ targets >= Limits.ports /\ Cardinality(together) >= Limits.ports
                   /\ span <= Limits.scanSpan THEN "port scan"
                ELSE IF /\ Cardinality({s.remote : s \in onRemote}) >= Limits.sweep
                        /\ Cardinality(onRemote) >= Limits.sweep THEN "sweep"
                ELSE IF Cardinality(onLocal) >= Limits.sweep THEN "local port reuse"
                ELSE IF Cardinality(onRemote) >= Limits.sweep THEN "remote service reuse"
                ELSE "narrow"]
        Among(all, together) ==
            Correlated(Targets(together), Span({s.first : s \in together}), together,
                       {s \in all : i.lport # 0 /\ s.lport = i.lport},
                       {s \in all : i.rport # 0 /\ s.rport = i.rport})
        Of(all) == Among(all, {s \in all : s.remote = i.remote})
    IN  Of(SessionRecords(rows))

-----------------------------------------------------------------------------
(* Behaviours. *)

\* The positive gaps between times, in ascending order.
Gaps(times) ==
    LET gaps == {<<t, Min({u \in times : u > t}) - t>> : t \in {x \in times : \E u \in times : u > x}}
    IN  Ordered(gaps, LAMBDA g, h : g[2] < h[2] \/ (g[2] = h[2] /\ g[1] < h[1]))

\* Twice the median of a non-empty sequence of gaps.
Median2(gaps) ==
    LET m == Len(gaps) \div 2
    IN  IF Len(gaps) % 2 = 1 THEN 2 * gaps[m + 1][2] ELSE gaps[m][2] + gaps[m + 1][2]

Regular(times) ==
    LET Near(gap, median) == LET off == 2 * gap - median
                             IN  5 * Max({off, -off}) <= Max({20, median})
        Steady(gaps, median) == /\ 2 * Limits.beaconMin <= median /\ median <= 2 * Limits.beaconMax
                                /\ \A n \in DOMAIN gaps : Near(gaps[n][2], median)
        Of(gaps) == Len(gaps) >= Limits.gaps /\ Steady(gaps, Median2(gaps))
    IN  Of(Gaps(times))

\* Many short sessions with a service of the peer, and whether they come at regular times.
RepeatedConnections(i, ps) ==
    LET service == {s \in SessionRecords(ps) : /\ s.local = i.local /\ s.remote = i.remote
                                               /\ s.proto = i.proto
                                               /\ (i.rport = 0 \/ s.rport = i.rport)}
        Repeated(all, short) ==
            IF /\ Cardinality(short) >= Limits.manyShort
               /\ 5 * (Cardinality(short) + 1) > 4 * Cardinality(all)
            THEN {"repeated short connections"}
                 \cup (IF Regular({s.first : s \in short}) THEN {"beacon"} ELSE {})
            ELSE {}
        Split(all) == Repeated(all, {s \in all : Short(s)})
    IN  Split(service)

FlowBurst(rows) ==
    IF /\ Cardinality(rows) >= Limits.burst
       /\ Max({Clock(r) : r \in rows}) - Min({Clock(r) : r \in rows}) <= Limits.burstSpan
    THEN {"burst"} ELSE {}

\* The patterns of the three correlations that are out of the ordinary.
Patterns(process, host, port) ==
    ({host.pattern} \ {"focused"}) \cup ({port.pattern} \ {"narrow"})
    \cup ({process.pattern} \ {"single session"})

\* One label is reported once: a burst of the flow hides the host's.
Behaviours(i, ps, rows, process, host, port) ==
    RepeatedConnections(i, ps) \cup FlowBurst(rows) \cup Patterns(process, host, port)

RelatedFlows(i, ps) ==
    LET others == {j \in {FlowIdentity(r) : r \in ps} :
                     Flow(j) # Flow(i) /\ (j.local = i.local \/ j.remote = i.remote)}
    IN  Min({Limits.shown, Cardinality({Flow(j) : j \in others})})

-----------------------------------------------------------------------------
(* The stream of a flow. *)

Exchange(request, response) ==
    [request |-> request, response |-> response,
     complete |-> request # None /\ response # None]
Target(e) == IF e.request = None THEN "" ELSE e.request.request
Status(e) == IF e.response = None THEN 0 ELSE e.response.status
StatusClass(e) == IF Status(e) >= 100 THEN Status(e) \div 100 ELSE 0
Failed(e) == Status(e) >= 400

\* Requests and responses are paired by their position.
Exchanges(requests, responses) ==
    [n \in 1..Max({Len(requests), Len(responses)}) |->
        Exchange(IF n <= Len(requests) THEN requests[n] ELSE None,
                 IF n <= Len(responses) THEN responses[n] ELSE None)]

\* A cluster is the exchanges of one target and status class, named by the first of them; the
\* first few with the most failures are looked at, for those that failed more than once.
FailedClusters(es) ==
    LET Cluster(n) == {k \in DOMAIN es : /\ Target(es[k]) = Target(es[n])
                                         /\ StatusClass(es[k]) = StatusClass(es[n])}
        Size(n) == Cardinality(Cluster(n))
        Failures(n) == Cardinality({k \in Cluster(n) : Failed(es[k])})
        firsts == {n \in DOMAIN es : n = Min(Cluster(n))}
        Before(m, n) == \/ Failures(m) > Failures(n)
                        \/ Failures(m) = Failures(n) /\ Size(m) > Size(n)
                        \/ Failures(m) = Failures(n) /\ Size(m) = Size(n) /\ m < n
        shown == FirstFew(Ordered(firsts, Before), Limits.exchanges)
    IN  {Target(es[n]) : n \in {m \in Range(shown) : Failures(m) > 1}}

\* What changed from one request, response or payload to the next.
Changes(requests, responses, snippets) ==
    LET Changed(s, Differ(_, _)) == Cardinality({n \in 2..Len(s) : Differ(s[n - 1], s[n])})
        first == Changed(requests, LAMBDA a, b : a.request # b.request \/ a.snippet # b.snippet)
                 + Changed(responses, LAMBDA a, b : a.status # b.status)
        payload == Changed(snippets, LAMBDA a, b : a.snippet # b.snippet) > 0
    IN  [count |-> Min({Limits.diff, first + (IF payload THEN 1 ELSE 0)}),
         payload |-> payload /\ first < Limits.diff]

AbruptStatus(es) ==
    \E n \in 2..Len(es) :
        LET classes == {StatusClass(es[n - 1]), StatusClass(es[n])}
        IN  /\ 0 \notin classes /\ Cardinality(classes) = 2
            /\ ~(classes \subseteq {2, 3}) /\ ~(classes \subseteq {4, 5})

TargetShift(es) ==
    \E n \in 2..Len(es) :
        LET before == Target(es[n - 1])  after == Target(es[n])
        IN  \/ before # "" /\ after # "" /\ HostOf[before] # HostOf[after]
            \/ before # after /\ after \in SensitiveTargets

IrregularTiming(rows) ==
    LET Uneven(gaps) ==
            LET least == gaps[1][2]  most == gaps[Len(gaps)][2]
            IN  /\ Len(gaps) >= Limits.gaps
                /\ most >= Max({2, 3 * gaps[(Len(gaps) \div 2) + 1][2]}) /\ most >= 4 * least
    IN  Uneven(Gaps({Clock(r) : r \in rows}))

Anomalies(es, changes, snippets, rows) ==
    LET shown == FirstFew(es, Limits.exchanges)
        states == {r.binary : r \in {q \in rows : q.snippet # ""}}
        failed == FailedClusters(es)
        previews == {s.snippet : s \in Range(FirstFew(snippets, Limits.exchanges))}
    IN  (IF failed \cap AuthTargets # {} THEN {"repeated failed sign-in"}
         ELSE IF failed # {} THEN {"repeated failures"} ELSE {})
        \cup (IF AbruptStatus(shown) THEN {"status change"} ELSE {})
        \cup (IF TargetShift(shown) THEN {"target shift"} ELSE {})
        \cup (IF changes.payload /\ previews \cap AuthTargets # {} THEN {"payload change"} ELSE {})
        \cup (IF Cardinality(states) = 2 THEN {"binary shift"} ELSE {})
        \cup (IF IrregularTiming(rows) THEN {"timing"} ELSE {})

\* Packets and alerts of the flow by time; a packet goes before an alert of its second.
EventBefore(e, f) ==
    \/ Clock(e.row) < Clock(f.row)
    \/ /\ Clock(e.row) = Clock(f.row)
       /\ \/ e.kind = "packet" /\ f.kind = "alert"
          \/ e.kind = f.kind /\ TextRank(e.row.id) < TextRank(f.row.id)
Timeline(rows, alerts) ==
    Ordered([kind : {"packet"}, row : rows] \cup [kind : {"alert"}, row : alerts], EventBefore)

Neighbour(timeline, kind, id, step) ==
    LET Beside(scoped, at) == IF at = {} \/ Min(at) + step \notin DOMAIN scoped THEN 0
                              ELSE scoped[Min(at) + step].row.id
        Among(scoped) == Beside(scoped, {n \in DOMAIN scoped : scoped[n].row.id = id})
    IN  Among(SelectSeq(timeline, LAMBDA e : e.kind = kind))

Neighbours(timeline, packet, alert, step) ==
    [packet |-> Neighbour(timeline, "packet", packet, step),
     alert |-> Neighbour(timeline, "alert", alert, step)]

Processes(rows, alerts) ==
    LET Key(r) == <<r.pid, r.process>>
        keys == {Key(r) : r \in rows \cup alerts} \ {<<0, "">>}
    IN  {[key |-> k, packets |-> Cardinality({r \in rows : Key(r) = k}),
          alerts |-> Cardinality({a \in alerts : Key(a) = k})] : k \in keys}

\* What the view shows of a flow: "rows" and "flowAlerts" are the flow's, "packet" and "alert"
\* the numbers of the selected ones, or 0.  Without packets it shows nothing of the alerts.
Stream(rows, flowAlerts, packet, alert) ==
    LET alerts == IF rows = {} THEN {} ELSE flowAlerts
        Shows(requests, responses, snippets, exchanges, pairs, changes, timeline) ==
            [status |->
                IF requests # << >> \/ responses # << >>
                THEN IF pairs > 0 /\ Len(requests) = Len(responses) THEN "complete" ELSE "partial"
                ELSE IF snippets # << >> THEN "partial" ELSE "fallback",
             exchanges |-> FirstFew(exchanges, Limits.exchanges),
             pairs |-> pairs,
             snippets |-> Ids(FirstFew(snippets, Limits.exchanges)),
             changes |-> changes,
             anomalies |-> Anomalies(exchanges, changes, snippets, rows),
             timeline |-> FirstFew([n \in DOMAIN timeline |->
                                       <<timeline[n].kind, timeline[n].row.id>>], Limits.timeline),
             processes |-> Processes(rows, alerts),
             previous |-> Neighbours(timeline, packet, alert, -1),
             next |-> Neighbours(timeline, packet, alert, 1)]
        Paired(requests, responses, snippets, exchanges) ==
            Shows(requests, responses, snippets, exchanges,
                  Cardinality({n \in DOMAIN exchanges : exchanges[n].complete}),
                  Changes(requests, responses, snippets), Timeline(rows, alerts))
        Told(requests, responses, snippets) ==
            Paired(requests, responses, snippets, Exchanges(requests, responses))
        Sorted(ascending) ==
            Told(SelectSeq(ascending, LAMBDA r : r.request # ""),
                 SelectSeq(ascending, LAMBDA r : r.status # 0),
                 SelectSeq(ascending,
                           LAMBDA r : r.request = "" /\ r.status = 0 /\ r.snippet # ""))
    IN  Sorted(Ordered(rows, Earlier))

-----------------------------------------------------------------------------
(* The context of a packet, and of an alert, in a sample of rows. *)

\* The newest n rows.
Newest(S, n) == {r \in S : Cardinality({q \in S : q.id > r.id}) < n}

\* The rows SQLite returns for a flow: those that touch one of its two addresses.
Sample(i, S, n) ==
    Newest({r \in S : {r.src, r.dst, r.remote} \cap {i.local, i.remote} # {}}, n)

\* An alert is the flow's when it names one of its packets or has the flow's two hosts and
\* protocol; the caller has already kept to the latter.
FlowAlerts(i, as) == {a \in as : SamePeer(FlowIdentity(a), i)}
FlowRows(i, ps) == {r \in ps : SameFlow(FlowIdentity(r), i)}
OnRemote(i, S) == {r \in S : FlowIdentity(r).remote = i.remote}

RootCauses(process, alerts, peerAlerts, behaviours, related, linked) ==
    (IF linked THEN {"packet to alert"} ELSE {})
    \cup (IF alerts > 0 THEN {"flow detections"} ELSE {})
    \cup (IF peerAlerts > alerts THEN {"remote recurrence"} ELSE {})
    \cup (IF process.alerts > 0 THEN {"process"} ELSE {})
    \cup (IF behaviours # {} THEN {"behaviour"} ELSE {})
    \cup (IF related > 0 THEN {"related flows"} ELSE {})

PacketStream(p, ps, as) ==
    LET i == FlowIdentity(p) IN Stream(FlowRows(i, ps), FlowAlerts(i, as), p.id, 0)

\* p may be missing from ps, when it has been evicted since it was read.
PacketContext(p, ps, as) ==
    LET In(r) == FlowIdentity(r).direction = "INCOMING"
        Shows(i, rows, alerts, process, host, port, behaviours, related) ==
            [flow |-> Flow(i),
             packets |-> Max({Cardinality(rows), 1}),
             alerts |-> Cardinality(alerts),
             bytesIn |-> MapThenSumSet(LAMBDA r : r.length, {r \in rows : In(r)}),
             bytesOut |-> MapThenSumSet(LAMBDA r : r.length, {r \in rows : ~In(r)}),
             first |-> MinOf({Clock(r) : r \in rows}, Clock(p)),
             last |-> MaxOf({Clock(r) : r \in rows}, Clock(p)),
             peerPackets |-> Cardinality({r \in ps : SamePeer(FlowIdentity(r), i)}),
             portPackets |-> Cardinality({r \in ps : SamePort(FlowIdentity(r), i)}),
             related |-> Shown(rows, p.id),
             remotePackets |-> Shown(OnRemote(i, ps), p.id),
             remoteAlerts |-> Shown(OnRemote(i, as), 0),
             relatedFlows |-> related,
             process |-> process, host |-> host, port |-> port, behaviours |-> behaviours,
             causes |-> RootCauses(process, Cardinality(alerts), Cardinality(alerts), behaviours,
                                   related, FALSE),
             stream |-> Stream(rows, alerts, p.id, 0)]
        Explained(i, rows, alerts, process, host, port) ==
            Shows(i, rows, alerts, process, host, port,
                  Behaviours(i, ps, rows, process, host, port), RelatedFlows(i, ps))
        OfFlow(i) ==
            Explained(i, FlowRows(i, ps), FlowAlerts(i, as), ProcessCorrelation(p, ps, as),
                      HostCorrelation(i, ps), PortCorrelation(i, ps))
    IN  OfFlow(FlowIdentity(p))

\* The newest row whose capture id the alert names (the code also compares the row's own id,
\* which never looks like a capture id); or else, of the packets of its protocol
\* between its two addresses, the one nearest in time.
LinkedPacket(a, ps) ==
    LET named == {r \in ps : r.cap = a.packet}
        between == {r \in ps : /\ r.proto = a.proto
                               /\ <<r.src, r.dst>> \in {<<a.src, a.dst>>, <<a.dst, a.src>>}}
        Away(r) == Max({Clock(r) - Clock(a), Clock(a) - Clock(r)})
        nearest == {r \in between : \A q \in between : Away(r) <= Away(q)}
    IN  CASE named # {} -> CHOOSE r \in named : \A q \in named : q.id <= r.id
          [] named = {} /\ between # {} -> CHOOSE r \in nearest : \A q \in nearest : q.id <= r.id
          [] OTHER -> None

AlertContext(a, ps, as) ==
    LET Shows(linked, i, base, alerts) ==
            [base EXCEPT
               !.remotePackets = Shown(OnRemote(i, ps), linked.id),
               !.remoteAlerts = Shown(OnRemote(i, as), a.id),
               !.causes = RootCauses(base.process, Cardinality(alerts), Cardinality(alerts),
                                     base.behaviours, base.relatedFlows, linked # None),
               !.stream = Stream(FlowRows(i, ps), alerts, linked.id, a.id)]
        Around(linked, anchor, i) ==
            Shows(linked, i, PacketContext(anchor, ps, as), FlowAlerts(i, as))
        Anchored(linked, anchor) == Around(linked, anchor, FlowIdentity(anchor))
        Of(linked) == Anchored(linked, IF linked = None THEN a ELSE linked)
    IN  Of(LinkedPacket(a, ps))
=============================================================================
