---------------------------- MODULE LiveSession -----------------------------
(***************************************************************************)
(* What a running capture shows: SnifferService._process_packet            *)
(* (backend/app/services/sniffer_service.py), run by the flow workers,     *)
(* puts each packet into the service counters, the flow table, the         *)
(* incident engine, the dashboard (sniffer_dashboard_state.py) and the     *)
(* live ring, one after the other and each under its own lock;             *)
(* reset_session empties them one after the other in another order; and a  *)
(* request for a conversation reads the flow table twice.                  *)
(*                                                                         *)
(* A worker processes the packets of its conversations in the order of     *)
(* their arrival (FlowWorkerPool).  Left out: detection, whose alerts are  *)
(* part of a packet (DetectionPipeline); the inside of the incident engine *)
(* (IncidentCorrelation); and what leaves the process at the end           *)
(* (BatchPersistence, EventAggregator).                                    *)
(***************************************************************************)
EXTENDS FlowEngine, LiveRingBuffer, ServiceAttribution, TLC

CONSTANTS Workers,      \* the flow workers
          Captures,     \* bound: the packets, in the order of their arrival; the settings
                        \* (capture_mode, payload_capture); how long the clock
                        \* runs; and how many resets and readers there are
          MaxItems      \* the max_items of the dashboard

\* A packet has the fields the views look at, and a severity for each alert.
ASSUME CapturesAssumption ==
    \A s \in Captures :
        /\ Len(s.packets) \in Nat /\ DOMAIN s.packets = 1 .. Len(s.packets)
        /\ s.duration \in Nat /\ s.resets \in Nat /\ s.readers \in Nat
        /\ \A p \in DOMAIN s.packets :
            /\ {"src", "dst", "sport", "dport", "proto", "direction", "app", "decoded", "payload",
                "metadata", "length", "nxdomain", "unusual", "sensitive", "alerts", "rst",
                "fragment", "old_tls", "http_error", "host", "sni", "query", "org"}
               \subseteq DOMAIN s.packets[p]
            /\ s.packets[p].length \in Nat /\ s.packets[p].alerts \in Seq(Severities)
            /\ {s.packets[p].unusual, s.packets[p].sensitive, s.packets[p].nxdomain}
               \subseteq BOOLEAN
ASSUME ItemsAssumption == MaxItems \in Nat \ {0}

VARIABLES
    session,        \* the session
    lane,           \* the worker of each conversation
    taken,          \* the packets begun
    frame,          \* per worker: where it is in _process_packet
    signalled,      \* the packets the incident engine holds signals of
    dashboard,      \* _packets and _alerts, newest first, and what the counters count
    reset,          \* where reset_session is
    call,           \* get_conversation: the flows still to be read
    finished,       \* history: the packets processed
    disturbed,      \* history: the packets in process during a reset
    swept,          \* history: the packets finished before the latest reset began
    log,            \* history: the packets the flow engine ingested since its reset
    era,            \* history: how many resets the flow engine has seen
    overlapped      \* history: the flow engine was reset during the call

views == <<flowVars, ringVars, attributionVars, signalled, dashboard>>
history == <<finished, disturbed, swept, log, era, overlapped>>
sessionVars == <<now, session, lane, taken, frame, views, reset, call, history>>

traffic == session.packets
settings == session.settings
Arrivals == DOMAIN traffic
Idle == [at |-> "idle", packet |-> 0, flow |-> 0, era |-> 0, since |-> 0, todo |-> << >>]
Empty == [packets |-> << >>, alerts |-> << >>, counted |-> {}, total_alerts |-> 0]

SessionInit ==
    /\ session \in Captures
    /\ lane \in [{ConversationOf(traffic[p]) : p \in Arrivals} -> Workers]
    /\ taken = {} /\ frame = [w \in Workers |-> Idle]
    /\ FlowInit /\ RingInit /\ AttributionInit
    /\ signalled = {} /\ dashboard = Empty
    /\ reset = [at |-> "idle", count |-> 0] /\ call = [at |-> "idle", flows |-> {}]
    /\ finished = {} /\ disturbed = {} /\ swept = {} /\ log = << >> /\ era = 0
    /\ overlapped = FALSE

-----------------------------------------------------------------------------
(* The capture policy *)

\* current_capture_policy: the metadata mode captures no payload.
Mode == settings.capture_mode
PayloadCapture == Mode # "metadata" /\ settings.payload_capture

\* _apply_payload_policy.  It looks for alert_only_mode too, but CapturePolicy.to_public_dict
\* does not have that field.
PayloadKept == PayloadCapture /\ Mode \in {"full", "forensic"}

Visible(packet) == IF PayloadKept THEN packet ELSE [packet EXCEPT !.payload = ""]

-----------------------------------------------------------------------------
(* _process_packet *)

Mine(w) == Visible(traffic[frame[w].packet])
Onward(w, step) == frame' = [frame EXCEPT ![w].at = step, ![w].since = now]

InLane(w, p) == lane[ConversationOf(traffic[p])] = w

\* Takes the next packet of the lane.  Its id is its number.
Begin(w, p) ==
    /\ frame[w].at = "idle" /\ p \in Arrivals \ taken /\ InLane(w, p)
    /\ \A q \in 1 .. p - 1 : InLane(w, q) => q \in taken
    /\ taken' = taken \cup {p}
    /\ frame' = [frame EXCEPT ![w] = [Idle EXCEPT !.at = "enrich", !.packet = p]]
    /\ disturbed' = IF reset.at = "idle" THEN disturbed ELSE disturbed \cup {p}
    /\ UNCHANGED <<now, session, lane, views, reset, call, finished, swept, log, era,
                   overlapped>>

\* _service_attribution.enrich.
Enrich(w) ==
    /\ frame[w].at = "enrich" /\ Onward(w, "ingest")
    /\ RecordResult(Mine(w))
    /\ UNCHANGED <<now, session, lane, taken, flowVars, ringVars, signalled, dashboard,
                   reset, call, history>>

\* The flow service returns a copy of the flow.
Ingest(w) ==
    LET p == frame[w].packet
        service == Attribution(Mine(w)).service
    IN  /\ frame[w].at = "ingest"
        /\ IngestFlow(p, Mine(w), service)
        /\ frame' = [frame EXCEPT ![w].at = "correlate", ![w].era = era,
                                  ![w].flow = IngestedFlow(p, Mine(w), service).packets]
        /\ log' = Append(log, p)
        /\ UNCHANGED <<now, session, lane, taken, ringVars, attributionVars, signalled,
                       dashboard, reset, call, finished, disturbed, swept, era, overlapped>>

\* packet_expert_items: how many remarks there are on a packet.
ExpertPorts == {22, 25, 53, 80, 110, 143, 443, 445, 3389, 587, 993, 995}
ExpertItems(packet) ==
    When(packet.rst, 1) + When(packet.fragment, 1) + When(packet.old_tls, 1)
    + When(packet.http_error, 1)
    + When(packet.app = "DNS" /\ packet.nxdomain, 1)
    + When(packet.app = "HTTP" /\ packet.direction = "OUTGOING", 1)
    + When(packet.dport \notin ExpertPorts \cup {0}, 1)
    + When(packet.app = "UNKNOWN" /\ packet.dport \in {22, 25, 53, 80, 443, 445, 3389}, 1)

\* The records a packet adds to the live ring.
Records(packet, incidents) ==
    <<"packet", "flow">> \o [k \in DOMAIN packet.alerts |-> "alert"]
    \o [k \in 1 .. ExpertItems(packet) |-> "expert_info"] \o [k \in 1 .. incidents |-> "incident"]

\* _incident_correlation.correlate: an alert may be part of an incident.
Correlate(w) ==
    /\ frame[w].at = "correlate"
    /\ signalled' = signalled \cup {frame[w].packet}
    /\ \E incidents \in 0 .. AtMost(1, Len(Mine(w).alerts)) :
          frame' = [frame EXCEPT ![w].at = "count", ![w].todo = Records(Mine(w), incidents)]
    /\ UNCHANGED <<now, session, lane, taken, flowVars, ringVars, attributionVars,
                   dashboard, reset, call, history>>

InFront(latest, items) == SubSeq(latest \o items, 1, AtMost(MaxItems, Len(latest) + Len(items)))

\* _state.add_packet: the list of recent packets, and the seven counters.
AddPacket(w) ==
    /\ frame[w].at = "count" /\ Onward(w, "alert")
    /\ dashboard' = [dashboard EXCEPT !.packets = InFront(<<frame[w].packet>>, @),
                                      !.counted = @ \cup {frame[w].packet}]
    /\ UNCHANGED <<now, session, lane, taken, flowVars, ringVars, attributionVars,
                   signalled, reset, call, history>>

\* _state.add_alerts: the first alert of the packet ends up in front.
AddAlerts(w) ==
    /\ frame[w].at = "alert" /\ Onward(w, "show")
    /\ dashboard' = [dashboard EXCEPT
                       !.alerts = InFront(AlertIds(frame[w].packet, Mine(w)), @),
                       !.total_alerts = @ + Len(Mine(w).alerts)]
    /\ UNCHANGED <<now, session, lane, taken, flowVars, ringVars, attributionVars,
                   signalled, reset, call, history>>

\* What a record shows: the worker's copy of the flow, or something about the packet.
Content(w) == [packet |-> frame[w].packet, era |-> frame[w].era, count |-> frame[w].flow]

\* One append to the live ring.  Its time is read before the lock.
Show(w) ==
    /\ frame[w].at = "show" /\ frame[w].todo # << >>
    /\ frame' = [frame EXCEPT ![w].todo = Tail(@), ![w].since = now]
    /\ \E time \in frame[w].since .. now :
          AppendRecord(Head(frame[w].todo), [time |-> time, content |-> Content(w)])
    /\ UNCHANGED <<now, session, lane, taken, flowVars, attributionVars, signalled,
                   dashboard, reset, call, history>>

\* Persisting and publishing are elsewhere.
End(w) ==
    /\ frame[w].at = "show" /\ frame[w].todo = << >>
    /\ frame' = [frame EXCEPT ![w] = Idle]
    /\ finished' = finished \cup {frame[w].packet}
    /\ UNCHANGED <<now, session, lane, taken, views, reset, call, disturbed, swept,
                   log, era, overlapped>>

-----------------------------------------------------------------------------
(* reset_session *)

InProcess == {frame[w].packet : w \in Workers} \ {0}

ResetDashboard ==
    /\ reset.at = "idle" /\ reset.count < session.resets
    /\ reset' = [at |-> "flows", count |-> reset.count + 1]
    /\ dashboard' = Empty
    /\ swept' = finished /\ disturbed' = disturbed \cup InProcess
    /\ UNCHANGED <<now, session, lane, taken, frame, flowVars, ringVars,
                   attributionVars, signalled, call, finished, log, era, overlapped>>

ResetFlowTable ==
    /\ reset.at = "flows" /\ reset' = [reset EXCEPT !.at = "ring"]
    /\ ResetFlows
    /\ log' = << >> /\ era' = era + 1 /\ overlapped' = (overlapped \/ call.at = "reading")
    /\ UNCHANGED <<now, session, lane, taken, frame, ringVars, attributionVars,
                   signalled, dashboard, call, finished, disturbed, swept>>

ResetRing ==
    /\ reset.at = "ring" /\ reset' = [reset EXCEPT !.at = "services"]
    /\ ClearRing
    /\ UNCHANGED <<now, session, lane, taken, frame, flowVars, attributionVars,
                   signalled, dashboard, call, history>>

ResetServices ==
    /\ reset.at = "services" /\ reset' = [reset EXCEPT !.at = "incidents"]
    /\ ResetAttribution
    /\ UNCHANGED <<now, session, lane, taken, frame, flowVars, ringVars, signalled,
                   dashboard, call, history>>

\* The last step; the answer only reads the dashboard's totals.
ResetIncidents ==
    /\ reset.at = "incidents" /\ reset' = [reset EXCEPT !.at = "idle"]
    /\ signalled' = {}
    /\ UNCHANGED <<now, session, lane, taken, frame, flowVars, ringVars,
                   attributionVars, dashboard, call, history>>

-----------------------------------------------------------------------------
(* Requests *)

\* get_conversation, first conversations(): a missing flow is a KeyError.
ListConversations ==
    /\ call.at = "idle" /\ session.readers > 0
    /\ IF ~ConversationsReadable THEN call' = [at |-> "failed", flows |-> {}]
       ELSE \E c \in DOMAIN conversations :
                call' = [at |-> "reading", flows |-> conversations[c]]
    /\ UNCHANGED <<now, session, lane, taken, frame, views, reset, history>>

\* Then get_flow() of each: one that is gone is None, whose timeline is asked for.
ReadFlow(flow) ==
    /\ call.at = "reading" /\ flow \in call.flows
    /\ call' = IF flow \notin DOMAIN flows THEN [at |-> "failed", flows |-> {}]
               ELSE IF call.flows = {flow} THEN [at |-> "answered", flows |-> {}]
               ELSE [call EXCEPT !.flows = @ \ {flow}]
    /\ UNCHANGED <<now, session, lane, taken, frame, views, reset, history>>

\* recent_live_records and the ring's metrics.
ReadRing ==
    /\ session.readers > 0 /\ QueryRing
    /\ UNCHANGED <<now, session, lane, taken, frame, flowVars, attributionVars,
                   signalled, dashboard, reset, call, history>>

Tick ==
    /\ now < session.duration /\ now' = now + 1
    /\ UNCHANGED <<session, lane, taken, frame, views, reset, call, history>>

-----------------------------------------------------------------------------
WorkerStep(w) ==
    \/ \E p \in Arrivals : Begin(w, p)
    \/ Enrich(w) \/ Ingest(w) \/ Correlate(w) \/ AddPacket(w) \/ AddAlerts(w)
    \/ Show(w) \/ End(w)

Reset == ResetDashboard \/ ResetFlowTable \/ ResetRing \/ ResetServices \/ ResetIncidents
Request == ListConversations \/ (\E flow \in DOMAIN flows \cup call.flows : ReadFlow(flow)) \/ ReadRing

SessionNext == (\E w \in Workers : WorkerStep(w)) \/ Reset \/ Request \/ Tick
SessionSpec == SessionInit /\ [][SessionNext]_sessionVars

-----------------------------------------------------------------------------
(* Properties *)

\* The packets of the log that belong to a flow.
LogOf(flow) ==
    LET part[k \in 0 .. Len(log)] ==
            IF k = 0 THEN << >>
            ELSE IF FlowId(traffic[log[k]]) = flow THEN Append(part[k - 1], log[k])
            ELSE part[k - 1]
    IN  part[Len(log)]
\* The sum of the points of the packets.
SumOver(ps, points) ==
    LET sum[k \in 0 .. Len(ps)] == IF k = 0 THEN 0 ELSE sum[k - 1] + points[ps[k]]
    IN  sum[Len(ps)]

\* What a flow should be after the packets of the log.
Expected(flow, id) ==
    LET ps == LogOf(id)
        first == traffic[ps[1]]
        earlier == {q \in ToSet(log) : \E i, j \in DOMAIN log :
                        log[i] = q /\ log[j] = ps[1] /\ i < j}
        length == [p \in Arrivals |-> traffic[p].length]
        inbound == [p \in Arrivals |->
                       When(DirectionFor(traffic[p]) = "inbound", traffic[p].length)]
        failure == [p \in Arrivals |->
                       When(AppProtocol(Visible(traffic[p])) = "DNS" /\ traffic[p].nxdomain, 1)]
    IN  /\ flow.packets = Len(ps)
        /\ flow.bytes = SumOver(ps, length) /\ flow.received = SumOver(ps, inbound)
        /\ flow.sent + flow.received = flow.bytes
        /\ flow.dns_failures = SumOver(ps, failure)
        /\ flow.app = AppProtocol(Visible(traffic[Last(ps)]))
        /\ flow.samples = SubSeq(ps, 1, AtMost(MaxSamples, Len(ps)))
        /\ ToSet(flow.alert_ids) = UNION {ToSet(AlertIds(p, traffic[p])) : p \in ToSet(ps)}
        /\ Len(flow.timeline) <= MaxTimeline /\ Last(flow.timeline).packet \in ToSet(ps)
        /\ flow.new_destination <=> /\ DirectionFor(first) = "outbound"
                                    /\ \A q \in earlier : traffic[q].dst # first.dst

\* The flow table is what one gets by ingesting the packets of the log one by one, in any
\* order of workers; conversations group exactly its flows, and both directions in one.
TableMatchesLog ==
    /\ DOMAIN flows = {FlowId(traffic[p]) : p \in ToSet(log)}
    /\ \A id \in DOMAIN flows : Expected(flows[id], id)
    /\ \A p \in ToSet(log) : FlowId(traffic[p]) \in conversations[ConversationOf(traffic[p])]
    /\ UNION {conversations[c] : c \in DOMAIN conversations} = DOMAIN flows

Ringed(c) == {ring[c][k].content.packet : k \in DOMAIN ring[c]}

\* Once a reset is over, nothing that was processed before it began is in any view.
ResetForgets ==
    reset.at = "idle" =>
        \A p \in swept :
            /\ p \notin dashboard.counted \cup ToSet(dashboard.packets)
            /\ \A k \in DOMAIN dashboard.alerts : dashboard.alerts[k][1] # p
            /\ p \notin ToSet(log) \cup signalled
            /\ \A c \in Categories : p \notin Ringed(c)

\* A packet that no reset has met is in every view: counted, in its flow, and in each list
\* unless as many newer ones as it holds have come.
SeenEverywhere ==
    \A p \in finished \ (disturbed \cup swept) :
        /\ p \in dashboard.counted /\ p \in ToSet(log) /\ p \in signalled
        /\ p \in ToSet(dashboard.packets) \/ Len(dashboard.packets) = MaxItems
        /\ \A c \in {"packet", "flow"} : p \in Ringed(c) \/ evicted[c] > 0

\* Every record added to the live ring is there, or counted as evicted, or was cleared; no
\* category exceeds its capacity.
RingAccounted ==
    /\ \A c \in Categories : Len(ring[c]) <= Capacity[c]
    /\ added = Cardinality(UNION {{c} \X (1 .. evicted[c] + cleared[c] + Len(ring[c])) :
                                  c \in Categories})

\* The counters of the attribution are those of the flows it remembers, each counted once,
\* and of those it has dropped since the last reset.
OutcomesCounted ==
    \A c \in Counted :
        counts[c] = Cardinality({k \in DOMAIN outcomes : c \in outcomes[k].classes})
                    + Cardinality({k \in DOMAIN uncached : c \in uncached[k]})

\* In the live ring the packets of a conversation, and the copies of a flow, are in the order
\* of their arrival: a later copy counts more packets, unless the table was reset in between.
StaysInOrder ==
    \A c \in {"packet", "flow"} : \A i, j \in DOMAIN ring[c] :
        LET a == ring[c][i].content
            b == ring[c][j].content
        IN  /\ i < j /\ ConversationOf(traffic[a.packet]) = ConversationOf(traffic[b.packet])
            => /\ a.packet < b.packet
               /\ FlowId(traffic[a.packet]) = FlowId(traffic[b.packet])
                  => a.era < b.era \/ (a.era = b.era /\ a.count < b.count)

\* The views of a session agree with each other and with what was processed.
ViewsAgree == ResetForgets /\ SeenEverywhere /\ StaysInOrder

\* The counters of the live ring and of the attribution agree with what these hold.
CountersAgree == RingAccounted /\ OutcomesCounted

\* A request for a conversation fails only if the flow table was reset while it was read.
ConversationAnswered == call.at = "failed" => overlapped

\* The risk of a flow falls only when its packets are recognised as another protocol.
RiskFallsOnlyWhenRecognised ==
    [][\A id \in DOMAIN flows \cap DOMAIN flows' :
          /\ flows'[id].score < flows[id].score
          => flows'[id].app # flows[id].app \/ era' # era]_sessionVars

=============================================================================
