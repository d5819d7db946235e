----------------------------- MODULE FlowEngine -----------------------------
(***************************************************************************)
(* FlowEngine (core/flow_engine.py) and what it is made of: the flow and   *)
(* the conversation of a packet, the protocol recognised in it             *)
(* (core/protocol_intelligence.py) and the risk of a flow                  *)
(* (core/flow_risk.py).                                                    *)
(*                                                                         *)
(* ingest() and reset() are one section of _lock each, and one operator    *)
(* each here: LiveSession runs them.  A flow and a conversation are named  *)
(* by what their identifiers are hashes of.                                *)
(*                                                                         *)
(* A packet is a record: src, dst, sport, dport, proto; direction, as the  *)
(* parser found it; app, the protocol it is declared to be; decoded, the   *)
(* protocols whose fields are filled in; payload, the protocol its text    *)
(* begins like ("" without any text); metadata, the values of its          *)
(* protocol's fields; length; nxdomain; unusual, an unusual port;          *)
(* sensitive, the process of a shell; alerts, their severities.            *)
(* Left out: texts, confidence, timestamps (a captured packet has the time *)
(* of day only, and duration_ms is 0) and geography.                       *)
(***************************************************************************)
EXTENDS Integers, Sequences, FiniteSets, SequencesExt

CONSTANTS LocalHosts,       \* the addresses is_local_ip accepts
          PortProtocols,    \* _PORT_PROTOCOLS, as a function
          MaxSamples,       \* _MAX_SAMPLE_PACKETS
          MaxTimeline,      \* _MAX_TIMELINE_EVENTS
          ManyPackets, ManyBytes    \* score_flow: 1000 packets, 50 MiB

ASSUME FlowAssumption ==
    MaxSamples \in Nat /\ MaxTimeline \in Nat \ {0} /\ {ManyPackets, ManyBytes} \subseteq Nat

VARIABLES flows,            \* _flows
          conversations,    \* _conversations
          seen              \* _seen_destinations

flowVars == <<flows, conversations, seen>>

FlowInit == flows = << >> /\ conversations = << >> /\ seen = {}

-----------------------------------------------------------------------------
(* Which flow *)

DirectionFor(packet) ==
    LET src == packet.src \in LocalHosts
        dst == packet.dst \in LocalHosts
    IN  CASE packet.direction = "OUTGOING" -> "outbound"
          [] packet.direction = "INCOMING" -> "inbound"
          [] src /\ dst -> "internal"
          [] src /\ ~dst -> "outbound"
          [] dst /\ ~src -> "inbound"
          [] OTHER -> "local"

FlowId(packet) == <<packet.src, packet.dst, packet.sport, packet.dport, packet.proto,
                    DirectionFor(packet)>>

\* The endpoints are sorted: both directions of a conversation have one name.
ConversationOf(packet) ==
    <<{<<packet.src, packet.sport>>, <<packet.dst, packet.dport>>}, packet.proto>>

-----------------------------------------------------------------------------
(* analyze_protocol *)

Declared == {"DNS", "HTTP", "TLS", "SSH", "RDP", "SMB", "SMTP", "IMAP", "POP3", "ICMP"}
OverTLS == {"HTTPS", "DNS-OVER-TLS", "SMTPS", "IMAPS", "POP3S"}
Signatures == {"SSH", "HTTP", "SMTP", "POP3", "IMAP", "RDP", "SMB"}

\* The port that names a service: the destination's before the source's.
ServicePorts(packet) ==
    SelectSeq(<<packet.dport, packet.sport>>, LAMBDA port : port \in DOMAIN PortProtocols)

\* The protocol a packet is declared as, else decoded as, else begins like, else is sent to.
AppProtocol(packet) ==
    CASE packet.app \in OverTLS -> "TLS"
      [] packet.app \in Declared -> packet.app
      [] OTHER ->
         CASE "DNS" \in packet.decoded -> "DNS"
           [] "DNS" \notin packet.decoded /\ "HTTP" \in packet.decoded -> "HTTP"
           [] packet.decoded = {"TLS"} -> "TLS"
           [] packet.decoded = {} /\ packet.payload \in Signatures -> packet.payload
           [] OTHER -> IF ServicePorts(packet) # << >>
                       THEN PortProtocols[ServicePorts(packet)[1]]
                       ELSE IF packet.proto = "ICMP" THEN "ICMP" ELSE "UNKNOWN"

-----------------------------------------------------------------------------
(* score_flow *)

Weight == [critical |-> 34, high |-> 20, medium |-> 10, low |-> 3]
Severities == DOMAIN Weight
Common == {"DNS", "HTTP", "TLS", "SSH", "ICMP"}

AtMost(limit, n) == IF n < limit THEN n ELSE limit
When(condition, points) == IF condition THEN points ELSE 0

\* What its alerts are worth: no more than two of a severity count.
PointsFor(counts, s) == AtMost(2 * Weight[s], counts[s] * Weight[s])
AlertPoints(counts) ==
    PointsFor(counts, "critical") + PointsFor(counts, "high") + PointsFor(counts, "medium")
    + PointsFor(counts, "low") + When(counts["critical"] + counts["high"] > 0, 10)

ScoreFlow(flow) ==
    LET outbound == flow.direction = "outbound"
        external == flow.direction \in {"inbound", "outbound"}
        unknown == flow.app = "UNKNOWN" /\ external
    IN  AtMost(100, AlertPoints(flow.alert_counts)
                    + When(unknown, 22)
                    + When(~unknown /\ outbound /\ flow.app \notin Common, 9)
                    + When(flow.unusual, 14)
                    + When(flow.packets >= ManyPackets, 12)
                    + When(flow.bytes >= ManyBytes, 12)
                    + When(flow.dns_failures >= 3, 20)
                    + When(outbound /\ flow.new_destination, 10)
                    + When(outbound /\ flow.sensitive, 18))

-----------------------------------------------------------------------------
(* ingest.  p is the packet's number, which names it and its alerts. *)

Event(type, p, metadata) == [type |-> type, packet |-> p, metadata |-> metadata]

\* The first outbound packet to a destination since the last reset.
Unseen(packet) == DirectionFor(packet) = "outbound" /\ packet.dst \notin seen

NewFlow(p, packet) ==
    [conversation |-> ConversationOf(packet), direction |-> DirectionFor(packet),
     app |-> "", unusual |-> packet.unusual, sensitive |-> packet.sensitive,
     packets |-> 0, bytes |-> 0, sent |-> 0, received |-> 0,
     alert_counts |-> [s \in Severities |-> 0], alert_ids |-> << >>, samples |-> << >>,
     timeline |-> <<Event("flow_started", p, "")>>, dns_failures |-> 0,
     new_destination |-> Unseen(packet), service |-> "", score |-> 0]

\* The protocol is that of the latest packet.
Detected(flow, p, packet) ==
    IF flow.app = AppProtocol(packet) THEN flow.timeline
    ELSE Append(flow.timeline, Event("protocol_detected", p, AppProtocol(packet)))

\* A metadata event, unless the last event of the timeline shows the same metadata.
Observed(timeline, p, packet) ==
    IF AppProtocol(packet) \in {"DNS", "HTTP", "TLS"}
       /\ Last(timeline).metadata # packet.metadata
    THEN Append(timeline, Event("metadata", p, packet.metadata))
    ELSE timeline

Alarms(p, packet) == [k \in DOMAIN packet.alerts |-> Event("alert_triggered", p, "")]
AlertIds(p, packet) == [k \in DOMAIN packet.alerts |-> <<p, k>>]
Surprise(flow, p, created) ==
    IF created /\ flow.new_destination THEN <<Event("unusual_destination", p, "")>> ELSE << >>

Newest(n, events) == IF Len(events) <= n THEN events
                     ELSE SubSeq(events, Len(events) - n + 1, Len(events))

AlertsOf(packet, s) == Cardinality({k \in DOMAIN packet.alerts : packet.alerts[k] = s})
\* Mutant: the alerts of the latest packet only.
RaisedLast(counts, packet) == [s \in Severities |-> AlertsOf(packet, s)]
Raised(counts, packet) == [s \in Severities |-> counts[s] + AlertsOf(packet, s)]

Updated(flow, p, packet, service, created) ==
    LET inbound == DirectionFor(packet) = "inbound"
        events == Observed(Detected(flow, p, packet), p, packet)
                  \o Alarms(p, packet) \o Surprise(flow, p, created)
        next == [flow EXCEPT
                 !.packets = @ + 1, !.bytes = @ + packet.length, !.service = service,
                 !.sent = IF inbound THEN @ ELSE @ + packet.length,
                 !.received = IF inbound THEN @ + packet.length ELSE @,
                 !.samples = IF Len(@) < MaxSamples THEN Append(@, p) ELSE @,
                 !.app = AppProtocol(packet),
                 !.dns_failures = IF AppProtocol(packet) = "DNS" /\ packet.nxdomain
                                  THEN @ + 1 ELSE @,
                 !.alert_counts = Raised(@, packet), !.alert_ids = @ \o AlertIds(p, packet),
                 !.timeline = Newest(MaxTimeline, events)]
    IN  [next EXCEPT !.score = ScoreFlow(next)]

\* Mutant: only outbound destinations are noted.
OutboundNoted(packet) == IF DirectionFor(packet) = "outbound" THEN {packet.dst} ELSE {}

Noted(packet) == {packet.dst}

IngestedFlow(p, packet, service) ==
    LET created == FlowId(packet) \notin DOMAIN flows
        flow == IF created THEN NewFlow(p, packet) ELSE flows[FlowId(packet)]
    IN  Updated(flow, p, packet, service, created)

\* f with y at x.
Including(f, x, y) == [z \in DOMAIN f \cup {x} |-> IF z = x THEN y ELSE f[z]]

IngestFlow(p, packet, service) ==
    LET flow == FlowId(packet)
        conversation == ConversationOf(packet)
        known == IF conversation \in DOMAIN conversations THEN conversations[conversation]
                 ELSE {}
    IN  /\ flows' = Including(flows, flow, IngestedFlow(p, packet, service))
        /\ conversations' = IF flow \in DOMAIN flows THEN conversations
                            ELSE Including(conversations, conversation, known \cup {flow})
        /\ seen' = seen \cup Noted(packet)

-----------------------------------------------------------------------------
(* reset, and the readers *)

\* Mutant: the conversations are kept.
ConversationsKept == conversations
ConversationsLeft == << >>

ResetFlows == flows' = << >> /\ seen' = {} /\ conversations' = ConversationsLeft

\* conversations() looks up every flow of every conversation: a KeyError if one is missing.
ConversationsReadable == \A c \in DOMAIN conversations : conversations[c] \subseteq DOMAIN flows

=============================================================================
