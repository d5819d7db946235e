------------------------- MODULE ServiceAttribution -------------------------
(***************************************************************************)
(* ServiceAttributionEngine (backend/app/services/service_attribution.py): *)
(* the service behind a packet, from the names visible in it and from the  *)
(* owner of its address, and the counters of how the flows were judged.    *)
(*                                                                         *)
(* The fingerprints are functions from the domains and organizations they  *)
(* match.  The cache of DNS answers is left out: it fills from fields      *)
(* (dns_answer_ips, resolved_ips, dns_answers, dns_answer_ip) that no code *)
(* of the program sets in a captured packet, so it stays empty and         *)
(* _recent_domains finds nothing.  So are the texts of the reasons, the    *)
(* application's name, proxies and latencies.                              *)
(***************************************************************************)
EXTENDS Integers, Sequences, FiniteSets, SequencesExt

CONSTANTS ServiceOf,        \* the service a domain matches (_match)
          OwnerOf,          \* what an organization matches: [service, cdn] (_match_org)
          OutcomeCacheMax   \* flow_metric_cache_max

ASSUME CacheAssumption == OutcomeCacheMax \in Nat \ {0}

VARIABLES outcomes,     \* _flow_outcomes: [flow, classes], the oldest first
          counts,       \* the counters of metrics(), by what they count
          uncached      \* history: the outcomes dropped from the cache since the reset

attributionVars == <<outcomes, counts, uncached>>

Counted == {"unknown", "attributed", "high", "medium", "low", "encrypted_unknown", "cdn_only"}
Nothing == [c \in Counted |-> 0]

AttributionInit == outcomes = << >> /\ counts = Nothing /\ uncached = << >>

-----------------------------------------------------------------------------
(* _attribute *)

\* The names that a packet shows, with their sources.
Candidates(packet) ==
    SelectSeq(<<[source |-> "http_host", domain |-> packet.host],
                [source |-> "tls_sni", domain |-> packet.sni],
                [source |-> "dns", domain |-> packet.query]>>,
              LAMBDA c : c.domain \in DOMAIN ServiceOf)

BaseScore == [http_host |-> 90, tls_sni |-> 80, dns |-> 60]

\* The candidates come in the order of their sources' priority.
Selected(evidence) == evidence[1]

Agreeing(evidence) == {c \in ToSet(evidence) :
                          ServiceOf[c.domain] = ServiceOf[Selected(evidence).domain]}
Clamped(score) == IF score < 0 THEN 0 ELSE IF score > 100 THEN 100 ELSE score

EvidenceScore(packet, evidence) ==
    LET chosen == Selected(evidence)
        others == {c.source : c \in Agreeing(evidence)} \ {chosen.source}
        owned == packet.org \in DOMAIN OwnerOf
                 /\ OwnerOf[packet.org].service = ServiceOf[chosen.domain]
        conflicting == ToSet(evidence) # Agreeing(evidence)
    IN  Clamped(BaseScore[chosen.source]
                + (IF "dns" \in others THEN 10 ELSE 0) + 15 * Cardinality(others \ {"dns"})
                + (IF owned THEN 15 ELSE 0) - (IF conflicting THEN 20 ELSE 0))

\* The destination's port, or the source's if there is none.
Encrypted(packet) ==
    \/ packet.app \in {"TLS", "HTTPS", "QUIC"}
    \/ (IF packet.dport # 0 THEN packet.dport ELSE packet.sport) \in {443, 8443, 9443}

Confidence(score) == CASE score >= 80 -> "high" [] score \in 50 .. 79 -> "medium"
                       [] score < 50 -> "low"

FromNames(packet, evidence) ==
    [service |-> ServiceOf[Selected(evidence).domain], domain |-> Selected(evidence).domain,
     unknown |-> FALSE, confidence |-> Confidence(EvidenceScore(packet, evidence))]

FromOwner(owner) ==
    [service |-> IF owner.cdn THEN "CDN only" ELSE owner.service, domain |-> "",
     unknown |-> FALSE, confidence |-> "low"]

UnknownResult(packet) ==
    [service |-> "Unknown", domain |-> "", unknown |-> TRUE,
     confidence |-> IF Encrypted(packet) THEN "low" ELSE "unknown"]

\* Names first, then the owner of the address, then nothing.
Attribution(packet) ==
    IF Candidates(packet) # << >> THEN FromNames(packet, Candidates(packet))
    ELSE IF packet.org \in DOMAIN OwnerOf THEN FromOwner(OwnerOf[packet.org])
    ELSE UnknownResult(packet)

-----------------------------------------------------------------------------
(* _record_result *)

\* What an outcome is counted as.
Classes(packet, result) ==
    {IF result.unknown THEN "unknown" ELSE "attributed"}
    \cup ({result.confidence} \cap {"high", "medium", "low"})
    \cup (IF result.unknown /\ Encrypted(packet) THEN {"encrypted_unknown"} ELSE {})
    \cup (IF result.service = "CDN only" THEN {"cdn_only"} ELSE {})

Adjusted(counters, classes, delta) ==
    [c \in Counted |-> counters[c] + (IF c \in classes THEN delta ELSE 0)]

WithoutEarlier(known) == IF known = 0 THEN counts
                         ELSE Adjusted(counts, outcomes[known].classes, -1)

\* A flow is counted once, as its latest outcome, while the cache holds it.
\* (_flow_metric_key: the packet's addresses, ports, protocol and direction.)
MetricKey(packet) == <<packet.src, packet.dst, packet.sport, packet.dport, packet.proto,
                       packet.direction>>
RecordResult(packet) ==
    LET flow == MetricKey(packet)
        classes == Classes(packet, Attribution(packet))
        known == SelectInSeq(outcomes, LAMBDA o : o.flow = flow)
        moved == Append(IF known = 0 THEN outcomes ELSE RemoveAt(outcomes, known),
                        [flow |-> flow, classes |-> classes])
        full == Len(moved) > OutcomeCacheMax
    IN  IF known # 0 /\ outcomes[known].classes = classes
        THEN UNCHANGED attributionVars
        ELSE /\ outcomes' = IF full THEN Tail(moved) ELSE moved
             /\ uncached' = IF full THEN Append(uncached, moved[1].classes) ELSE uncached
             /\ counts' = Adjusted(WithoutEarlier(known), classes, 1)

ResetAttribution == outcomes' = << >> /\ counts' = Nothing /\ uncached' = << >>

=============================================================================
