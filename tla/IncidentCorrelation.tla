------------------------- MODULE IncidentCorrelation ------------------------
(***************************************************************************)
(* IncidentCorrelationEngine                                               *)
(* (backend/app/services/incident_correlation.py): signals of one type and *)
(* source wait until there is enough evidence, then become an incident     *)
(* that later signals join.  Everything is bounded and ages out.           *)
(*                                                                         *)
(* A flow worker derives the signals of a packet, from its alerts, its     *)
(* flow and the remarks on it, and ingests them one by one; other workers  *)
(* do so at the same time, API requests list, a reset clears.  Each signal *)
(* and each request is one section of _lock and so one action.  The        *)
(* timestamp of a captured packet has no date, so _parse_time takes the    *)
(* time at which the signal is ingested: signals are never late, provided  *)
(* the wall clock is not set back.                                         *)
(*                                                                         *)
(* A packet has a source host; a context (its flow, domain, service and    *)
(* destination, which differ together); what its service is recognised by  *)
(* (encrypted, unknown) and the size of its flow; and for each of its      *)
(* alerts, the flow and each remark what the words are about, and a        *)
(* severity.  Left out: confidence, texts, the last hundred of each list,  *)
(* and signals the engine refuses or cannot read, which correlate() does   *)
(* not make.                                                               *)
(***************************************************************************)
EXTENDS Integers, Sequences, FiniteSets, SequencesExt

CONSTANTS Correlators,  \* the flow workers
          Evidence,     \* the packets that may come, with what is known of them
          NoHost,       \* the source host of a packet without one
          Together,     \* NETBOT_INCIDENT_CORRELATION_WINDOW_SEC
          Retention,    \* NETBOT_INCIDENT_RETENTION_HOURS
          MaxOpen,      \* NETBOT_INCIDENT_MAX_OPEN
          MaxSignals,   \* NETBOT_INCIDENT_MAX_SIGNALS_PER_INCIDENT
          HighAt, CriticalAt,   \* the two signal thresholds
          MinSeverity,  \* NETBOT_INCIDENT_MIN_SEVERITY
          Horizon,      \* bound: how long the clock runs
          Ingested      \* bound: how many signals come

Severity == 0 .. 4      \* info, low, medium, high, critical
High == 3

\* The constructor's minimums; what is known of a packet.  A flow is not called like a host.
ASSUME TunablesAssumption ==
    /\ {Together, Retention, MaxOpen, HighAt, CriticalAt} \subseteq Nat \ {0}
    /\ MaxSignals \in Nat \ {0, 1} /\ MinSeverity \in Severity /\ Horizon \in Nat
ASSUME EvidenceAssumption ==
    \A packet \in Evidence :
        /\ packet.alerts \in Seq([about : SUBSET STRING, severity : Severity])
        /\ packet.remarks \in Seq([about : SUBSET STRING, severity : Severity])
        /\ packet.flow \in [about : SUBSET STRING, severity : Severity]
        /\ \A other \in Evidence : packet.context # other.host

VARIABLES
    instant,    \* the clock
    todo,       \* per worker: the signals of its packet still to be ingested
    incidents,  \* _incidents, the last updated last
    pending,    \* _pending, the last used key last
    created,    \* _created_total; also names the incidents
    received, correlated, ignored, dropped,     \* the _signals_ counters
    expired,    \* history: signals that aged out or were reset, waiting or in an incident
    evicted     \* history: the signal counts of the incidents evicted

incidentVars == <<instant, todo, incidents, pending, created, received, correlated, ignored,
                  dropped, expired, evicted>>

IncidentsInit ==
    /\ instant = 0 /\ todo = [w \in Correlators |-> << >>]
    /\ incidents = << >> /\ pending = << >> /\ created = 0
    /\ received = 0 /\ correlated = 0 /\ ignored = 0 /\ dropped = 0
    /\ expired = 0 /\ evicted = << >>

LastOf(n, s) == IF Len(s) <= n THEN s ELSE SubSeq(s, Len(s) - n + 1, Len(s))
\* What a sequence has at some places, in its order.
Picked(s, places) ==
    LET upTo[k \in 0 .. Len(s)] == IF k = 0 THEN << >>
                                   ELSE IF k \in places THEN Append(upTo[k - 1], s[k])
                                   ELSE upTo[k - 1]
    IN  upTo[Len(s)]
Total(s) == LET sum[k \in 0 .. Len(s)] == IF k = 0 THEN 0 ELSE sum[k - 1] + s[k]
            IN  sum[Len(s)]
SignalCounts(is) == [k \in DOMAIN is |-> is[k].count]
Waiting(ps) == [k \in DOMAIN ps |-> Len(ps[k].signals)]

-----------------------------------------------------------------------------
(* correlate: the signals of a packet *)

\* The kinds of incidents, the first that fits being taken.
Types == <<"exfiltration", "scan", "dns", "beaconing", "unusual">>

Fits(type, about, packet) ==
    LET unknown == packet.unknown \/ "unknown encrypted" \in about
    IN  CASE type = "exfiltration" -> "outbound" \in about \/ packet.large
          [] type = "scan" -> "scan" \in about
          [] type = "dns" -> "dns" \in about
          [] type = "beaconing" -> packet.encrypted /\ unknown
          [] type = "unusual" -> unknown \/ "rare" \in about

\* _classify: what words and a packet point to, if anything.
Fitting(about, packet) == {n \in DOMAIN Types : Fits(Types[n], about, packet)}
Classified(about, packet) ==
    Types[CHOOSE n \in Fitting(about, packet) : \A m \in Fitting(about, packet) : n <= m]

\* _derive_signals looks at the alerts, at the flow, and at the first five remarks.
Noted(origin, items) == [k \in DOMAIN items |-> [origin |-> origin, about |-> items[k].about,
                                                 severity |-> items[k].severity]]
Considered(packet) ==
    Noted("alert", packet.alerts) \o Noted("flow", <<packet.flow>>)
    \o Noted("expert_info", SubSeq(packet.remarks, 1, Min({Len(packet.remarks), 5})))

Derived(packet) ==
    LET items == Considered(packet)
        telling == Picked(items, {k \in DOMAIN items : Fitting(items[k].about, packet) # {}})
    IN  [k \in DOMAIN telling |->
            [type |-> Classified(telling[k].about, packet), host |-> packet.host,
             context |-> packet.context, origin |-> telling[k].origin,
             severity |-> telling[k].severity, time |-> 0]]

Coming == FoldFunction(LAMBDA signals, sum : Len(signals) + sum, 0, todo)

Correlate(w, packet) ==
    /\ todo[w] = << >> /\ Derived(packet) # << >>
    /\ received + Coming + Len(Derived(packet)) <= Ingested
    /\ todo' = [todo EXCEPT ![w] = Derived(packet)]
    /\ UNCHANGED <<instant, incidents, pending, created, received, correlated, ignored, dropped,
                   expired, evicted>>

-----------------------------------------------------------------------------
(* Ageing *)

\* Takes what is stale from the front of a deque, as far as the first that is not.
NotStale(signals) ==
    LET kept == {k \in DOMAIN signals : signals[k].time + Together >= instant}
    IN  IF kept = {} THEN << >>
        ELSE SubSeq(signals, CHOOSE k \in kept : \A j \in kept : k <= j, Len(signals))

\* What _cleanup_locked leaves of the incidents, and of the waiting signals.
KeptIncidents == Picked(incidents, {k \in DOMAIN incidents :
                                        incidents[k].last + Retention >= instant})
Aged == [k \in DOMAIN pending |-> [pending[k] EXCEPT !.signals = NotStale(@)]]
KeptPending == Picked(Aged, {k \in DOMAIN Aged : Aged[k].signals # << >>})

Expire == expired' = expired
                     + (Total(SignalCounts(incidents)) - Total(SignalCounts(KeptIncidents)))
                     + (Total(Waiting(pending)) - Total(Waiting(KeptPending)))

-----------------------------------------------------------------------------
(* Incidents *)

\* The severities an incident is graded by.  Mutant: the newest one only.
Newest(timeline) == {timeline[Len(timeline)].severity}
Remembered(timeline) == {timeline[k].severity : k \in DOMAIN timeline}

\* The grade an incident has from its number of signals and the worst on its timeline: the
\* highest it has earned, and no less than the least severity there is.
SignalsFor == <<1, 3, HighAt, CriticalAt>>
Graded(count, timeline) ==
    Max({MinSeverity} \cup {n \in 1 .. 4 : \/ count >= SignalsFor[n]
                                          \/ \E severity \in Remembered(timeline) : severity >= n})

Named(host) == {host} \ {NoHost}

\* The timeline, cut to its newest entries.
KeepNewest(timeline) == LastOf(MaxSignals, timeline)

\* _apply_signal.
Apply(incident, s) ==
    LET timeline == KeepNewest(Append(incident.timeline,
                                      [time |-> s.time, severity |-> s.severity]))
        count == incident.count + 1
    IN  [incident EXCEPT !.count = count, !.timeline = timeline, !.last = s.time,
                         !.hosts = @ \cup Named(s.host), !.contexts = @ \cup {s.context},
                         !.severity = Graded(count, timeline)]

\* A new incident, before the signals that waited are applied to it.
Blank(type) == [id |-> created + 1, type |-> type, hosts |-> {}, contexts |-> {}, last |-> 0,
                count |-> 0, timeline |-> << >>, severity |-> 1]
Opened(signals) ==
    LET applied[k \in 0 .. Len(signals)] == IF k = 0 THEN Blank(signals[1].type)
                                            ELSE Apply(applied[k - 1], signals[k])
    IN  applied[Len(signals)]

\* Whether two signals of a host are enough to join without a context in common.
\* Mutant: it takes more than two.
MoreThanTwo(incident) == incident.count > 2
Enough(incident) == incident.count >= 2

Matches(incident, s) ==
    /\ incident.type = s.type /\ incident.last + Together >= s.time
    /\ s.host # NoHost /\ s.host \in incident.hosts
    /\ s.context \in incident.contexts \/ Enough(incident)

\* The incidents a signal may join; it joins the one updated last.
Joinable(s) == {k \in DOMAIN KeptIncidents : Matches(KeptIncidents[k], s)}

-----------------------------------------------------------------------------
(* ingest_signal *)

Arrives(s) == [s EXCEPT !.time = instant]

\* A signal waits with those of its type and source; without a host, of its flow.
PendingKey(s) == <<s.type, IF s.host # NoHost THEN s.host ELSE s.context>>

PlaceOf(s) == SelectInSeq(KeptPending, LAMBDA p : p.key = PendingKey(s))
Others(s) == IF PlaceOf(s) = 0 THEN KeptPending ELSE RemoveAt(KeptPending, PlaceOf(s))
Earlier(s) == IF PlaceOf(s) = 0 THEN << >> ELSE KeptPending[PlaceOf(s)].signals
Deque(s) == LastOf(MaxSignals, Append(Earlier(s), s))

\* The other keys, without the least recently used ones over the limit.
OthersKept(s) == LastOf(MaxOpen * 2 - 1, Others(s))

\* The signals dropped with their key, and from a full deque.
DroppedWithKey(s) == Total(Waiting(Others(s))) - Total(Waiting(OthersKept(s)))
DroppedFromDeque(s) == Len(Earlier(s)) + 1 - Len(Deque(s))

ReachesThreshold(signals) ==
    /\ Len(signals) >= 2
    /\ \/ \E j, k \in DOMAIN signals : signals[j].origin # signals[k].origin
       \/ \E k \in DOMAIN signals : signals[k].severity >= High
       \/ Len(signals) >= 3

\* The deque a new incident leaves behind: its key stays until the next clean-up.
\* Mutant: its signals stay, too.
Kept(signals) == signals
Emptied(signals) == << >>

Receive(w) == todo' = [todo EXCEPT ![w] = Tail(@)] /\ received' = received + 1 /\ Expire

Join(w, s) ==
    /\ Receive(w) /\ Joinable(s) # {}
    /\ LET k == CHOOSE k \in Joinable(s) : \A j \in Joinable(s) : j <= k
       IN  incidents' = Append(RemoveAt(KeptIncidents, k), Apply(KeptIncidents[k], s))
    /\ pending' = KeptPending
    /\ correlated' = correlated + 1
    /\ UNCHANGED <<instant, created, ignored, dropped, evicted>>

Wait(w, s) ==
    /\ Receive(w) /\ Joinable(s) = {} /\ ~ReachesThreshold(Deque(s))
    /\ pending' = Append(OthersKept(s), [key |-> PendingKey(s), signals |-> Deque(s)])
    /\ incidents' = KeptIncidents
    /\ ignored' = ignored + 1
    /\ dropped' = dropped + DroppedWithKey(s) + DroppedFromDeque(s)
    /\ UNCHANGED <<instant, created, correlated, evicted>>

\* _create_locked: the incidents over the limit go, counted as one dropped signal each.
Open(w, s) ==
    /\ Receive(w) /\ Joinable(s) = {} /\ ReachesThreshold(Deque(s))
    /\ LET room == LastOf(MaxOpen - 1, KeptIncidents)
           gone == SubSeq(KeptIncidents, 1, Len(KeptIncidents) - Len(room))
       IN  /\ incidents' = Append(room, Opened(Deque(s)))
           /\ evicted' = evicted \o SignalCounts(gone)
           /\ dropped' = dropped + DroppedWithKey(s) + DroppedFromDeque(s) + Len(gone)
    /\ pending' = Append(OthersKept(s), [key |-> PendingKey(s), signals |-> Emptied(Deque(s))])
    /\ created' = created + 1 /\ correlated' = correlated + 1
    /\ UNCHANGED <<instant, ignored>>

\* list_incidents cleans up before it answers.
List ==
    /\ Expire /\ incidents' = KeptIncidents /\ pending' = KeptPending
    /\ UNCHANGED <<instant, todo, created, received, correlated, ignored, dropped, evicted>>

\* reset() forgets everything but the counters.
Reset ==
    /\ expired' = expired + Total(SignalCounts(incidents)) + Total(Waiting(pending))
    /\ incidents' = << >> /\ pending' = << >>
    /\ UNCHANGED <<instant, todo, created, received, correlated, ignored, dropped, evicted>>

Elapse ==
    /\ instant < Horizon /\ instant' = instant + 1
    /\ UNCHANGED <<todo, incidents, pending, created, received, correlated, ignored, dropped,
                   expired, evicted>>

Ingest(w) ==
    /\ todo[w] # << >>
    /\ LET s == Arrives(todo[w][1]) IN Join(w, s) \/ Wait(w, s) \/ Open(w, s)

IncidentsNext ==
    \/ \E w \in Correlators : Ingest(w) \/ \E packet \in Evidence : Correlate(w, packet)
    \/ List \/ Reset \/ Elapse

IncidentsSpec == IncidentsInit /\ [][IncidentsNext]_incidentVars

-----------------------------------------------------------------------------
(* Properties *)

\* Every signal received is in one incident, or waits under one key, or aged out, or was
\* counted as dropped: no eviction, of a deque, of a key or of an incident, is silent, and
\* no signal is both waiting and in an incident.  Each was answered in exactly one way.
SignalsAccounted ==
    /\ received = correlated + ignored
    /\ received = Total(SignalCounts(incidents)) + Total(Waiting(pending)) + expired
                  + Total(evicted) + (dropped - Len(evicted))

\* The signals of an incident follow each other within the correlation window.
RelatedInTime ==
    \A k \in DOMAIN incidents : LET line == incidents[k].timeline IN
        \A j \in 2 .. Len(line) : line[j].time <= line[j - 1].time + Together

\* Signals of different sources are never in one incident, and no single one makes one.
SourcesSeparated ==
    \A k \in DOMAIN incidents : Cardinality(incidents[k].hosts) <= 1 /\ incidents[k].count >= 2

\* A source has one incident of a type within the window: the later signals joined it.
OnePerSource ==
    \A j, k \in DOMAIN incidents :
        /\ j # k /\ incidents[j].type = incidents[k].type
        /\ incidents[j].hosts \cap incidents[k].hosts # {}
        => incidents[j].last + Together < incidents[k].last
           \/ incidents[k].last + Together < incidents[j].last

\* What the grouping of alerts into incidents promises.
GroupingSound == RelatedInTime /\ SourcesSeparated /\ OnePerSource

\* An incident is never downgraded, although its grade is computed again from a timeline that
\* forgets its oldest entries: by then it has enough signals to be critical.  This needs
\* timelines as long as the critical threshold, as they are by default.
SeverityNeverFalls ==
    [][MaxSignals >= CriticalAt =>
        \A j \in DOMAIN incidents : \A k \in DOMAIN incidents' :
            incidents[j].id = incidents'[k].id
            => incidents'[k].severity >= incidents[j].severity]_incidentVars

=============================================================================
