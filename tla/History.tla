-------------------------------- MODULE History --------------------------------
(***************************************************************************)
(* The history view (backend/app/services/history_service.py) over its two *)
(* sources: the recent rows in memory and the SQLite tables, with the      *)
(* batches that fill the tables and the retention clean-up                 *)
(* (sniffer_persistence.py, core/netbotpro_logging/storage.py).            *)
(*                                                                         *)
(* A story says what may be captured and who reads: readers walk through   *)
(* the pages of the packet list or ask for one packet, while rows are      *)
(* captured, written, deleted, and the switch for persisting is turned.    *)
(* The context of every packet and alert is a state function, see          *)
(* FlowContext.                                                            *)
(***************************************************************************)
EXTENDS FlowContext, SequencesExt

CONSTANTS
    Readers,
    Stories,        \* Records: kinds of packets and their number (length), firstId,
                    \* persisting, flows, retention (seconds or 0), toggles, restarts,
                    \* resets, steps and end of the clock (until); of (whether lists are of
                    \* packets or of alerts) and only (their filter: a field, or remote,
                    \* with the value looked for); plan (the requests of each reader: 0
                    \* for a walk through a list, or the id of a packet).
    MaxRecent,      \* rows kept in memory (300)
    PageSize,       \* limit of a list request (50)
    ListTTL,        \* life of a cached page (1 s) and of a cached packet (2.5 s)
    DetailTTL,
    ListEntries,    \* cached pages (48) and packets (256)
    DetailEntries,
    CleanupEvery    \* time between clean-ups (60 s)

VARIABLES
    story, log, moment, changes,        \* the story; all packets captured (no code variable);
                                        \* the second; changes of a source
    turned, restarted, cleared,         \* toggles, restarts and resets so far
    seq, recent, recentAlerts,          \* capture number; rows in memory, newest first
    queue, writer, persisting,          \* units to write; the writer's place; the switch
    packetRows, alertRows, keys, dated, cleanedAt,  \* the tables, their last keys and which
                                                    \* of them have created_at
    cache, reader

sourceVars == <<recent, recentAlerts, packetRows, alertRows>>
storyVars == <<log, turned, restarted, cleared, seq>>
historyVars == <<story, moment, changes, storyVars, sourceVars, queue, writer, persisting, keys,
                 dated, cleanedAt, cache, reader>>

Nobody == [own |-> 0]
NoAnswer == [items |-> << >>, all |-> {}, total |-> 0, source |-> FALSE, offset |-> 0, asked |-> 0,
             counted |-> 0, version |-> 0, readAt |-> 0, written |-> 0]
Idle == [pc |-> "idle", at |-> 1, mode |-> FALSE, source |-> FALSE, asked |-> 0, began |-> 0,
         counted |-> 0, all |-> {}, page |-> NoAnswer, pages |-> << >>]

HistoryInit ==
    /\ story \in Stories
    /\ log = << >> /\ moment = 0 /\ changes = 0
    /\ turned = 0 /\ restarted = 0 /\ cleared = 0
    /\ seq = story.firstId /\ recent = << >> /\ recentAlerts = << >>
    /\ queue = << >> /\ writer = "idle" /\ persisting = story.persisting
    /\ packetRows = {} /\ alertRows = {}
    /\ keys = [packets |-> story.firstId, alerts |-> story.firstId]
    /\ dated = [packets |-> FALSE, alerts |-> FALSE] /\ cleanedAt = -CleanupEvery
    /\ cache = << >>
    /\ reader = [r \in Readers |-> Idle]

-----------------------------------------------------------------------------
(* Rows *)

\* The request a response answers: the first of its conversation that has no answer (0: a request
\* that was never captured).
Talk(p) == <<p.proto, {<<p.src, p.sport>>, <<p.dst, p.dport>>}>>
Answers(p) ==
    LET open == {n \in DOMAIN log : /\ Talk(log[n]) = Talk(p) /\ log[n].request # ""
                                   /\ \A m \in DOMAIN log : log[m].answers # n}
    IN  IF p.status = 0 THEN 0 ELSE MinOf(open, 0)

\* The row of a captured packet: what its kind says of it and what the capture adds.
RowOf(p) ==
    [src |-> p.src, dst |-> p.dst, sport |-> p.sport, dport |-> p.dport, proto |-> p.proto,
     direction |-> Direction(p.src, p.dst), remote |-> Remote(p.src, p.dst), length |-> p.length,
     t |-> moment, pid |-> p.pid, process |-> p.process, request |-> p.request,
     status |-> p.status, snippet |-> p.snippet, binary |-> p.binary, alert |-> p.alert,
     own |-> Len(log) + 1, answers |-> Answers(p), id |-> seq + 1, cap |-> seq + 1, written |-> 0]

\* The alert a packet gives rise to.
AlertOf(r) ==
    [src |-> r.src, dst |-> r.dst, sport |-> r.sport, dport |-> r.dport, proto |-> r.proto,
     direction |-> r.direction, remote |-> r.remote, t |-> r.t, pid |-> r.pid,
     process |-> r.process, own |-> r.own, packet |-> r.cap, id |-> r.id, written |-> 0]

\* A packet's direction has no column.
Stored(r) == [r EXCEPT !.direction = ""]

PushFront(s, x) == FirstFew(<<x>> \o s, MaxRecent)

-----------------------------------------------------------------------------
(* Capture, and the writer *)

\* add_packet, add_alert, persist and persist_flow for one packet.
Capture ==
    /\ Len(log) < story.length
    /\ \E p \in story.kinds :
          LET r == RowOf(p)
              packet == [kind |-> "packet", row |-> r]
              flow == [kind |-> "flow", row |-> Nobody]
          IN  /\ log' = Append(log, r)
              /\ recent' = PushFront(recent, r)
              /\ recentAlerts' = IF r.alert THEN PushFront(recentAlerts, AlertOf(r)) ELSE recentAlerts
              /\ queue' = queue \o (IF persisting THEN <<packet>> ELSE << >>)
                                \o (IF story.flows THEN <<flow>> ELSE << >>)
    /\ seq' = seq + 1 /\ changes' = changes + 1
    /\ UNCHANGED <<story, moment, turned, restarted, cleared, writer, persisting, packetRows,
                   alertRows, keys, dated, cleanedAt, cache, reader>>

\* The rows of a batch get the table's next keys, in order.
Inserted(table, rows, key) ==
    table \cup {[rows[n] EXCEPT !.id = key + n, !.written = moment] : n \in DOMAIN rows}

\* insert_batch: one transaction for the packets and alerts of a batch; with the switch off
\* it returns, and the batch is gone.
WriteBatch ==
    /\ writer = "idle" /\ queue # << >>
    /\ \E n \in 1..Len(queue) :
          LET units == SelectSeq(SubSeq(queue, 1, n), LAMBDA u : u.kind = "packet")
              rows == [k \in DOMAIN units |-> Stored(units[k].row)]
              alerting == SelectSeq([k \in DOMAIN units |-> units[k].row], LAMBDA r : r.alert)
              alerts == [k \in DOMAIN alerting |-> AlertOf(alerting[k])]
          IN  /\ queue' = SubSeq(queue, n + 1, Len(queue))
              /\ IF persisting
                 THEN /\ packetRows' = Inserted(packetRows, rows, keys.packets)
                      /\ alertRows' = Inserted(alertRows, alerts, keys.alerts)
                      /\ keys' = [packets |-> keys.packets + Len(rows),
                                  alerts |-> keys.alerts + Len(alerts)]
                 ELSE UNCHANGED <<packetRows, alertRows, keys>>
    /\ writer' = IF moment - cleanedAt < CleanupEvery THEN "idle" ELSE "clean"
    /\ changes' = changes + 1
    /\ UNCHANGED <<story, moment, storyVars, recent, recentAlerts, persisting, dated, cleanedAt,
                   cache, reader>>

\* _run_retention_cleanup after a batch: created_at can only be added to an empty table, a
\* missing column makes the DELETE fail, and the first failure ends the clean-up.
Outdated(table) == {r \in table : moment - r.written > story.retention}
Dated(now, table) == now \/ table = {}

CleanUp ==
    /\ writer = "clean" /\ writer' = "idle" /\ cleanedAt' = moment
    /\ IF persisting /\ story.retention > 0
       THEN /\ dated' = [packets |-> Dated(dated.packets, packetRows),
                         alerts |-> Dated(dated.alerts, alertRows)]
            /\ IF dated'.packets /\ dated'.alerts
               THEN /\ packetRows' = packetRows \ Outdated(packetRows)
                    /\ alertRows' = alertRows \ Outdated(alertRows)
               ELSE UNCHANGED <<packetRows, alertRows>>
            /\ changes' = changes + 1
       ELSE UNCHANGED <<dated, packetRows, alertRows, changes>>
    /\ UNCHANGED <<story, moment, storyVars, recent, recentAlerts, queue, persisting, keys, cache,
                   reader>>

\* set_persist, from a settings request.
SetPersist ==
    /\ turned < story.toggles /\ turned' = turned + 1
    /\ persisting' = ~persisting
    /\ UNCHANGED <<story, moment, changes, log, restarted, cleared, seq, sourceVars, queue, writer,
                   keys, dated, cleanedAt, cache, reader>>

\* The process dies and comes back: what it held in memory is gone, the capture numbers begin
\* again, and the tables remain.
Restart ==
    /\ restarted < story.restarts /\ restarted' = restarted + 1
    /\ recent' = << >> /\ recentAlerts' = << >> /\ seq' = story.firstId
    /\ queue' = << >> /\ writer' = "idle" /\ cleanedAt' = -CleanupEvery
    /\ cache' = << >> /\ reader' = [r \in Readers |-> [Idle EXCEPT !.at = Len(story.plan[r]) + 1]]
    /\ changes' = changes + 1
    /\ UNCHANGED <<story, log, moment, turned, cleared, packetRows, alertRows, keys, dated, persisting>>

\* reset_session clears the recent rows and leaves the cached answers.
ResetSession ==
    /\ cleared < story.resets /\ cleared' = cleared + 1
    /\ recent' = << >> /\ recentAlerts' = << >>
    /\ changes' = changes + 1
    /\ UNCHANGED <<story, log, moment, turned, restarted, seq, packetRows, alertRows, queue, writer,
                   keys, persisting, dated, cleanedAt, cache, reader>>

Tick ==
    /\ \E d \in story.steps : moment + d <= story.until /\ moment' = moment + d
    /\ UNCHANGED <<story, changes, storyVars, sourceVars, queue, writer, keys, persisting, dated,
                   cleanedAt, cache, reader>>

-----------------------------------------------------------------------------
(* Readers *)

Newer(a, b) == a.id > b.id

\* The filters of a list request, which both sources know: the value of a field (an address, the
\* protocol, the process, or whether a packet has an alert), or traffic with an address that is
\* not private: the filter does not know the machine's own addresses.  A text is looked for in a
\* field as a whole, not as a part of it.
RemoteTraffic(r) == ~({r.src, r.dst, r.remote} \subseteq PrivateHosts)
Passes(r, filter) == IF filter = "remote" THEN RemoteTraffic(r) ELSE r[filter] = story.only[filter]
Matches(r) == \A filter \in DOMAIN story.only : Passes(r, filter)
MatchesAlert(a) == \A filter \in DOMAIN story.only : Passes(a, filter)

\* The rows of a source that a list shows, in its order.
RecentPackets == SelectSeq(recent, Matches)
RecentAlerts == SelectSeq(recentAlerts, MatchesAlert)
StoredPackets == Ordered({r \in packetRows : Matches(r)}, Newer)
StoredAlerts == Ordered({a \in alertRows : MatchesAlert(a)}, Newer)
Listing(source) == IF story.of = "packets" THEN IF source THEN StoredPackets ELSE RecentPackets
                   ELSE IF source THEN StoredAlerts ELSE RecentAlerts
Owns(s) == {s[n].own : n \in DOMAIN s}
Page(s, offset) == [n \in 1..Max({0, Min({PageSize, Len(s) - offset})}) |-> s[offset + n]]

\* The request a reader is at: a page of the list, or one packet.
Wanted(r) == story.plan[r][reader[r].at]
Walks(r) == Wanted(r) = 0
Offset(r) == PageSize * Len(reader[r].pages)

\* Mutant: the key of a cached list leaves its offset out.
KeyOfAnyPage(r, mode) == <<mode, Wanted(r), 0>>
Key(r, mode) == <<mode, Wanted(r), IF Walks(r) THEN Offset(r) ELSE 0>>

Cached(key) == SelectSeq(cache, LAMBDA e : e.key = key)
Without(key) == SelectSeq(cache, LAMBDA e : e.key # key)

\* The answer is there; a walk goes on until a page reaches the total.
Answered(r, page) ==
    LET me == reader[r]
        last == ~Walks(r) \/ Offset(r) + PageSize >= page.total
    IN  [me EXCEPT !.pc = IF last THEN "done" ELSE "answered", !.page = page,
                   !.pages = Append(me.pages, page)]

Life(r) == IF Walks(r) THEN ListTTL ELSE DetailTTL

\* _list_cache and _detail_cache are one sequence here: a full one drops its own oldest entry.
Bounded(entries, r) ==
    LET Own(e) == (e.key[2] = 0) = Walks(r)
        own == SelectSeq(entries, Own)
    IN  IF Len(own) > IF Walks(r) THEN ListEntries ELSE DetailEntries
        THEN SelectSeq(entries, LAMBDA e : e # own[1]) ELSE entries

\* An entry answers until it expires; that there is no such packet is always looked up anew.
Usable(e, r) == e.expires > moment /\ (Walks(r) \/ e.page.items # << >>)

\* The cache after a key has been looked up: its entry goes to the young end, usable or not, or
\* out if it has expired.
LookedUp(key) ==
    LET Kept(e) == e.expires > moment
    IN  Without(key) \o SelectSeq(Cached(key), Kept)

\* _make_cache_key and _read_cache.
Ask(r) ==
    /\ reader[r].pc \in {"idle", "answered"} /\ reader[r].at <= Len(story.plan[r])
    /\ cache' = LookedUp(Key(r, persisting))
    /\ LET me == [reader[r] EXCEPT !.asked = moment, !.began = changes, !.mode = persisting]
           entries == Cached(Key(r, persisting))
           usable == entries # << >> /\ Usable(entries[1], r)
       IN  \/ /\ usable
              /\ reader' = [reader EXCEPT ![r] =
                              [Answered(r, entries[1].page) EXCEPT !.asked = moment, !.began = changes,
                                                                   !.mode = persisting]]
           \/ /\ ~usable
              /\ reader' = [reader EXCEPT ![r] = [me EXCEPT !.pc = "choosing"]]
    /\ UNCHANGED <<story, moment, changes, storyVars, sourceVars, queue, writer, keys, persisting,
                   dated, cleanedAt>>

\* _repository() reads the switch again; a list in SQLite is counted first.
Choose(r) ==
    /\ reader[r].pc = "choosing"
    /\ reader' = [reader EXCEPT ![r].pc = IF persisting /\ Walks(r) THEN "counting" ELSE "reading",
                                ![r].source = persisting]
    /\ UNCHANGED <<story, moment, changes, storyVars, sourceVars, queue, writer, keys, persisting,
                   dated, cleanedAt, cache>>
Count(r) ==
    /\ reader[r].pc = "counting"
    /\ reader' = [reader EXCEPT ![r].pc = "reading", ![r].counted = changes,
                                ![r].all = Owns(Listing(TRUE))]
    /\ UNCHANGED <<story, moment, changes, storyVars, sourceVars, queue, writer, keys, persisting,
                   dated, cleanedAt, cache>>

\* The rows: of memory in one snapshot with their number, of SQLite in a second query.
Read(r) ==
    /\ reader[r].pc = "reading"
    /\ LET me == reader[r]
           listing == Listing(me.source)
           rows == IF me.source THEN packetRows ELSE Range(recent)
           answer == [NoAnswer EXCEPT
                        !.source = me.source, !.offset = Offset(r),
                        !.all = IF me.source THEN me.all ELSE Owns(listing),
                        !.asked = me.asked, !.version = changes, !.readAt = moment,
                        !.counted = IF me.source THEN me.counted ELSE changes]
       IN  reader' = [reader EXCEPT ![r].pc = "finishing", ![r].page =
             IF Walks(r)
             THEN [answer EXCEPT !.items = [n \in DOMAIN Page(listing, Offset(r)) |->
                                              Page(listing, Offset(r))[n].own],
                                 !.total = Cardinality(answer.all)]
             ELSE IF \E q \in rows : q.id = Wanted(r)
             THEN [answer EXCEPT !.items = <<(CHOOSE q \in rows : q.id = Wanted(r)).own>>, !.total = 1]
             ELSE answer]
    /\ UNCHANGED <<story, moment, changes, storyVars, sourceVars, queue, writer, keys, persisting,
                   dated, cleanedAt, cache>>

\* _write_cache, under the key made at the beginning, and the answer.
Finish(r) ==
    /\ reader[r].pc = "finishing"
    /\ LET me == reader[r]
           page == [me.page EXCEPT !.written = moment]
           entry == [key |-> Key(r, me.mode), expires |-> moment + Life(r), page |-> page]
       IN  /\ cache' = Bounded(Append(Without(Key(r, me.mode)), entry), r)
           /\ reader' = [reader EXCEPT ![r] = Answered(r, page)]
    /\ UNCHANGED <<story, moment, changes, storyVars, sourceVars, queue, writer, keys, persisting,
                   dated, cleanedAt>>

\* The reader takes up the next request of its plan.
Go(r) ==
    /\ reader[r].pc = "done"
    /\ reader' = [reader EXCEPT ![r] = [Idle EXCEPT !.at = reader[r].at + 1]]
    /\ UNCHANGED <<story, moment, changes, storyVars, sourceVars, queue, writer, keys, persisting,
                   dated, cleanedAt, cache>>

HistoryNext ==
    \/ Capture \/ WriteBatch \/ CleanUp \/ SetPersist \/ Restart \/ ResetSession \/ Tick
    \/ \E r \in Readers : Ask(r) \/ Choose(r) \/ Count(r) \/ Read(r) \/ Finish(r) \/ Go(r)

HistorySpec == HistoryInit /\ [][HistoryNext]_historyVars

-----------------------------------------------------------------------------
(* Properties: lists *)

\* A walk through the pages shows every row that was there when its first page was counted and is
\* still there at the end, if all pages came from one source, none from an older answer than the
\* page before it, and no change fell between the two queries of a page.
WalkComplete ==
    \A r \in Readers :
        LET pages == reader[r].pages
            shown == UNION {Range(pages[n].items) : n \in DOMAIN pages}
        IN  (/\ reader[r].pc = "done" /\ Walks(r)
             /\ \A n \in DOMAIN pages : /\ pages[n].counted = pages[n].version
                                        /\ pages[n].source = pages[1].source
                                        /\ n > 1 => pages[n].version >= pages[n - 1].version)
            => pages[1].all \cap Owns(Listing(pages[1].source)) \subseteq shown

\* An answer is younger than the life of a cached answer, however often it has been given; a page
\* has the rows its total promises, unless the table changed between the two queries; and that
\* there is no such packet has been looked up since the reader asked.
AnswerSound ==
    \A r \in Readers :
        LET me == reader[r]  page == me.page
        IN  me.pc \in {"answered", "done"} =>
              /\ me.asked - page.written < Life(r)
              /\ (Walks(r) /\ page.counted = page.version) =>
                    Len(page.items) = Max({0, Min({PageSize, page.total - page.offset})})
              /\ (~Walks(r) /\ page.items = << >>) => page.version >= me.began

-----------------------------------------------------------------------------
(* Properties: contexts, from either source.  Reading does not change rows,  *)
(* so they are examined in the stories without readers.                      *)

Unread == \A r \in Readers : story.plan[r] = << >>
Sources == IF Unread THEN BOOLEAN ELSE {}
Rows(source) == IF source THEN packetRows ELSE Range(recent)
Alerts(source) == IF source THEN alertRows ELSE Range(recentAlerts)
PacketsFor(r, source) ==
    IF source THEN Sample(FlowIdentity(r), packetRows, Limits.packets) ELSE Range(recent)
AlertsFor(r, source) ==
    IF source THEN Sample(FlowIdentity(r), alertRows, Limits.alerts) ELSE Range(recentAlerts)
ContextOf(p, source) == PacketContext(p, PacketsFor(p, source), AlertsFor(p, source))
ContextOfAlert(a, source) == AlertContext(a, PacketsFor(a, source), AlertsFor(a, source))
StreamOf(p, source) == PacketStream(p, PacketsFor(p, source), AlertsFor(p, source))

\* The newest packet of each conversation with a remote peer.
Leads(source) ==
    {p \in Rows(source) : /\ OnLan(p.src) # OnLan(p.dst)
                          /\ \A q \in Rows(source) : Talk(q) = Talk(p) => q.own <= p.own}

\* A context without what is about its packet alone; the ports are counted at the end the
\* packet was sent to.
Shared(c) ==
    [c EXCEPT !.related = << >>, !.remotePackets = << >>, !.remoteAlerts = << >>,
              !.process = << >>, !.port = << >>, !.causes = {},
              !.behaviours = @ \cap {"repeated short connections", "beacon", "burst"},
              !.stream.previous = 0, !.stream.next = 0]

\* The context of a packet that has a remote peer counts the packets of its conversation, in both
\* directions and no others, and the bytes that came from the peer; all packets of the
\* conversation share it, whether their rows still have a direction or not.
ContextsAgree ==
    \A source \in Sources : \A p \in Leads(source) :
        LET mine == {q \in Rows(source) : Talk(q) = Talk(p) /\ q \in PacketsFor(q, source)}
        IN  p \in mine => \A context \in {[q \in mine |-> ContextOf(q, source)]} :
              /\ context[p].packets = Cardinality(mine)
              /\ context[p].bytesIn =
                    MapThenSumSet(LAMBDA q : q.length, {q \in mine : ~OnLan(q.src)})
              /\ \A q \in mine : Shared(context[q]) = Shared(context[p])

\* An alert is linked to the packet that raised it as long as that packet is in the sample and no
\* later run has given its number to another one there; the alert then shows the packet's flow.
LinkedIsOwn ==
    \A source \in Sources : \A a \in Alerts(source) :
        \A sample \in {PacketsFor(a, source)} :
            LET own == {p \in sample : p.own = a.own}
                reused == \E p \in sample : p.cap = a.packet /\ p.own > a.own
            IN  (own # {} /\ ~reused) =>
                  /\ LinkedPacket(a, sample) \in own
                  /\ \A p \in own : Shared(ContextOfAlert(a, source)) = Shared(ContextOf(p, source))

\* In a stream whose order is unambiguous (no midnight in between, and no packets of one second
\* whose numbers are the other way round as texts), and where each answer's request is in the
\* sample and answered in turn: an exchange is a request and its own answer, and repeated
\* failures are failures of one target.
ExchangesRight ==
    \A source \in Sources : \A p \in Leads(source) :
        LET unambiguous(rows) == \A q, b \in rows : q.own < b.own => Earlier(q, b)
            inTurn(requests, responses) ==
                \A q \in responses :
                    /\ \E o \in requests : q.answers = o.own
                    /\ \A o \in requests : o.own < q.answers =>
                          \E b \in responses : b.answers = o.own /\ b.own < q.own
        IN  \A rows \in {FlowRows(FlowIdentity(p), PacketsFor(p, source))} :
            \A responses \in {{q \in rows : q.status # 0}} :
              (unambiguous(rows) /\ inTurn({q \in rows : q.request # ""}, responses)) =>
                \A stream \in {StreamOf(p, source)} :
                  /\ \A n \in DOMAIN stream.exchanges :
                        stream.exchanges[n].complete =>
                            stream.exchanges[n].response.answers = stream.exchanges[n].request.own
                  /\ stream.anomalies \cap {"repeated failures", "repeated failed sign-in"} # {} =>
                        \E q, b \in responses :
                            /\ q # b /\ q.status >= 400 /\ b.status >= 400
                            /\ log[q.answers].request = log[b.answers].request

\* From every packet, the next packet's previous one is the packet itself, also across alerts.
NavigationRetraces ==
    \A source \in Sources : \A p \in Rows(source) :
        LET From(q, step) ==
                LET i == FlowIdentity(q)
                IN  Neighbours(Timeline(FlowRows(i, PacketsFor(q, source)),
                                        FlowAlerts(i, AlertsFor(q, source))), q.id, 0, step).packet
            there == From(p, 1)
        IN  there # 0 => \E q \in Rows(source) : q.id = there /\ From(q, -1) = p.id

StreamSound == ExchangesRight /\ NavigationRetraces

\* README.md:418: "Retention settings can automatically remove old packet history".  After a
\* clean-up, no packet is older than the retention.
RetentionRemovesOld ==
    (writer = "idle" /\ cleanedAt = moment /\ story.retention > 0 /\ persisting)
        => Outdated(packetRows) = {}
=============================================================================
