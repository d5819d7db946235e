-------------------------- MODULE DetectionPipeline -------------------------
(***************************************************************************)
(* SnifferDetectionPipeline.analyze                                        *)
(* (backend/app/services/sniffer_detection_pipeline.py), run by several    *)
(* flow workers at once: sliding windows that raise an alert when they     *)
(* hold enough samples, and the automatic block of the alert's source.     *)
(*                                                                         *)
(* The windows are dictionaries of lists without a lock.  A thread may be  *)
(* interrupted wherever CPython may switch: at a call and at each turn of  *)
(* a loop.  A list is an object: a worker may hold one that the dictionary *)
(* has lost.  A window is kept in one of three ways, the `engine`:         *)
(*   "flood"        SignatureIDS.flood_counter: cleaned, then appended to  *)
(*   "syn"          SignatureIDS.syn_counter (port_scan_map likewise):     *)
(*                  cleaned, appended to, filtered                         *)
(*   "application"  _dns_tunnel_state (_tls_no_sni_state likewise):        *)
(*                  pruned and capped, filtered, appended to               *)
(* The windows share nothing and the failure of one is caught, so that a   *)
(* behaviour is about one, and about packets with one alert at most.       *)
(* auto_block is on.  Left out: what makes a packet suspicious, scores,    *)
(* and the engines for custom rules, whose windows nobody cleans.          *)
(***************************************************************************)
EXTENDS Integers, Sequences, FiniteSets, SequencesExt

CONSTANTS Workers,      \* the flow workers
          Spared,       \* the private and whitelisted addresses
          Engines,      \* the engines to consider
          Window,       \* the length of the sliding window
          Threshold,    \* the samples that raise an alert
          MaxKeys,      \* MAX_APP_TRACKED_KEYS
          Cooldown,     \* AUTO_BLOCK_COOLDOWN_SEC
          MaxTracked,   \* AUTO_BLOCK_MAX_TRACKED
          Duration,     \* bound: how long the clock runs
          Traffics      \* bound: the packets, in the order in which they are begun

\* A packet is its addresses and what it is to the engine: counted in the window, an alert of
\* its own (as _detect_cleartext_auth raises it), or nothing.
Kinds == {"counted", "alert", "other"}
ASSUME WorkersAssumption == IsFiniteSet(Workers)
ASSUME EnginesAssumption == Engines \subseteq {"flood", "syn", "application"}
ASSUME LimitsAssumption ==
    /\ {Threshold, MaxKeys, MaxTracked, Cooldown} \subseteq Nat \ {0}
    /\ {Window, Duration} \subseteq Nat
ASSUME TrafficsAssumption ==
    \A t \in Traffics :
        /\ Len(t) \in Nat /\ DOMAIN t = 1 .. Len(t)
        /\ \A p \in DOMAIN t : {"src", "dst"} \subseteq DOMAIN t[p] /\ t[p].kind \in Kinds

VARIABLES
    traffic, engine,
    now,        \* the clock
    begun,      \* how many packets are begun; their numbers name them
    table,      \* the dictionary: [key, list], in insertion order
    content,    \* what is in each list: packets.  A list is named after its creator
    frame,      \* per worker: where it is, and its local variables
    recent,     \* _auto_block_recent: [ip, at], in insertion order
    stats,      \* _auto_block_stats
    clock,      \* per packet: the time its analysis read
    ran,        \* history, per packet: the packets whose analysis overlapped its own
    counted,    \* history, per packet: the samples its alert was decided on
    blocks,     \* history: the blocks recorded
    capped,     \* history: a key was dropped because there were too many
    forgotten   \* history: the addresses dropped from recent

windows == <<table, content>>
blocking == <<recent, stats, blocks, forgotten>>
history == <<clock, ran, counted>>
vars == <<traffic, engine, now, begun, windows, frame, blocking, history, capped>>

Packets == DOMAIN traffic
Idle == [at |-> "idle", packet |-> 0, todo |-> << >>, list |-> 0, i |-> 1, kept |-> << >>,
         over |-> 0]

Init ==
    /\ traffic \in Traffics /\ engine \in Engines
    /\ now = 0 /\ begun = 0 /\ table = << >> /\ content = [p \in Packets |-> << >>]
    /\ frame = [w \in Workers |-> Idle]
    /\ recent = << >> /\ stats = [blocked_total |-> 0, cooldown_skips |-> 0, spared |-> 0,
                                  failed_total |-> 0]
    /\ clock = [p \in Packets |-> 0] /\ ran = [p \in Packets |-> {p}]
    /\ counted = [p \in Packets |-> {}]
    /\ blocks = << >> /\ capped = FALSE /\ forgotten = {}

Mine(w) == traffic[frame[w].packet]
Key(packet) == IF engine = "flood" THEN <<packet.src>> ELSE <<packet.src, packet.dst>>
MyKey(w) == Key(Mine(w))
Goto(w, step) == frame' = [frame EXCEPT ![w].at = step]
Finish(w) == frame' = [frame EXCEPT ![w] = Idle]
\* Enters a part of the analysis; what the part before it had in hand is gone.
Enter(w, step) == frame' = [frame EXCEPT ![w] = [Idle EXCEPT !.at = step,
                                                             !.packet = frame[w].packet]]
Busy == {w \in Workers : frame[w].at # "idle"}
At(key) == SelectInSeq(table, LAMBDA entry : entry.key = key)
Without(key) == IF At(key) = 0 THEN table ELSE RemoveAt(table, At(key))

-----------------------------------------------------------------------------
(* analyze: the clock, then the clean-up of every list of the dictionary *)

\* A worker begins the next packet; which one gets it is up to its flow key.
Begin(w) ==
    LET p == begun + 1
        others == {frame[v].packet : v \in Busy}
    IN  /\ frame[w].at = "idle" /\ p \in Packets /\ begun' = p
        /\ clock' = [clock EXCEPT ![p] = now]
        /\ ran' = [q \in Packets |-> IF q = p THEN {p} \cup others
                                     ELSE IF q \in others THEN ran[q] \cup {p} ELSE ran[q]]
        /\ frame' = [frame EXCEPT ![w] = [Idle EXCEPT !.at = "snapshot", !.packet = p]]
        /\ UNCHANGED <<traffic, engine, now, windows, blocking, counted, capped>>

\* What a packet is to the engine decides what follows the clean-up.
Visit(w) ==
    CASE Mine(w).kind = "counted" -> Enter(w, "fetch")
      [] Mine(w).kind = "alert" -> Enter(w, "alert")
      [] OTHER -> Finish(w)

\* The next list to clean; after the last, the application engine looks at its limit.
Clean(w, entries) ==
    IF entries # << >>
    THEN frame' = [frame EXCEPT ![w].at = "clean", ![w].todo = entries, ![w].i = 1,
                                ![w].kept = << >>, ![w].list = entries[1].list]
    ELSE IF engine = "application"
    THEN Enter(w, "cap")
    ELSE Visit(w)

\* list(bucket.items()).
Snapshot(w) ==
    /\ frame[w].at = "snapshot" /\ Clean(w, table)
    /\ UNCHANGED <<traffic, engine, now, begun, windows, blocking, history, capped>>

\* Whether a sample is within the window of the worker's packet.
FreshShort(w, q) == clock[q] + Window > clock[frame[w].packet]
Fresh(w, q) == clock[q] + Window >= clock[frame[w].packet]

\* One turn of the comprehension that filters a list, over the list as it is by then.
Sift(w) ==
    /\ frame[w].at \in {"clean", "filter"}
    /\ frame[w].i <= Len(content[frame[w].list])
    /\ LET q == content[frame[w].list][frame[w].i]
       IN  frame' = [frame EXCEPT ![w].i = @ + 1,
                                  ![w].kept = IF Fresh(w, q) THEN Append(@, q) ELSE @]
    /\ UNCHANGED <<traffic, engine, now, begun, windows, blocking, history, capped>>

Sifted(w) == frame[w].i > Len(content[frame[w].list])
Store(w) == content' = [content EXCEPT ![frame[w].list] = frame[w].kept]

\* The end of the loop over a list: it is replaced, and its key removed if nothing is left.
\* A signature engine has no answer to a key that another worker removed: the KeyError ends
\* its analysis of this packet, but not the search for alerts of another kind.
Cleaned(w) ==
    /\ frame[w].at = "clean" /\ Sifted(w) /\ Store(w)
    /\ LET key == frame[w].todo[1].key IN
       IF frame[w].kept # << >> THEN Clean(w, Tail(frame[w].todo)) /\ UNCHANGED table
       ELSE /\ table' = Without(key)
            /\ IF At(key) # 0 \/ engine = "application" THEN Clean(w, Tail(frame[w].todo))
               ELSE IF Mine(w).kind = "alert" THEN Enter(w, "alert")
               ELSE Finish(w)
    /\ UNCHANGED <<traffic, engine, now, begun, blocking, history, capped>>

-----------------------------------------------------------------------------
(* _prune_state: the limit on keys.  The table is measured twice. *)

OverLimit == Len(table) - MaxKeys

CapTest(w) ==
    /\ frame[w].at = "cap"
    /\ IF OverLimit > 0 THEN Goto(w, "measure") ELSE Visit(w)
    /\ UNCHANGED <<traffic, engine, now, begun, windows, blocking, history, capped>>

CapMeasure(w) ==
    /\ frame[w].at = "measure"
    /\ frame' = [frame EXCEPT ![w].at = "list", ![w].over = OverLimit]
    /\ UNCHANGED <<traffic, engine, now, begun, windows, blocking, history, capped>>

\* list(bucket.keys())[:overflow]: a negative end counts from the end of the list.
CapList(w) ==
    /\ frame[w].at = "list"
    /\ LET over == frame[w].over
           last == IF over < 0 THEN Len(table) + over ELSE Min({over, Len(table)})
       IN  frame' = [frame EXCEPT ![w].at = "pop", ![w].todo = SubSeq(table, 1, last)]
    /\ UNCHANGED <<traffic, engine, now, begun, windows, blocking, history, capped>>

CapPop(w) ==
    /\ frame[w].at = "pop"
    /\ IF frame[w].todo = << >> THEN Visit(w) /\ UNCHANGED <<table, capped>>
       ELSE /\ table' = Without(frame[w].todo[1].key) /\ capped' = TRUE
            /\ frame' = [frame EXCEPT ![w].todo = Tail(@)]
    /\ UNCHANGED <<traffic, engine, now, begun, content, blocking, history>>

-----------------------------------------------------------------------------
(* The window of the packet: fetched or created, filtered and appended to *)

Fetch(w) ==
    /\ frame[w].at = "fetch"
    /\ LET p == frame[w].packet
           known == At(MyKey(w))
           mine == IF known # 0 THEN table[known].list ELSE p
       IN  /\ frame' = [frame EXCEPT ![w].at = IF engine = "application" THEN "filter"
                                               ELSE "append",
                                     ![w].list = mine, ![w].i = 1, ![w].kept = << >>]
           /\ table' = IF known # 0 THEN table
                       ELSE Append(table, [key |-> MyKey(w), list |-> p])
    /\ UNCHANGED <<traffic, engine, now, begun, content, blocking, history, capped>>

Filtered(w) ==
    /\ frame[w].at = "filter" /\ Sifted(w) /\ Store(w)
    /\ frame' = [frame EXCEPT ![w].at = IF engine = "application" THEN "append" ELSE "count",
                              ![w].i = 1, ![w].kept = << >>]
    /\ UNCHANGED <<traffic, engine, now, begun, table, blocking, history, capped>>

AppendSample(w) ==
    /\ frame[w].at = "append"
    /\ content' = [content EXCEPT ![frame[w].list] = Append(@, frame[w].packet)]
    /\ Goto(w, IF engine = "syn" THEN "filter" ELSE "count")
    /\ UNCHANGED <<traffic, engine, now, begun, table, blocking, history, capped>>

Count(w) ==
    LET samples == content[frame[w].list] IN
    /\ frame[w].at = "count"
    /\ counted' = [counted EXCEPT ![frame[w].packet] = ToSet(samples)]
    /\ IF Len(samples) >= Threshold THEN Enter(w, "alert") ELSE Finish(w)
    /\ UNCHANGED <<traffic, engine, now, begun, windows, blocking, clock, ran, capped>>

-----------------------------------------------------------------------------
(* _maybe_auto_block, for an alert with a score that calls for it *)

Tracked(ip) == SelectInSeq(recent, LAMBDA entry : entry.ip = ip)
CoolingDownShort(ip) == Tracked(ip) # 0 /\ now - recent[Tracked(ip)].at < Cooldown - 1
CoolingDown(ip) == Tracked(ip) # 0 /\ now - recent[Tracked(ip)].at < Cooldown

\* Private and whitelisted sources are never blocked, nor one that was blocked lately.
Consider(w) ==
    /\ frame[w].at = "alert"
    /\ IF Mine(w).src \in Spared
       THEN stats' = [stats EXCEPT !.spared = @ + 1] /\ Finish(w)
       ELSE IF CoolingDown(Mine(w).src)
       THEN stats' = [stats EXCEPT !.cooldown_skips = @ + 1] /\ Finish(w)
       ELSE Enter(w, "block") /\ UNCHANGED stats
    /\ UNCHANGED <<traffic, engine, now, begun, windows, recent, blocks, forgotten, history,
                   capped>>

BlockFails(w) ==
    /\ frame[w].at = "block" /\ Finish(w)
    /\ stats' = [stats EXCEPT !.failed_total = @ + 1]
    /\ UNCHANGED <<traffic, engine, now, begun, windows, recent, blocks, forgotten, history,
                   capped>>

\* The address blocked longest ago; the first inserted of several.
Oldest(entries) == CHOOSE j \in DOMAIN entries :
    /\ \A k \in DOMAIN entries : entries[j].at <= entries[k].at
    /\ \A k \in 1 .. j - 1 : entries[j].at < entries[k].at

\* The firewall command has added one more rule.
BlockRecorded(w) ==
    LET ip == Mine(w).src
        noted == IF Tracked(ip) # 0 THEN [recent EXCEPT ![Tracked(ip)].at = now]
                 ELSE Append(recent, [ip |-> ip, at |-> now])
        full == Len(noted) > MaxTracked
    IN  /\ frame[w].at = "block" /\ Finish(w)
        /\ recent' = IF full THEN RemoveAt(noted, Oldest(noted)) ELSE noted
        /\ forgotten' = forgotten \cup (IF full THEN {noted[Oldest(noted)].ip} ELSE {})
        /\ stats' = [stats EXCEPT !.blocked_total = @ + 1]
        /\ blocks' = Append(blocks, [ip |-> ip, at |-> now, by |-> frame[w].packet])
        /\ UNCHANGED <<traffic, engine, now, begun, windows, history, capped>>

-----------------------------------------------------------------------------
Tick ==
    /\ now < Duration /\ now' = now + 1
    /\ UNCHANGED <<traffic, engine, begun, windows, frame, blocking, history, capped>>

WorkerStep(w) ==
    \/ Begin(w) \/ Snapshot(w) \/ Sift(w) \/ Cleaned(w)
    \/ CapTest(w) \/ CapMeasure(w) \/ CapList(w) \/ CapPop(w)
    \/ Fetch(w) \/ Filtered(w) \/ AppendSample(w) \/ Count(w)
    \/ Consider(w) \/ BlockFails(w) \/ BlockRecorded(w)

Next == Tick \/ \E w \in Workers : WorkerStep(w)
Spec == Init /\ [][Next]_vars

-----------------------------------------------------------------------------
(* Properties *)

Analysed(p) == p <= begun /\ \A w \in Workers : frame[w].packet # p

\* Types, and the limits: the number of addresses tracked, and that of the application keys,
\* which each worker may exceed by the one it is about to add.
TypeOK ==
    /\ traffic \in Traffics /\ engine \in Engines /\ now \in 0 .. Duration
    /\ begun \in 0 .. Len(traffic) /\ capped \in BOOLEAN
    /\ \A k \in DOMAIN table : table[k].list \in Packets
    /\ \A p \in Packets : ToSet(content[p]) \subseteq 1 .. begun /\ clock[p] <= now
    /\ \A w \in Workers : frame[w].packet \in 0 .. begun
    /\ Len(recent) <= MaxTracked
    /\ engine = "application" => Len(table) <= MaxKeys + Cardinality(Workers)

\* The samples that packet p should be judged by.
Due(p) == {q \in 1 .. p : /\ traffic[q].kind = "counted" /\ Key(traffic[q]) = Key(traffic[p])
                          /\ clock[q] + Window >= clock[p]}

\* As soon as one window's length of traffic was analysed without overlap, a detector counts
\* exactly the samples of the window: what the unlocked lists lose when workers collide does
\* no lasting damage, and cleaning up for other packets takes nothing that is still due.
ExactAlone ==
    \A p \in 1 .. begun :
        /\ Analysed(p) /\ traffic[p].kind = "counted" /\ ~capped
        /\ \A q \in 1 .. p : (\E d \in Due(p) : d <= q) => ran[q] = {q}
        => counted[p] = Due(p)

\* An alert never rests on samples older than the window, except for what another worker with
\* an earlier clock put back meanwhile.
CountsWhatIsFresh ==
    \A p \in 1 .. begun : \A q \in counted[p] :
        \E r \in ran[p] : clock[q] + Window >= clock[r]

\* What an engine counts is neither too little nor stale, and its table stays within its limit.
CountsSound == TypeOK /\ ExactAlone /\ CountsWhatIsFresh

Repeated(i, j) == /\ i < j /\ blocks[i].ip = blocks[j].ip
                  /\ blocks[j].at < blocks[i].at + Cooldown

\* An address is blocked again within its cool-down only when two workers considered it at the
\* same time, or after it was dropped from the tracked ones.
RepeatsOverlap ==
    \A i, j \in DOMAIN blocks :
        Repeated(i, j) => blocks[j].by \in ran[blocks[i].by] \/ blocks[i].ip \in forgotten

\* What test_sniffer_detection_pipeline.py says of auto-blocking, "uses cooldown and skips
\* duplicate blocks", of an address that is still tracked.
SkipsDuplicateBlocks ==
    \A i, j \in DOMAIN blocks : Repeated(i, j) => blocks[i].ip \in forgotten

=============================================================================
