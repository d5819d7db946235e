--------------------------- MODULE LiveRingBuffer ---------------------------
(***************************************************************************)
(* LiveRingBuffer (backend/app/services/live_ring_buffer.py): the latest   *)
(* records of each category, within a capacity and a time to live.         *)
(*                                                                         *)
(* append() takes the record's time first and _lock later: by then it may  *)
(* be late.  (The time of day of a captured packet does not parse as a     *)
(* timestamp, so the time of the append stands in for it.)  Everything     *)
(* else is one section of _lock.  Left out: redaction, unsupported         *)
(* categories, the counters of queries, and limit, flow_key and since,     *)
(* which select from an answer.                                            *)
(***************************************************************************)
EXTENDS Integers, Sequences, FiniteSets, SequencesExt

CONSTANTS Categories,   \* SUPPORTED_CATEGORIES, those in use
          Capacity,     \* capacities
          TTL           \* NETBOT_LIVE_RING_TTL_SECONDS, 0 for no limit

ASSUME RingAssumption ==
    /\ IsFiniteSet(Categories) /\ TTL \in Nat
    /\ {"packet", "flow", "alert", "expert_info", "incident"} \subseteq Categories
    /\ Capacity \in [Categories -> Nat \ {0}]

VARIABLES now,          \* the clock
          ring,         \* _buffers: [time, content] records of each category
          evicted,      \* _evicted_by_category
          added,        \* _records_added_total
          cleared       \* history: the records clear() took, by category

ringVars == <<ring, evicted, added, cleared>>

RingInit ==
    /\ now = 0 /\ added = 0
    /\ ring = [c \in Categories |-> << >>]
    /\ evicted = [c \in Categories |-> 0] /\ cleared = [c \in Categories |-> 0]

Expired(record) == TTL > 0 /\ record.time < now - TTL

\* _prune_expired_locked: from the oldest on, as far as the first that is not expired.
Pruned(records) ==
    LET alive == {k \in DOMAIN records : ~Expired(records[k])}
    IN  IF alive = {} THEN << >>
        ELSE SubSeq(records, CHOOSE k \in alive : \A j \in alive : k <= j, Len(records))
PrunedRing == [c \in Categories |-> Pruned(ring[c])]

\* Mutant: what a full buffer drops is not counted.
UncountedRoom(c, records) == evicted[c] + Len(ring[c]) - Len(PrunedRing[c])
CountedRoom(c, records) == evicted[c] + Len(ring[c]) - Len(records)

\* Makes room for one record of category c.
Room(c, records) == IF Len(records) >= Capacity[c] THEN Tail(records) ELSE records

AppendRecord(c, record) ==
    LET left(d) == IF d = c THEN Room(d, PrunedRing[d]) ELSE PrunedRing[d]
    IN  /\ ring' = [d \in Categories |-> IF d = c THEN Append(left(d), record) ELSE left(d)]
        /\ evicted' = [d \in Categories |-> CountedRoom(d, left(d))]
        /\ added' = added + 1
        /\ UNCHANGED cleared

\* query() and metrics() prune before they answer.
QueryRing ==
    /\ ring' = PrunedRing
    /\ evicted' = [c \in Categories |-> CountedRoom(c, PrunedRing[c])]
    /\ UNCHANGED <<added, cleared>>

\* Mutant: the flows stay.
FlowsLeft == [c \in Categories |-> IF c = "flow" THEN ring[c] ELSE << >>]
NothingLeft == [c \in Categories |-> << >>]

ClearRing ==
    /\ ring' = NothingLeft
    /\ cleared' = [c \in Categories |-> cleared[c] + Len(ring[c]) - Len(NothingLeft[c])]
    /\ UNCHANGED <<evicted, added>>

=============================================================================
