---------------------------- MODULE SavedFilters ----------------------------
(***************************************************************************)
(* SavedFilterService (backend/app/services/saved_filter_service.py):      *)
(* custom display filters in one JSON file that every change reads and     *)
(* writes again as a whole, under an RLock.                                *)
(*                                                                         *)
(* A change takes the lock, reads the rows, writes them and answers.       *)
(* write_text truncates the file first: when the write fails, or the       *)
(* backend dies in it, the file cannot be read and the next change starts  *)
(* from no rows.                                                           *)
(*                                                                         *)
(* A filter is its id and the number of the request that wrote it last.    *)
(* Left out: the built-in filters, which no change reaches, and what an    *)
(* expression may be (a request either has a good one or not).             *)
(***************************************************************************)
EXTENDS Naturals, FiniteSets

CONSTANTS Clients,      \* threads that serve /api/filters
          MaxChanges,   \* bound: how many changes are asked for
          MaxFilterFaults \* bound: failed writes and crashes

VARIABLES rows,         \* the filters written last
          unreadable,   \* the file cannot be read
          owner,        \* the thread that holds _lock, if any, as a set
          change,       \* per thread: where its request is
          asked, filterFaults,
          promised      \* history: what the answers given so far amount to, and the changes
                        \* written whose answers a crash cut off, with the filters that an
                        \* unreadable file has forgotten

filterVars == <<rows, unreadable, owner, change, asked, filterFaults, promised>>

NoChange == [at |-> "idle"]
ChangeKinds == {"create", "update", "delete"}

\* _custom: a file that cannot be read has no rows.
Custom == IF unreadable THEN << >> ELSE rows

FiltersInit ==
    /\ rows = << >> /\ unreadable = FALSE /\ owner = {} /\ change = [c \in Clients |-> NoChange]
    /\ asked = 0 /\ filterFaults = 0 /\ promised = << >>

\* A request: the filter it is about; the number of the request names a new one.
Ask(c) ==
    /\ change[c].at = "idle" /\ asked < MaxChanges /\ asked' = asked + 1
    /\ \E kind \in ChangeKinds, good \in BOOLEAN, id \in 1 .. asked + 1 :
          /\ kind = "create" <=> id = asked + 1
          \* create() refuses an expression before it takes the lock.
          /\ kind # "update" => good
          /\ change' = [change EXCEPT ![c] = [at |-> "lock", kind |-> kind, id |-> id,
                                              number |-> asked + 1, good |-> good,
                                              rows |-> << >>]]
    /\ UNCHANGED <<rows, unreadable, owner, filterFaults, promised>>

\* Mutant: the rows are read before the lock is taken.
Unlocked == TRUE
LockFree == owner = {}

TakeLock(c) ==
    /\ change[c].at = "lock" /\ LockFree
    /\ owner' = {c}
    /\ change' = [change EXCEPT ![c].at = "apply", ![c].rows = Custom]
    /\ UNCHANGED <<rows, unreadable, asked, filterFaults, promised>>

\* The rows after the change.
Applied(r, old) ==
    IF r.kind = "delete" THEN [id \in DOMAIN old \ {r.id} |-> old[id]]
    ELSE [id \in DOMAIN old \cup {r.id} |-> IF id = r.id THEN r.number ELSE old[id]]

\* A filter that is not there (404) or a bad expression (400) changes nothing.
Invalid(r) == r.kind # "create" /\ (r.id \notin DOMAIN r.rows \/ ~r.good)

Leave(c) == owner' = {} /\ change' = [change EXCEPT ![c] = NoChange]

Refuse(c) ==
    /\ change[c].at = "apply" /\ Invalid(change[c]) /\ Leave(c)
    /\ UNCHANGED <<rows, unreadable, asked, filterFaults, promised>>

ToWrite(c) == change[c].at = "apply" /\ ~Invalid(change[c])

\* write_text, to the end.
FileWritten(r) ==
    /\ rows' = Applied(r, r.rows) /\ unreadable' = FALSE
    /\ promised' = Applied(r, IF unreadable THEN << >> ELSE promised)

\* write_text, and the answer.
Save(c) ==
    /\ ToWrite(c) /\ Leave(c) /\ FileWritten(change[c])
    /\ UNCHANGED <<asked, filterFaults>>

\* The write fails: the file is truncated, and the request is answered with an error.
FailToWrite(c) ==
    /\ ToWrite(c) /\ Leave(c)
    /\ filterFaults < MaxFilterFaults /\ filterFaults' = filterFaults + 1
    /\ unreadable' = TRUE
    /\ UNCHANGED <<rows, asked, promised>>

\* The backend dies; if it was writing, the file may be truncated, or written and not answered.
Die ==
    /\ filterFaults < MaxFilterFaults /\ filterFaults' = filterFaults + 1
    /\ owner' = {} /\ change' = [c \in Clients |-> NoChange]
    /\ \/ UNCHANGED <<rows, unreadable, promised>>
       \/ \E c \in Clients : ToWrite(c) /\ unreadable' = TRUE /\ UNCHANGED <<rows, promised>>
       \/ \E c \in Clients : ToWrite(c) /\ FileWritten(change[c])
    /\ UNCHANGED asked

FiltersNext ==
    \/ \E c \in Clients : Ask(c) \/ TakeLock(c) \/ Refuse(c) \/ Save(c) \/ FailToWrite(c)
    \/ Die

FiltersSpec == FiltersInit /\ [][FiltersNext]_filterVars

-----------------------------------------------------------------------------
(* Property *)

\* The file holds what the answers said: every filter created or changed is there as it was
\* answered, and no deleted one, whatever other clients changed at the same time; only a
\* write that failed or was cut off takes filters along.
AnswersKept == ~unreadable => rows = promised

=============================================================================
