----------------------------- MODULE HistoryStories -----------------------------
(***************************************************************************)
(* The stories and the limits with which History is checked: stories       *)
(* without readers, for the contexts, and stories with one or two readers, *)
(* for the lists.                                                          *)
(***************************************************************************)
EXTENDS Integers, Sequences, TLC

CONSTANTS r1, r2

Reads(first, second) == r1 :> first @@ r2 :> second

MCPrivate == {"a", "b"}
MCOwn == {"own"}
MCHostOf == [r \in {"/a", "/login"} |-> "site"]
MCAuth == {"/login"}
MCLimits ==
    [shown |-> 2, few |-> 1, short |-> 1, manyShort |-> 2, gaps |-> 2, beaconMin |-> 1,
     beaconMax |-> 2, burst |-> 3, burstSpan |-> 1, hosts |-> 2, fanSessions |-> 2,
     hostBurst |-> 3, hostSpan |-> 1, sessions |-> 2, spread |-> 2, ports |-> 2, scanSpan |-> 1,
     sweep |-> 2, exchanges |-> 2, diff |-> 2, timeline |-> 3, packets |-> 2, alerts |-> 1]

Packet(src, sport, dst, dport) ==
    [src |-> src, sport |-> sport, dst |-> dst, dport |-> dport, proto |-> "tcp", length |-> 1,
     pid |-> 0, process |-> "", request |-> "", status |-> 0, snippet |-> "", binary |-> FALSE,
     alert |-> FALSE]
Out == [Packet("a", 1, "x", 80) EXCEPT !.pid = 1]
Reply == [Packet("x", 80, "a", 1) EXCEPT !.length = 2]
Get == [Out EXCEPT !.request = "/a"]
Login == [Out EXCEPT !.request = "/login", !.alert = TRUE]
Good == [Reply EXCEPT !.status = 200]
Bad == [Reply EXCEPT !.status = 401]
Text == [Reply EXCEPT !.snippet = "text", !.alert = TRUE]
Bytes == [Out EXCEPT !.snippet = "bytes", !.binary = TRUE]
Other == [Packet("own", 1, "x", 80) EXCEPT !.pid = 1]
Lan == [Packet("a", 1, "b", 2) EXCEPT !.alert = TRUE]
NextPort == Packet("a", 2, "x", 80)

Quiet ==
    [kinds |-> {Out}, length |-> 4, firstId |-> 7, persisting |-> FALSE, flows |-> FALSE,
     retention |-> 0, toggles |-> 0, restarts |-> 0, resets |-> 0, steps |-> {1}, until |-> 0,
     of |-> "packets", only |-> << >>, plan |-> Reads(<< >>, << >>)]

\* Requests and answers, in memory; the numbers pass from 9 to 10.
Web == [Quiet EXCEPT !.kinds = {Get, Login, Good, Bad}, !.until = 1]
\* Payloads, other flows of the two hosts, alerts; and the day ends.
Mixed == [Quiet EXCEPT !.kinds = {Text, Bytes, Other, Lan, NextPort}, !.length = 3, !.until = 2]
\* The same from the tables, across a restart.
StoredWeb == [Web EXCEPT !.kinds = {Login, Good}, !.length = 3, !.until = 0,
                         !.persisting = TRUE, !.restarts = 1]
StoredMixed == [Mixed EXCEPT !.kinds = {Text, Lan}, !.persisting = TRUE, !.until = 1]

\* Walks through the list, and single packets.
Expiring == [Quiet EXCEPT !.steps = {2}, !.until = 2]
MemoryWalk == [Expiring EXCEPT !.plan = Reads(<<0>>, << >>), !.resets = 1]
StoredWalk == [Expiring EXCEPT !.plan = Reads(<<0>>, << >>), !.length = 3, !.persisting = TRUE]
TurnedWalk == [Expiring EXCEPT !.plan = Reads(<<0>>, << >>), !.length = 2, !.toggles = 1,
                               !.kinds = {Out, Login}, !.only = [alert |-> TRUE]]
\* The same through the alerts, those about traffic with the rest of the world.
RemoteAlerts == [Expiring EXCEPT !.plan = Reads(<<0>>, << >>), !.kinds = {Login, Lan}, !.length = 3,
                                 !.of = "alerts", !.only = [remote |-> TRUE]]
StoredAlertsOf == [RemoteAlerts EXCEPT !.persisting = TRUE, !.until = 0,
                                        !.only = [dst |-> "b", pid |-> 0]]
TwoWalks == [Expiring EXCEPT !.plan = Reads(<<0>>, <<0>>), !.length = 2]
Lookups == [Quiet EXCEPT !.plan = Reads(<<8, 8, 8>>, << >>), !.length = 1, !.persisting = TRUE,
                         !.until = 3, !.toggles = 1]
\* A clean-up on empty tables, so that a later one deletes.
Deletion == [Expiring EXCEPT !.plan = Reads(<<0>>, << >>), !.length = 2, !.flows = TRUE,
                             !.toggles = 1, !.retention = 1]

NoStory == [Quiet EXCEPT !.length = 0]
MCStories ==
    {NoStory, Web, Mixed, StoredWeb, StoredMixed,
     MemoryWalk, StoredWalk, TurnedWalk, Lookups, TwoWalks, Deletion, RemoteAlerts,
     StoredAlertsOf}

\* Packets are written and grow old, and the clean-up runs.
MCRetention == {[Quiet EXCEPT !.length = 2, !.persisting = TRUE, !.retention = 1, !.until = 3]}

=============================================================================
