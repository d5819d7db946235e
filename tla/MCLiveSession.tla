---------------------------- MODULE MCLiveSession ---------------------------
(***************************************************************************)
(* LiveSession for TLC: two workers, up to three packets, one reset.       *)
(***************************************************************************)
EXTENDS LiveSession

CONSTANTS w1, w2

MCWorkers == {w1, w2}
WorkerSymmetry == Permutations(MCWorkers)

MCLocalHosts == {"pc", "nas"}
MCPortProtocols == 53 :> "DNS" @@ 443 :> "TLS" @@ 80 :> "HTTP"
MCServiceOf == "mail.example" :> "Mail" @@ "files.example" :> "Files"
MCOwnerOf == "Mail Inc" :> [service |-> "Mail", cdn |-> FALSE]
             @@ "Edge" :> [service |-> "Edge", cdn |-> TRUE]
MCCategories == {"packet", "flow", "alert", "expert_info", "incident"}
MCCapacity == [c \in MCCategories |-> IF c = "packet" THEN 2 ELSE 3]

Plain == [src |-> "pc", dst |-> "web", sport |-> 5000, dport |-> 443, proto |-> "TCP",
          direction |-> "OUTGOING", app |-> "TLS", decoded |-> {}, payload |-> "",
          metadata |-> "m1", length |-> 1, nxdomain |-> FALSE, unusual |-> FALSE,
          sensitive |-> FALSE, alerts |-> << >>, rst |-> FALSE, fragment |-> FALSE,
          old_tls |-> FALSE, http_error |-> FALSE, host |-> "", sni |-> "", query |-> "",
          org |-> ""]
Back == [Plain EXCEPT !.src = "web", !.dst = "pc", !.sport = 443, !.dport = 5000,
                      !.direction = "INCOMING", !.length = 2]
Named == [Plain EXCEPT !.sni = "mail.example", !.org = "Mail Inc", !.metadata = "m2"]
Alarmed == [Plain EXCEPT !.alerts = <<"high", "low">>]
Lookup == [Plain EXCEPT !.dst = "dns", !.dport = 53, !.proto = "UDP", !.app = "UNKNOWN",
                        !.decoded = {"DNS"}, !.nxdomain = TRUE, !.query = "files.example"]
Odd == [Plain EXCEPT !.dport = 9999, !.app = "UNKNOWN", !.payload = "SSH", !.unusual = TRUE,
                     !.sensitive = TRUE, !.org = "Edge", !.rst = TRUE]
Silent == [Odd EXCEPT !.payload = "", !.rst = FALSE]
LookupOdd == [Lookup EXCEPT !.dport = 99]
Inside == [Plain EXCEPT !.direction = "LOCAL", !.dst = "nas", !.src = "pc", !.dport = 445]
Toward == [Plain EXCEPT !.direction = "OTHER", !.src = "nas", !.dport = 80, !.app = "HTTP",
                        !.metadata = "m3"]
Stray == [Plain EXCEPT !.direction = "OTHER", !.src = "web", !.dst = "dns"]

Full == [capture_mode |-> "full", payload_capture |-> TRUE]
Metadata == [Full EXCEPT !.capture_mode = "metadata"]

Session(ps, policy, length, rs, readers) ==
    [packets |-> ps, settings |-> policy, duration |-> length, resets |-> rs,
     readers |-> readers]
NoSession == Session(<< >>, Full, 0, 0, 0)
MCCaptures ==
    {NoSession} \cup
    \* No reset: the order of what is shown, and what the flow table makes of it.
    {Session(<<Alarmed, Back, Odd>>, Full, 0, 0, 0), Session(<<Plain, Toward, Named>>, Full, 0, 0, 0),
     Session(<<Alarmed, Named, Plain>>, Full, 0, 0, 0), Session(<<Lookup, Lookup, Lookup>>, Full, 0, 0, 0),
     Session(<<Stray, LookupOdd, Lookup>>, Full, 0, 0, 0), Session(<<Inside, Silent, Odd>>, Full, 0, 0, 0),
     Session(<<Alarmed, Odd, Silent>>, Metadata, 0, 0, 0)}
    \* A reset, of two lanes and of one; in the latter a conversation is read meanwhile.
    \cup {Session(<<Alarmed, Odd>>, Full, 0, 1, 0), Session(<<Plain, Back, Named>>, Full, 0, 1, 1)}
    \* Records expire.
    \cup {Session(<<Plain, Back>>, Full, 2, 0, 1), Session(<<Plain, Inside>>, Full, 2, 0, 1)}
=============================================================================
