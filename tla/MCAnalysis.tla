----------------------------- MODULE MCAnalysis -----------------------------
(***************************************************************************)
(* What a flow worker does with a packet that has been counted: it looks   *)
(* for attacks (DetectionPipeline) and correlates what it found            *)
(* (IncidentCorrelation), for TLC.  The two share no state: each initial   *)
(* state begins one of them and the other stands still.                    *)
(***************************************************************************)
EXTENDS MCDetectionPipeline, IncidentCorrelation

VARIABLE part

NoTraffic == << >>

AnalysisInit ==
    /\ Init /\ IncidentsInit
    /\ part \in {"windows", "incidents"}
    /\ part = "incidents" => traffic = NoTraffic /\ engine = "flood"
    /\ part = "windows" => traffic # NoTraffic
AnalysisNext ==
    \/ part = "windows" /\ Next /\ UNCHANGED <<part, incidentVars>>
    \/ part = "incidents" /\ IncidentsNext /\ UNCHANGED <<part, vars>>
AnalysisSpec == AnalysisInit /\ [][AnalysisNext]_<<part, vars, incidentVars>>

MCAllTraffics == MCTraffics \cup {NoTraffic}

MCNoHost == "none"
About(words, severity) == [about |-> words, severity |-> severity]
Packet(host, context, alerts, flow) ==
    [host |-> host, context |-> context, encrypted |-> FALSE, unknown |-> FALSE,
     large |-> FALSE, alerts |-> alerts, flow |-> flow, remarks |-> << >>]
Nothing == About({}, 1)

\* One host in two contexts that share no destination: an alert and a flow about DNS, a flow
\* alone, and an encrypted flow with remarks about two things.  Another host, with an alert and
\* nothing else.  A packet without a host.
MCEvidence ==
    {Packet("h1", "c1", <<About({"dns"}, 4)>>, About({"dns"}, 1)),
     Packet("h1", "c2", << >>, About({"dns", "rare"}, 1)),
     [Packet("h1", "c1", << >>, Nothing) EXCEPT
        !.encrypted = TRUE, !.remarks = <<About({"unknown encrypted"}, 2), About({"dns"}, 2)>>],
     Packet("h2", "c2", <<About({"dns"}, 3)>>, Nothing),
     Packet("none", "c2", << >>, About({"dns"}, 3))}
=============================================================================
