------------------------------ MODULE MCStores ------------------------------
(***************************************************************************)
(* What the backend keeps besides the traffic, for TLC: the agents         *)
(* (AgentRegistry), the settings (Settings), the custom filters            *)
(* (SavedFilters), and the flows that a flow service stores itself         *)
(* (FlowSnapshots).  They share no state: each initial state begins one of *)
(* them and the others stand still.                                        *)
(***************************************************************************)
EXTENDS AgentRegistry, Settings, SavedFilters, FlowSnapshots, TLC

CONSTANTS host, demo, t1, t2

VARIABLE part

Parts == {"agents", "settings", "filters", "flows"}

\* A part that stands still has one initial state.
StoresInit ==
    /\ part \in Parts
    /\ Init /\ SettingsInit /\ FiltersInit /\ FlowsInit
    /\ part # "agents" => store = "sqlite"
    /\ part # "settings" => file = Truncated
    /\ part # "flows" => batching

Only(name) == part = name /\ UNCHANGED part
StoresNext ==
    \/ Only("agents") /\ Next /\ UNCHANGED <<settingsVars, filterVars, flowVars>>
    \/ Only("settings") /\ SettingsNext /\ UNCHANGED <<vars, filterVars, flowVars>>
    \/ Only("filters") /\ FiltersNext /\ UNCHANGED <<vars, settingsVars, flowVars>>
    \/ Only("flows") /\ FlowsNext /\ UNCHANGED <<vars, settingsVars, filterVars>>

\* The fairness of AgentRegistry and of FlowSnapshots, for the part that runs.
StoresSpec ==
    /\ StoresInit /\ [][StoresNext]_<<part, vars, settingsVars, filterVars, flowVars>>
    /\ \A a \in Agents : /\ WF_vars(part = "agents" /\ Begin(a))
                         /\ WF_vars(part = "agents" /\ \E t \in Threads : Send(a, t))
    /\ \A t \in Threads : WF_vars(part = "agents" /\ Serve(t))
    /\ WF_flowVars(part = "flows" /\ WriterStep)

Quiet == [critical |-> 0, high |-> 0, medium |-> 0, low |-> 1, cpu |-> 80,
          memory |-> 50, disk |-> 60, captureError |-> FALSE, traffic |-> 10]

MCAgents   == {host}
MCDemo     == {demo}
MCThreads  == {t1, t2}
MCPayloads == {Quiet}
MCKinds == {"sqlite", "jsonl"}

MCKeys == {"persist_logs", "mask_ip_logs"}
MCDefaults == [k \in MCKeys |-> FALSE]
MCUpdates == {"persist_logs" :> TRUE, "persist_logs" :> FALSE, "mask_ip_logs" :> TRUE}

MCOwnerOf == "f1" :> t1 @@ "f2" :> t2

\* Every report gets through where agents run, see ReportsGetThrough in AgentRegistry.
EveryReportGetsThrough == part = "agents" => ReportsGetThrough
=============================================================================
