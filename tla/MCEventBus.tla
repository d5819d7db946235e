----------------------------- MODULE MCEventBus -----------------------------
(***************************************************************************)
(* EventBus for TLC, with two mixes of traffic: two workers that publish   *)
(* packets (buffers of two); or a worker that publishes a dashboard        *)
(* summary, one that publishes an event of no category, and the lifespan   *)
(* thread, which publishes a summary after it closed the bus.  One client, *)
(* whose queue holds one batch.                                            *)
(***************************************************************************)
EXTENDS EventBus, TLC

CONSTANTS w1, w2, lifespan, c1

MCPublishers == {w1, w2, lifespan}
MCClients == {c1}
MCScripts == { (w1 :> <<"packet", "packet">> @@ w2 :> <<"packet">> @@ lifespan :> << >>),
               (w1 :> <<"dashboard">> @@ w2 :> <<"direct">> @@ lifespan :> <<"dashboard">>) }
\* No worker publishes during the shutdown.
MCShutdown == { (w1 :> << >> @@ w2 :> << >> @@ lifespan :> <<"dashboard">>) }
MCPolicies == {"coalesce", "drop_oldest", "drop_newest"}
=============================================================================
