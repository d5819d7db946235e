------------------------- MODULE MCBatchPersistence -------------------------
(***************************************************************************)
(* BatchPersistence for TLC: two flow workers on a queue of two.  One      *)
(* stores snapshots of its flow, the other an urgent packet, with its      *)
(* alert where the flow has one snapshot: a large unit can be evicted by a *)
(* small one, a batch can hold history and flows, an alert can fail after  *)
(* its packet, and a snapshot can follow an older one into another batch.  *)
(***************************************************************************)
EXTENDS BatchPersistence, TLC

CONSTANTS p1, p2

MCProducers == {p1, p2}
WithAlert == [kinds |-> {"packet_record", "alert_record"}, urgent |-> TRUE]
FlowOnly == [kinds |-> {"flow_record"}, urgent |-> FALSE]
PacketOnly == [kinds |-> {"packet_record"}, urgent |-> TRUE]
MCScripts == {p1 :> <<FlowOnly, FlowOnly>> @@ p2 :> <<PacketOnly>>,
              p1 :> <<FlowOnly>> @@ p2 :> <<WithAlert>>}
MCDropScripts == {p1 :> <<FlowOnly, FlowOnly>> @@ p2 :> <<WithAlert>>}
MCPolicies == {"drop_oldest", "drop_newest"}
MCOldest == {"drop_oldest"}
MCBatchSize == [k \in Kinds |-> 2]
=============================================================================
