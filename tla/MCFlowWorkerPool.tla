-------------------------- MODULE MCFlowWorkerPool --------------------------
(***************************************************************************)
(* FlowWorkerPool for TLC: two lanes, of capacities two and one (the       *)
(* remainder goes to the first).  Both directions of the conversation of   *)
(* hosts 1 and 2 go to the second lane, which three packets overflow       *)
(* twice; the conversation of hosts 1 and 3 goes to the first.             *)
(***************************************************************************)
EXTENDS FlowWorkerPool, TLC

CONSTANTS s1, s2

MCSubmitters == {s1, s2}
There == [src |-> 1, dst |-> 2]
Back == [src |-> 2, dst |-> 1]
Aside == [src |-> 1, dst |-> 3]
MCPackets == {There, Back, Aside}
\* Host 2 is what the two directions differ in, would only the source count.
MCHash(key) == IF 2 \in key THEN 1 ELSE 0
\* reject_new takes the way of block_short's timeout.
MCPolicies == {"drop_oldest", "drop_newest", "block_short"}
MCTraffics == { (s1 :> <<There, Back>> @@ s2 :> <<There>>),
                (s1 :> <<There, Aside>> @@ s2 :> <<Aside>>) }
=============================================================================
