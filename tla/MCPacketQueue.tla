--------------------------- MODULE MCPacketQueue ---------------------------
(***************************************************************************)
(* PacketQueue for TLC: two capture threads with two packets each on a     *)
(* queue of two, under both overflow policies.  Two threads are what it    *)
(* takes for one to lose the slot it freed; a queue of two tells the       *)
(* oldest packet from the newest; four packets overflow it twice at once.  *)
(***************************************************************************)
EXTENDS PacketQueue

CONSTANTS p1, p2

MCProducers == {p1, p2}
MCPolicies == {"drop_oldest", "drop_newest"}
=============================================================================
