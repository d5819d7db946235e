----------------------------- MODULE LossyFifo -----------------------------
(***************************************************************************)
(* What a bounded intake queue of NetBotPro promises to the two sides of   *)
(* it: packets come out once, in the order in which they went in; a packet *)
(* that does not come out was given up at one end, the oldest one waiting  *)
(* (drop_oldest) or the one that arrives (drop_newest, and the refusal     *)
(* after a failed drop_oldest), and never both given up and handed on.     *)
(* docs/PERFORMANCE_PIPELINE.md describes the two policies in these terms. *)
(***************************************************************************)
EXTENDS Sequences, Functions

CONSTANT Item

VARIABLES channel,      \* the items waiting, oldest first
          taken,        \* the items handed to the consumer, in that order
          lost          \* the items given up

vars == <<channel, taken, lost>>

Known == Range(channel) \cup Range(taken) \cup lost

Init == /\ channel = << >>
        /\ taken = << >>
        /\ lost = {}

Send(x) == /\ x \notin Known
           /\ channel' = Append(channel, x)
           /\ UNCHANGED <<taken, lost>>

Take == /\ channel # << >>
        /\ taken' = Append(taken, Head(channel))
        /\ channel' = Tail(channel)
        /\ UNCHANGED lost

LoseOldest == /\ channel # << >>
              /\ lost' = lost \cup {Head(channel)}
              /\ channel' = Tail(channel)
              /\ UNCHANGED taken

RefuseNewest(x) == /\ x \notin Known
                   /\ lost' = lost \cup {x}
                   /\ UNCHANGED <<channel, taken>>

Next == \/ Take
        \/ LoseOldest
        \/ \E x \in Item : Send(x) \/ RefuseNewest(x)

Spec == Init /\ [][Next]_vars
=============================================================================
