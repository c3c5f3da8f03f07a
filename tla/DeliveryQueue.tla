---------------------------- MODULE DeliveryQueue ----------------------------
(***************************************************************************)
(* What a queue between a reader of registers and a user's callback        *)
(* promises: items are delivered in the order they were sent, each at most *)
(* once, and nothing is sent after the queue was closed.  Items sent       *)
(* before the close may still be delivered after it, or never.             *)
(***************************************************************************)
EXTENDS Naturals, Sequences

CONSTANT Item

VARIABLES sent, got, open
vars == <<sent, got, open>>

Init == sent = <<>> /\ got = <<>> /\ open = TRUE

Send == open /\ (\E x \in Item : sent' = Append(sent, x)) /\ UNCHANGED <<got, open>>

Deliver ==
    /\ Len(got) < Len(sent)
    /\ got' = Append(got, sent[Len(got) + 1])
    /\ UNCHANGED <<sent, open>>

Close == open' = FALSE /\ UNCHANGED <<sent, got>>

Next == Send \/ Deliver \/ Close
Spec == Init /\ [][Next]_vars
=============================================================================
