---------------------------- MODULE DeliveryQueue ----------------------------
(***************************************************************************)
(* What the outbox promises to those who put e-mails into it: nothing that *)
(* was put in is forgotten, what is done was delivered first, and whatever *)
(* can be delivered is done in the end.  How often something is delivered  *)
(* is not promised.                                                        *)
(***************************************************************************)
CONSTANTS
    Item,
    Undeliverable   \* items whose delivery fails each time

VARIABLES pending, delivered, done

queue == <<pending, delivered, done>>

Init == pending = {} /\ delivered = {} /\ done = {}

Put(i) ==
    /\ i \notin pending \cup done
    /\ pending' = pending \cup {i}
    /\ UNCHANGED <<delivered, done>>

\* Twice, or again when it is done: a consumer may be late.
Deliver(i) ==
    /\ i \in pending \cup done
    /\ i \notin Undeliverable
    /\ delivered' = delivered \cup {i}
    /\ UNCHANGED <<pending, done>>

Complete(i) ==
    /\ i \in pending \cap delivered
    /\ pending' = pending \ {i}
    /\ done' = done \cup {i}
    /\ UNCHANGED delivered

Next == \E i \in Item : Put(i) \/ Deliver(i) \/ Complete(i)

Liveness == \A i \in Item \ Undeliverable : i \in pending ~> i \in done

Safety == Init /\ [][Next]_queue
Spec == Safety /\ Liveness
=============================================================================
