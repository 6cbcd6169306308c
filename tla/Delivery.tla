------------------------------ MODULE Delivery ------------------------------
(***************************************************************************)
(* What publishing with an acknowledged quality of service promises: a     *)
(* message is delivered only if it was sent, a message that may not be     *)
(* repeated (QoS 2) is delivered once, and the sender is told of the       *)
(* delivery only after it has happened.                                    *)
(***************************************************************************)
EXTENDS Naturals

CONSTANTS
    Messages,
    Repeatable      \* the messages of QoS 1, delivered at least once

VARIABLES
    sent,           \* the messages sent so far
    got,            \* got[m]: how often m was delivered
    confirmed       \* the messages whose sender knows of the delivery

vars == <<sent, got, confirmed>>

Init ==
    /\ sent = {}
    /\ got = [m \in Messages |-> 0]
    /\ confirmed = {}

Send(m) ==
    /\ sent' = sent \cup {m}
    /\ UNCHANGED <<got, confirmed>>

Deliver(m) ==
    /\ m \in sent
    /\ got[m] = 0 \/ m \in Repeatable
    /\ got' = [got EXCEPT ![m] = @ + 1]
    /\ UNCHANGED <<sent, confirmed>>

Confirm(m) ==
    /\ got[m] > 0
    /\ confirmed' = confirmed \cup {m}
    /\ UNCHANGED <<sent, got>>

Next == \E m \in Messages : Send(m) \/ Deliver(m) \/ Confirm(m)

Spec == Init /\ [][Next]_vars

=============================================================================
