--------------------------- MODULE MCPublishFlow ---------------------------
(* Small instances of PublishFlow.                                         *)
EXTENDS PublishFlow

CONSTANTS
    Once,           \* the messages of QoS 2
    Repeated        \* the messages of QoS 1; the others are of QoS 0

MCQoS == [m \in OutMsgs \cup InMsgs |->
            IF m \in Once THEN 2 ELSE IF m \in Repeated THEN 1 ELSE 0]
MCInId == [m \in InMsgs |-> 1]

Outgoing == INSTANCE Delivery WITH
    Messages <- OutMsgs, Repeatable <- OutMsgs \cap Repeated,
    sent <- {s.msg : s \in submitted}, got <- b_got, confirmed <- {n.msg : n \in notified}

\* PUBACK may reach the broker while the handler that has written it is about to
\* dispatch the message: a message of QoS 1 counts from there.
Handed == IF dispatching \in Repeated THEN Bump(dispatched, dispatching) ELSE dispatched

Incoming == INSTANCE Delivery WITH
    Messages <- InMsgs, Repeatable <- InMsgs \cap Repeated,
    sent <- b_sent, got <- Handed, confirmed <- b_done

\* What the client publishes is delivered as its quality of service says,
\* exactly once for QoS 2, and its futures complete only after the broker has
\* the message: the handlers of PUBACK, PUBREC and PUBCOMP and the
\* retransmission implement Delivery.
OutgoingDelivered == Outgoing!Spec

\* What the broker publishes reaches the subscribers as its quality of
\* service says, even when the broker uses an id again at once: exactly once for
\* QoS 2, before the handshake is over; and for QoS 1 when PUBACK has been read
\* it has been dispatched or is what the task does next.
IncomingDelivered == Incoming!Spec

=============================================================================
