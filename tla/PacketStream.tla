---------------------------- MODULE PacketStream ----------------------------
(***************************************************************************)
(* What the transmit path of the transceiver task promises to the handlers *)
(* that use it: packets leave whole, once and in the order in which they   *)
(* were given; only a packet given to an idle path leaves at once; and     *)
(* when the transport has failed nothing leaves any more.                  *)
(***************************************************************************)
EXTENDS Sequences

CONSTANT Packet     \* the packets

VARIABLES
    backlog,        \* given and not completely written
    emitted,        \* completely written
    alive           \* the transport works

vars == <<backlog, emitted, alive>>

Init ==
    /\ \E p \in Packet : backlog = <<p>>
    /\ emitted = <<>>
    /\ alive = TRUE

AcceptAndEmit(p) ==
    /\ alive
    /\ backlog = <<>>
    /\ emitted' = Append(emitted, p)
    /\ UNCHANGED <<backlog, alive>>

Accept(p) ==
    /\ alive \/ backlog # <<>>
    /\ backlog' = Append(backlog, p)
    /\ UNCHANGED <<emitted, alive>>

Emit ==
    /\ alive
    /\ backlog # <<>>
    /\ emitted' = Append(emitted, Head(backlog))
    /\ backlog' = Tail(backlog)
    /\ UNCHANGED alive

Break ==
    /\ alive
    /\ alive' = FALSE
    /\ UNCHANGED <<backlog, emitted>>

\* The packet whose write has failed is gone.
Lose ==
    /\ ~alive
    /\ backlog # <<>>
    /\ backlog' = Tail(backlog)
    /\ UNCHANGED <<emitted, alive>>

Next ==
    \/ \E p \in Packet : AcceptAndEmit(p) \/ Accept(p)
    \/ Emit \/ Break \/ Lose

Spec == Init /\ [][Next]_vars

=============================================================================
