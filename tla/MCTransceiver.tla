--------------------------- MODULE MCTransceiver ---------------------------
(* Small instances of Transceiver: one or two PUBLISH packets, one kind of *)
(* reply; PUBLISH has three bytes, the others the two of a fixed header.   *)
EXTENDS Transceiver

MCSize == [p \in Packets |-> IF p \in Publishes THEN 3 ELSE 2]

=============================================================================
