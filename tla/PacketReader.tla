---------------------------- MODULE PacketReader ----------------------------
(***************************************************************************)
(* Packets on their way through the byte stream: the sender encodes them   *)
(* (PacketCodec), the bytes arrive in any portions, and the receiver cuts  *)
(* the stream into packets and decodes them.                               *)
(*                                                                         *)
(* On the side of the client that is PacketReader                          *)
(* (src/transceiver/packet_reader.rs) and the loop of the read branch that *)
(* drives it (task_step, src/transceiver/mod.rs).  On the side of the      *)
(* broker it is the broker of the tests (src/tests/mini_broker), which is  *)
(* the code that says what the packets of the client have to look like.    *)
(*                                                                         *)
(* What is inside a packet may be anything (packets of the type "Raw"),    *)
(* and there may be bytes whose size field does not end within             *)
(* MAX_HEADER_SIZE (the type "Unsized").                                   *)
(***************************************************************************)
EXTENDS PacketCodec

CONSTANTS
    MAX_PACKET_SIZE,
    Singles,            \* side |-> sequence of sets of packets sent alone to that side
    Chain,              \* packets sent to the client in any order
    MaxPackets,         \* bound: packets of a chain
    None

ASSUME ReaderAssumption ==
    /\ MaxPackets \in Nat
    /\ MAX_PACKET_SIZE \in Nat
    /\ MAX_PACKET_SIZE > MAX_HEADER_SIZE + Digit ^ (MAX_HEADER_SIZE - 1)
    /\ DOMAIN Singles = {"client", "broker"}

VARIABLES
    side,           \* the receiver
    input,          \* the packets to be sent
    sent,           \* how many of them have been encoded
    encoder,        \* "ok" or "panicked"
    wire,           \* the bytes of the packets that were encoded
    arrived,        \* bytes that have arrived
    peer_closed,
    taken,          \* bytes that `read` has returned
    bytes, size,    \* of the reader
    loop,           \* where the read branch is
    incoming        \* packets given to process_packet

sender == <<side, input, sent, encoder, wire>>
vars == <<sender, arrived, peer_closed, taken, bytes, size, loop, incoming>>

-----------------------------------------------------------------------------
(* The sender.                                                             *)

Init ==
    /\ \/ \E s \in {"client", "broker"} : \E c \in DOMAIN Singles[s] : \E p \in Singles[s][c] :
            side = s /\ input = <<p>>
       \/ side = "client" /\ input \in UNION {[1..n -> Chain] : n \in 1..MaxPackets}
    /\ sent = 0 /\ encoder = "ok" /\ wire = <<>>
    /\ arrived = 0 /\ peer_closed = FALSE /\ taken = 0
    /\ bytes = <<>> /\ size = None
    /\ loop = "waiting"
    /\ incoming = <<>>

\* An encoded packet, or bytes that no encoder has made.
Encoded(p) ==
    IF p.type = "Unsized" THEN [panic |-> FALSE, bytes |-> p.bytes] ELSE make_packet(p)

\* All packets are encoded before a byte arrives: what has arrived is some part
\* of the whole stream either way.
Send ==
    /\ encoder = "ok" /\ sent < Len(input) /\ arrived = 0 /\ ~peer_closed
    /\ LET made == Encoded(input[sent + 1]) IN
       \/ /\ ~made.panic
          /\ wire' = wire \o made.bytes /\ sent' = sent + 1 /\ UNCHANGED encoder
       \/ /\ made.panic
          /\ encoder' = "panicked" /\ UNCHANGED <<wire, sent>>
    /\ UNCHANGED <<side, input, arrived, peer_closed, taken, bytes, size, loop, incoming>>

Arrive(n) ==
    /\ ~peer_closed
    /\ sent = Len(input) \/ encoder = "panicked"
    /\ arrived + n <= Len(wire)
    /\ arrived' = arrived + n
    /\ UNCHANGED <<sender, peer_closed, taken, bytes, size, loop, incoming>>

PeerCloses ==
    /\ ~peer_closed
    /\ peer_closed' = TRUE
    /\ UNCHANGED <<sender, arrived, taken, bytes, size, loop, incoming>>

-----------------------------------------------------------------------------
(* The reader.                                                             *)

\* Fault: the byte that ends the size is seen only when another one follows it.
SizeOneShort(bs) ==
    LET ends == {i \in 2..(Len(bs) - 1) : bs[i] < Digit}
        pos == Min(ends)
    IN IF ends = {} THEN None
       ELSE [size |-> pos + MapThenSumSet(LAMBDA i : (bs[i] % Digit) * Digit ^ (i - 2), 2..pos),
             start_offset |-> pos]

\* The size of the first packet of bs, if all of its size field is there.
SizeInfo(bs) ==
    LET ends == {i \in 2..Len(bs) : bs[i] < Digit}
        pos == Min(ends)
    IN IF ends = {} THEN None
       ELSE [size |-> pos + MapThenSumSet(LAMBDA i : (bs[i] % Digit) * Digit ^ (i - 2), 2..pos),
             start_offset |-> pos]

\* Never so for a size of at most MAX_HEADER_SIZE - 1 digits.
TooLarge(bs) == SizeInfo(bs) # None /\ SizeInfo(bs).size > MAX_PACKET_SIZE

\* What `read` returns when n bytes are asked for.
Read(n) == SubSeq(wire, taken + 1, taken + Min({n, arrived - taken}))

\* The reader has the bytes bs and looks for the size of the next packet.
ParseSize(bs) ==
    /\ bytes' = IF TooLarge(bs) THEN <<>> ELSE bs
    /\ size' = IF TooLarge(bs) THEN size ELSE SizeInfo(bs)

\* Nothing to read: the loop ends until the transport is readable again, or
\* the connection is closed.
NoData ==
    /\ arrived = taken
    /\ loop' = IF peer_closed THEN "closed" ELSE "waiting"
    /\ UNCHANGED <<sender, arrived, peer_closed, taken, bytes, size, incoming>>

\* The bytes behind the packet, which belong to the next ones.
Rest(bs) == SubSeq(bs, size.size + 1, Len(bs))

\* Fault: the next size is only looked for when more bytes come.
RestartUnparsed(bs) == bytes' = bs /\ size' = None

\* What is left behind a packet may hold the next one.
Restart(bs) == ParseSize(bs)

\* What is decoded.
Body(bs) == SubSeq(bs, size.start_offset + 1, size.size)

\* The packet is complete: it is decoded and taken out of the buffer.
Complete(bs) ==
    LET rest == Rest(bs)
        ret == from_bytes("client", Body(bs), bs[1])
    IN /\ Restart(rest)
       /\ \/ /\ ret.st = "ok" /\ ~TooLarge(rest)
             /\ incoming' = Append(incoming, Seen(ret.val)) /\ loop' = "reading"
          \/ /\ ret.st # "ok" \/ TooLarge(rest)
             /\ loop' = "failed" /\ UNCHANGED incoming

\* recv while the rest of a packet is awaited; it may be in the buffer.
RecvContent ==
    /\ loop = "reading" /\ size # None
    /\ LET n == IF Len(bytes) < size.size THEN size.size - Len(bytes) ELSE 0
           got == Read(n)
           bs == bytes \o got
       IN \/ n > 0 /\ NoData
          \/ /\ n = 0 \/ got # <<>>
             /\ taken' = taken + Len(got)
             /\ \/ Len(bs) >= size.size /\ Complete(bs)
                \/ Len(bs) < size.size /\ bytes' = bs /\ UNCHANGED <<size, loop, incoming>>
             /\ UNCHANGED <<sender, arrived, peer_closed>>

\* recv while the fixed header is awaited.  With MAX_HEADER_SIZE bytes in the
\* buffer and no size among them it reads nothing, and the loop goes round.
RecvHeader ==
    /\ loop = "reading" /\ size = None
    /\ LET n == MAX_HEADER_SIZE - Len(bytes)
           got == Read(n)
           bs == bytes \o got
       IN \/ n > 0 /\ NoData
          \/ /\ n = 0 \/ got # <<>>
             /\ taken' = taken + Len(got)
             /\ ParseSize(bs)
             /\ loop' = IF TooLarge(bs) THEN "failed" ELSE "reading"
             /\ UNCHANGED <<sender, arrived, peer_closed, incoming>>

\* The read branch is chosen.
Readable ==
    /\ side = "client" /\ loop = "waiting"
    /\ arrived > taken \/ peer_closed
    /\ loop' = "reading"
    /\ UNCHANGED <<sender, arrived, peer_closed, taken, bytes, size, incoming>>

\* The broker reads a packet in whole, decodes it and insists on it.
BrokerRecv ==
    LET info == SizeInfo(SubSeq(wire, taken + 1, arrived))
        start == taken + info.start_offset
        end == taken + info.size
        ret == from_bytes("broker", SubSeq(wire, start + 1, end), wire[taken + 1])
    IN /\ side = "broker" /\ loop = "waiting"
       /\ info # None /\ end <= arrived
       /\ taken' = end
       /\ \/ /\ ret.st = "ok" /\ ret.rest = <<>>
             /\ incoming' = Append(incoming, Seen(ret.val)) /\ UNCHANGED loop
          \/ /\ ret.st # "ok" \/ ret.rest # <<>>
             /\ loop' = "failed" /\ UNCHANGED incoming
       /\ UNCHANGED <<sender, arrived, peer_closed, bytes, size>>

Next ==
    \/ Send
    \/ \E n \in 1..Len(wire) : Arrive(n)
    \/ PeerCloses
    \/ Readable \/ RecvContent \/ RecvHeader
    \/ BrokerRecv

Spec == Init /\ [][Next]_vars

-----------------------------------------------------------------------------
(* Properties.                                                             *)

\* What the receiver of a packet is told: an identifier does not travel with
\* a message of QoS 0, and PublishPacketInfo promises zero in its place.
Received(p) == IF p.type = "Publish" /\ p.qos = 0 THEN [p EXCEPT !.packet_id = 0] ELSE p

\* The packets that reach the receiver are the packets of the sender, field by
\* field, in order and without a gap, wherever the stream was cut into portions;
\* in both directions and for every type of packet.
PacketsInOrder ==
    /\ Len(incoming) <= sent
    /\ \A k \in DOMAIN incoming : incoming[k] = Received(input[k])

\* The arrays of a packet that have their length in a u16.
Arrays(p) ==
    CASE p.type = "Connect" -> Range(ConnectArrays(p))
      [] p.type = "Publish" -> {p.topic}
      [] p.type = "Subscribe" -> {p.topics[i].topic : i \in DOMAIN p.topics}
      [] p.type = "Unsubscribe" -> Range(p.topics)
      [] OTHER -> {}

\* Encoding panics when an array is too wide or the packet too large for the
\* format, and for no other reason: the size that is counted beforehand is the
\* number of bytes that are written.  What does not fit never gets out.
EncodesWhatFits ==
    LET Fits(p) ==
        p.type # "Unsized" =>
            /\ \A s \in Arrays(p) : Len(s) < U16Byte ^ 2
            /\ compute_size(p) < Digit ^ (MAX_HEADER_SIZE - 1)
    IN /\ \A k \in 1..sent : Fits(input[k])
       /\ encoder = "panicked" => ~Fits(input[sent + 1])

\* The packet that is to come next is of the type t.
NextIs(t) == Len(incoming) < Len(input) /\ input[Len(incoming) + 1].type = t

\* The receiver gives up only when the very next packet is malformed: what is
\* in the buffer behind a good packet never takes that packet with it.
FailsOnBad == loop = "failed" => NextIs("Raw")

\* When the read branch ends because there is nothing more to read, no packet
\* that has arrived is left in the buffer, where nothing would bring it up
\* before the peer sends something else.
NothingHeldBack ==
    LET EndOf(k) == Sum([i \in 1..k |-> Len(Encoded(input[i]).bytes)]) IN
    side = "client" /\ loop = "waiting" /\ arrived = taken =>
        \A k \in 1..sent : EndOf(k) <= taken => k <= Len(incoming)

\* While the header is awaited there is room for a byte of it, so that recv
\* reads something or finds nothing to read, and the loop of the read branch
\* ends.  Does not hold: nothing refuses a size field that does not end.
HeaderRoom == loop # "failed" /\ size = None => Len(bytes) < MAX_HEADER_SIZE

\* That is the only way for the loop to go round for ever, with no branch of
\* select! served any more: however the stream is cut, and whatever is left
\* over from the packet before, no size that ends in time leads there.
SpinsOnlyOnUnsized == HeaderRoom \/ NextIs("Unsized")

=============================================================================
