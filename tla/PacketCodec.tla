----------------------------- MODULE PacketCodec -----------------------------
(***************************************************************************)
(* The packets of MQTT v3.1.1 as bytes: what Encode::make_packet writes    *)
(* and what from_bytes reads (src/transceiver/packets.rs), through the     *)
(* ByteWriter and the ByteReader (src/transceiver/byte_io.rs).             *)
(*                                                                         *)
(* A packet is a record with the fields of its struct and its type; an     *)
(* Option is a sequence of at most one element, and a string is the        *)
(* sequence of its bytes.  A byte is a number.  Two numbers that are       *)
(* spread over bytes are scaled down: a byte of the size field carries a   *)
(* digit to the base Digit (2^7 in the code), a byte of a u16 one to the   *)
(* base U16Byte (2^8 in the code).                                         *)
(***************************************************************************)
EXTENDS Naturals, Sequences, FiniteSetsExt, SequencesExt

CONSTANTS
    Digit,              \* values of one byte of the size field
    U16Byte,            \* values of one byte of a u16
    MAX_HEADER_SIZE,
    MAX_STATIC_SUBS,
    NotUtf8             \* bytes that no UTF-8 text has

ASSUME CodecAssumption ==
    /\ Digit \in Nat /\ Digit > 1
    /\ U16Byte \in Nat /\ U16Byte > 1
    /\ MAX_HEADER_SIZE \in Nat /\ MAX_HEADER_SIZE > 1
    /\ MAX_STATIC_SUBS \in Nat

PacketType ==
    [Connect |-> 1, ConnAck |-> 2, Publish |-> 3, PubAck |-> 4, PubRec |-> 5, PubRel |-> 6,
     PubComp |-> 7, Subscribe |-> 8, SubAck |-> 9, Unsubscribe |-> 10, UnsubAck |-> 11,
     PingReq |-> 12, PingResp |-> 13, Disconnect |-> 14]

\* Packets that are nothing but an identifier, and those that are empty.
Simple == {"PubAck", "PubRec", "PubRel", "PubComp", "UnsubAck"}
Empty == {"PingReq", "Disconnect", "PingResp"}

\* The types that each side has a decoder for.
Both == {"Publish", "PubAck", "PubRec", "PubRel", "PubComp"}
Table(side) ==
    Both \cup IF side = "client" THEN {"ConnAck", "SubAck", "UnsubAck", "PingResp"}
              ELSE {"Connect", "Subscribe", "Unsubscribe", "PingReq", "Disconnect"}

Err == 3    \* the subscription result Err(()); Ok(qos) is the number qos

ServerConnectError ==
    <<"UnacceptableProtocolVersion", "IdentifierRejected", "ServerUnavailable",
      "BadUserNameOrPassword", "NotAuthorized">>

BitIf(cond, bit) == IF cond THEN bit ELSE 0
HasBit(byte, bit) == (byte \div bit) % 2 = 1

ControlField(type, flags) == PacketType[type] * 16 + flags

-----------------------------------------------------------------------------
(* Writing.                                                                *)

U16(n) == <<n \div U16Byte, n % U16Byte>>

\* A writer into a slice of n bytes.
ByteWriter(n) == [room |-> n, out |-> <<>>, panic |-> FALSE]

\* A write is a record of the bytes and of whether their number comes first.
Trivial(bs) == [bytes |-> bs, counted |-> FALSE]
Bytes(bs) == [bytes |-> bs, counted |-> TRUE]

Write(w, item) ==
    LET n == Len(item.bytes)
        bs == IF item.counted THEN U16(n) \o item.bytes ELSE item.bytes
    IN IF w.panic \/ (item.counted /\ n >= U16Byte ^ 2) \/ w.room < Len(bs)
       THEN [w EXCEPT !.panic = TRUE]
       ELSE [w EXCEPT !.room = @ - Len(bs), !.out = @ \o bs]

array_size(bs) == 2 + Len(bs)
Sum(s) == FoldLeft(LAMBDA a, b : a + b, 0, s)
SumSizes(arrays) == Sum([i \in DOMAIN arrays |-> array_size(arrays[i])])

\* The byte arrays of a CONNECT, in their order.
ConnectArrays(p) ==
    <<p.client_id>> \o FlattenSeq([i \in DOMAIN p.will |-> <<p.will[i].topic, p.will[i].message>>])
        \o p.username \o p.password

\* The bytes behind the fixed header, as they are counted beforehand.
compute_size(p) ==
    CASE p.type = "Connect" -> 10 + SumSizes(ConnectArrays(p))
      [] p.type = "ConnAck" -> 2
      [] p.type = "Publish" -> array_size(p.topic) + BitIf(p.qos >= 1, 2) + Len(p.payload)
      [] p.type \in Simple -> 2
      [] p.type = "Subscribe" -> 2 + Sum([i \in DOMAIN p.topics |-> array_size(p.topics[i].topic) + 1])
      [] p.type = "SubAck" -> Len(p.sub_results) + 2
      [] p.type = "Unsubscribe" -> 2 + SumSizes(p.topics)
      [] p.type \in Empty -> 0
      [] p.type = "Raw" -> Len(p.content)

connect_flags(p) ==
    BitIf(p.clean_session, 2) + BitIf(p.password # <<>>, 64) + BitIf(p.username # <<>>, 128)
        + Sum([i \in DOMAIN p.will |-> 4 + p.will[i].qos * 8 + BitIf(p.will[i].retain, 32)])

EncodeConnect(p) ==
    <<Trivial(U16(4) \o <<77, 81, 84, 84, 4, connect_flags(p)>> \o U16(p.keep_alive))>>
        \o [i \in DOMAIN ConnectArrays(p) |-> Bytes(ConnectArrays(p)[i])]

EncodeConnAck(p) ==
    <<Trivial(CASE p.error = "none" -> <<BitIf(p.session, 1), 0>>
                [] p.error = "Unknown" -> <<0, p.code>>
                [] OTHER -> <<0, SelectInSeq(ServerConnectError, LAMBDA e : e = p.error)>>)>>

\* Fault: a message of QoS 0 has its identifier, too.
EncodePublishAlwaysId(p) ==
    <<Bytes(p.topic), Trivial(U16(p.packet_id)), Trivial(p.payload)>>

EncodePublish(p) ==
    <<Bytes(p.topic)>> \o (IF p.qos >= 1 THEN <<Trivial(U16(p.packet_id))>> ELSE <<>>)
        \o <<Trivial(p.payload)>>

EncodeSubscribe(p) ==
    <<Trivial(U16(p.packet_id))>>
        \o FlattenSeq([i \in DOMAIN p.topics |-> <<Bytes(p.topics[i].topic), Trivial(<<p.topics[i].qos>>)>>])

EncodeSubAck(p) ==
    <<Trivial(U16(p.packet_id))>>
        \o [i \in DOMAIN p.sub_results |-> Trivial(<<IF p.sub_results[i] = Err THEN 128 ELSE p.sub_results[i]>>)]

EncodeUnsubscribe(p) ==
    <<Trivial(U16(p.packet_id))>> \o [i \in DOMAIN p.topics |-> Bytes(p.topics[i])]

\* The writes of a packet.
encode(p) ==
    CASE p.type = "Connect" -> EncodeConnect(p)
      [] p.type = "ConnAck" -> EncodeConnAck(p)
      [] p.type = "Publish" -> EncodePublish(p)
      [] p.type \in Simple -> <<Trivial(U16(p.packet_id))>>
      [] p.type = "Subscribe" -> EncodeSubscribe(p)
      [] p.type = "SubAck" -> EncodeSubAck(p)
      [] p.type = "Unsubscribe" -> EncodeUnsubscribe(p)
      [] p.type \in Empty -> <<>>
      [] p.type = "Raw" -> <<Trivial(p.content)>>

PublishFlags(p) == p.qos * 2 + BitIf(p.dup, 8) + BitIf(p.retain, 1)

Control(p) ==
    CASE p.type = "Raw" -> p.ctrl
      [] p.type = "Publish" -> ControlField("Publish", PublishFlags(p))
      [] p.type \in {"PubRel", "Subscribe", "Unsubscribe"} -> ControlField(p.type, 2)
      [] OTHER -> ControlField(p.type, 0)

RECURSIVE encode_packet_size(_)
encode_packet_size(sz) ==
    IF sz < Digit THEN <<sz>> ELSE <<(sz % Digit) + Digit>> \o encode_packet_size(sz \div Digit)

\* The packet as bytes, or a panic: a size that needs too many bytes, an array
\* that is too wide, writes that do not fit, or room that is left.
make_packet(p) ==
    LET content_sz == compute_size(p)
        header == <<Control(p)>> \o encode_packet_size(content_sz)
        wr == FoldLeft(Write, ByteWriter(content_sz), encode(p))
    IN [panic |-> Len(header) > MAX_HEADER_SIZE \/ wr.panic \/ wr.room > 0,
        bytes |-> header \o wr.out]

-----------------------------------------------------------------------------
(* Reading.  A read gives a value and the bytes that are left, or the      *)
(* state "err" or "panic".                                                 *)

Got(val, rest) == [st |-> "ok", val |-> val, rest |-> rest]
Fail(st) == [st |-> st]
Then(r, Op(_, _)) == IF r.st = "ok" THEN Op(r.val, r.rest) ELSE r
Asserted(cond, r) == IF cond THEN r ELSE Fail("panic")

read_trivial(bs, n) ==
    IF Len(bs) < n THEN Fail("err") ELSE Got(SubSeq(bs, 1, n), SubSeq(bs, n + 1, Len(bs)))

read_u16(bs) == Then(read_trivial(bs, 2), LAMBDA b, rest : Got(b[1] * U16Byte + b[2], rest))

read_byte_array(bs) == Then(read_u16(bs), LAMBDA n, rest : read_trivial(rest, n))

read_utf8(bs) ==
    Then(read_byte_array(bs), LAMBDA s, rest :
        IF \E i \in DOMAIN s : s[i] \in NotUtf8 THEN Fail("err") ELSE Got(s, rest))

\* An Option that is there when cond holds.
Option(cond, bs, Read(_)) ==
    IF cond THEN Then(Read(bs), LAMBDA v, rest : Got(<<v>>, rest)) ELSE Got(<<>>, bs)

DecodeWill(f, bs) ==
    Then(read_utf8(bs), LAMBDA topic, r1 :
    Then(read_byte_array(r1), LAMBDA message, rest :
    Asserted((f \div 8) % 4 < 3,
        Got([topic |-> topic, message |-> message, retain |-> HasBit(f, 32), qos |-> (f \div 8) % 4], rest))))

DecodeConnect(bs, flags) ==
    Asserted(flags = 0, Then(read_trivial(bs, 10), LAMBDA hdr, r1 :
    Asserted(SubSeq(hdr, 1, 7) = U16(4) \o <<77, 81, 84, 84, 4>>,
    LET f == hdr[8] IN
    Then(read_utf8(r1), LAMBDA client_id, r2 :
    Then(Option(HasBit(f, 4), r2, LAMBDA r : DecodeWill(f, r)), LAMBDA will, r3 :
    Then(Option(HasBit(f, 128), r3, read_utf8), LAMBDA username, r4 :
    Then(Option(HasBit(f, 64), r4, read_byte_array), LAMBDA password, rest :
        Got([type |-> "Connect", clean_session |-> HasBit(f, 2),
             keep_alive |-> hdr[9] * U16Byte + hdr[10], client_id |-> client_id,
             will |-> will, username |-> username, password |-> password], rest))))))))

DecodeConnAck(bs) ==
    Then(read_trivial(bs, 2), LAMBDA hdr, rest :
        Got([type |-> "ConnAck", session |-> hdr[2] = 0 /\ HasBit(hdr[1], 1),
             error |-> CASE hdr[2] = 0 -> "none"
                         [] hdr[2] \in DOMAIN ServerConnectError -> ServerConnectError[hdr[2]]
                         [] OTHER -> "Unknown",
             code |-> IF hdr[2] > Len(ServerConnectError) THEN hdr[2] ELSE 0], rest))

\* Fault: QoS 2 is refused, too.
InvalidFromTwo(flags) == (flags \div 2) % 4 >= 2

\* Flags that PublishFlags does not take.
InvalidFlags(flags) == (flags \div 2) % 4 > 2

\* A received message is one allocation: its header, the topic, the payload.
DecodePublish(bs, flags) ==
    IF InvalidFlags(flags) THEN Fail("err")
    ELSE Then(read_utf8(bs), LAMBDA topic, r1 :
         Then(IF (flags \div 2) % 4 >= 1 THEN read_u16(r1) ELSE Got(0, r1), LAMBDA id, payload :
            Got([type |-> "Publish", flags |-> flags, packet_id |-> id, topic_len |-> Len(topic),
                 data |-> topic \o payload], <<>>)))

topic(m) == SubSeq(m.data, 1, m.topic_len)
payload(m) == SubSeq(m.data, m.topic_len + 1, Len(m.data))

\* What the accessors of a received message say of it.
Message(m) ==
    [type |-> "Publish", dup |-> HasBit(m.flags, 8), qos |-> (m.flags \div 2) % 4,
     retain |-> HasBit(m.flags, 1), packet_id |-> m.packet_id,
     topic |-> topic(m), payload |-> payload(m)]

DecodeSimple(type, bs) ==
    Then(read_u16(bs), LAMBDA id, rest : Got([type |-> type, packet_id |-> id], rest))

RECURSIVE ReadTopics(_)
ReadTopics(bs) ==
    IF bs = <<>> THEN Got(<<>>, bs)
    ELSE Then(read_utf8(bs), LAMBDA t, r1 : Then(ReadTopics(r1), LAMBDA ts, rest : Got(<<t>> \o ts, rest)))

RECURSIVE ReadFilters(_)
ReadFilters(bs) ==
    IF bs = <<>> THEN Got(<<>>, bs)
    ELSE Then(read_utf8(bs), LAMBDA t, r1 :
         Then(read_trivial(r1, 1), LAMBDA q, r2 :
         Asserted(q[1] < 3, Then(ReadFilters(r2), LAMBDA ts, rest :
            Got(<<[topic |-> t, qos |-> q[1]]>> \o ts, rest)))))

DecodeSubscribe(bs, flags) ==
    Asserted(flags = 2, Then(read_u16(bs), LAMBDA id, r1 : Then(ReadFilters(r1), LAMBDA ts, rest :
        Got([type |-> "Subscribe", packet_id |-> id, topics |-> ts], rest))))

DecodeUnsubscribe(bs, flags) ==
    Asserted(flags = 2, Then(read_u16(bs), LAMBDA id, r1 : Then(ReadTopics(r1), LAMBDA ts, rest :
        Got([type |-> "Unsubscribe", packet_id |-> id, topics |-> ts], rest))))

\* Fault: the unused places of the array count as results.
SubResultsWhole(list) == list.values

\* The list of results; up to MAX_STATIC_SUBS of them sit in an array of that
\* size, whose other places hold Err.
ResultList(results) ==
    IF Len(results) <= MAX_STATIC_SUBS
    THEN [len |-> Len(results),
          values |-> [i \in 1..MAX_STATIC_SUBS |-> IF i <= Len(results) THEN results[i] ELSE Err]]
    ELSE [len |-> Len(results), values |-> results]
sub_results(list) == SubSeq(list.values, 1, list.len)

DecodeSubAck(bs) ==
    Then(read_u16(bs), LAMBDA id, r :
        IF \E i \in DOMAIN r : r[i] \notin {0, 1, 2, 128} THEN Fail("err")
        ELSE Got([type |-> "SubAck", packet_id |-> id,
                  sub_results |-> ResultList([i \in DOMAIN r |-> IF r[i] = 128 THEN Err ELSE r[i]])], <<>>))

\* Decodes the packet with the control field ctrl as the given side does.
from_bytes(side, bs, ctrl) ==
    LET types == {t \in Table(side) : PacketType[t] = ctrl \div 16}
        type == CHOOSE t \in types : TRUE
        flags == ctrl % 16
    IN CASE types = {} -> Fail("err")
         [] type = "Connect" -> DecodeConnect(bs, flags)
         [] type = "ConnAck" -> DecodeConnAck(bs)
         [] type = "Publish" -> DecodePublish(bs, flags)
         [] type \in Simple -> DecodeSimple(type, bs)
         [] type = "Subscribe" -> DecodeSubscribe(bs, flags)
         [] type = "SubAck" -> DecodeSubAck(bs)
         [] type = "Unsubscribe" -> DecodeUnsubscribe(bs, flags)
         [] type \in {"PingReq", "Disconnect"} -> Asserted(flags = 0, Got([type |-> type], bs))
         [] type = "PingResp" -> Got([type |-> type], bs)

\* A decoded packet as its user sees it.
Seen(p) ==
    CASE p.type = "Publish" -> Message(p)
      [] p.type = "SubAck" -> [p EXCEPT !.sub_results = sub_results(@)]
      [] OTHER -> p

=============================================================================
