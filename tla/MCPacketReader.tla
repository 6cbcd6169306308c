--------------------------- MODULE MCPacketReader ---------------------------
(***************************************************************************)
(* Packets for PacketReader: every type in both directions, with arrays    *)
(* that are empty, ordinary, as wide as a u16 can say and one byte wider,  *)
(* contents whose size takes one to four bytes and one that takes five,    *)
(* contents that do not decode and a size field that does not end in time. *)
(***************************************************************************)
EXTENDS PacketReader

Text(n) == [i \in 1..n |-> 96 + i]
Widest == U16Byte ^ 2 - 1
Some(S) == {<<>>} \cup {<<x>> : x \in S}
Ids == {1, U16Byte, Widest}

Publishes(texts, payloads) ==
    [type : {"Publish"}, dup : BOOLEAN, qos : 0..2, retain : BOOLEAN, packet_id : Ids,
     topic : texts, payload : payloads]

Messages ==
    Publishes({Text(0), Text(2)}, {<<>>, <<7, 255>>})
        \cup Publishes({Text(Widest), Text(Widest + 1)}, {<<>>})
        \cup {[type |-> "Publish", dup |-> FALSE, qos |-> 0, retain |-> FALSE, packet_id |-> 1,
               topic |-> Text(1), payload |-> Text(n)] : n \in {27, 77, 78}}

Acks(types) == [type : types, packet_id : Ids]

ConnAcks ==
    [type : {"ConnAck"}, session : BOOLEAN, error : {"none"}, code : {0}]
        \cup [type : {"ConnAck"}, session : {FALSE}, error : Range(ServerConnectError), code : {0}]
        \cup [type : {"ConnAck"}, session : {FALSE}, error : {"Unknown"}, code : {6, 255}]

SubAcks ==
    [type : {"SubAck"}, packet_id : Ids, sub_results : UNION {[1..n -> 0..Err] : n \in 0..3}]

RawPackets ==
    {[type |-> "Raw", ctrl |-> r[1], content |-> r[2]] :
        r \in {<<0, <<>>>>, <<16 * 12, <<>>>>, <<16 * 2, <<0>>>>, <<16 * 4, <<0>>>>, <<16 * 3 + 6, <<0, 0, 0, 1>>>>,
               <<16 * 3, <<0>>>>, <<16 * 3, <<0, 2, 97>>>>, <<16 * 3, <<0, 1, 255>>>>, <<16 * 3 + 2, <<0, 0, 1>>>>,
               <<16 * 9, <<0>>>>, <<16 * 9, <<0, 1, 3>>>>, <<16 * 9, <<0, 1, 0, 0, 64>>>>}}

Connects ==
    LET Wills(texts) == Some([topic : texts, message : {<<>>, <<255>>}, retain : BOOLEAN, qos : 0..2]) IN
    [type : {"Connect"}, clean_session : BOOLEAN, keep_alive : {0, Widest}, client_id : {Text(0), Text(2)},
     will : Wills({Text(1)}), username : Some({Text(0), Text(2)}), password : Some({<<>>, <<255>>})]
        \cup [type : {"Connect"}, clean_session : {TRUE}, keep_alive : {3}, client_id : {Text(Widest), Text(Widest + 1)},
              will : {<<>>}, username : Some({Text(Widest + 1)}), password : Some({Text(Widest + 1)})]

Subscribes ==
    [type : {"Subscribe"}, packet_id : Ids,
     topics : UNION {[1..n -> [topic : {Text(1), Text(2)}, qos : 0..2]] : n \in 0..2}
              \cup {<<[topic |-> Text(n), qos |-> 1]>> : n \in {Widest, Widest + 1}}]

Unsubscribes ==
    [type : {"Unsubscribe"}, packet_id : Ids,
     topics : UNION {[1..n -> {Text(0), Text(1), Text(2)}] : n \in 0..3} \cup {<<Text(Widest + 1)>>}]

MCSingles ==
    [client |-> <<Messages, ConnAcks, SubAcks, Acks({"PubAck", "PubRec", "PubRel", "PubComp", "UnsubAck"}),
                  {[type |-> "PingResp"]}, RawPackets>>,
     broker |-> <<Messages, Connects, Subscribes, Unsubscribes, Acks({"PubAck", "PubRec", "PubRel", "PubComp"}),
                  {[type |-> "PingReq"], [type |-> "Disconnect"]}>>]

\* Packets of two, four, five and eight bytes, one whose size takes four bytes,
\* one that does not decode and a size field of five bytes.
MCChain ==
    LET Publish(qos, body) ==
        [type |-> "Publish", dup |-> FALSE, qos |-> qos, retain |-> FALSE, packet_id |-> 5,
         topic |-> Text(1), payload |-> body]
    IN {[type |-> "PingResp"], [type |-> "PubAck", packet_id |-> 5], Publish(0, <<>>), Publish(2, <<5>>),
        Publish(0, Text(24)), [type |-> "Raw", ctrl |-> 16 * 9, content |-> <<0, 1, 3>>],
        [type |-> "Unsized", bytes |-> <<16 * 3, 3, 4, 5, 3, 0>>]}

=============================================================================
