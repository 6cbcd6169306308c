------------------------- MODULE PublishFlowProofs -------------------------
(***************************************************************************)
(* The timeouts of PublishFlow for any messages and ids, also when both    *)
(* sides publish and when the packet ids wrap around.                      *)
(***************************************************************************)
EXTENDS PublishFlow, QueueFacts, TLAPS

Tabled == [key : IdType, pkt : Packet]

Ordered(q) == \A i, j \in DOMAIN q : i < j => q[i].age >= q[j].age

Inv == TypeOK /\ TimeoutCovered /\ OldestFirst

-----------------------------------------------------------------------------
(* Types.                                                                  *)

\* The packets the code makes.
LEMMA PacketTypesHold ==
    /\ \A id \in Ids, ty \in PacketTypes : Ack(ty, id) \in Packet /\ Key(ty, id) \in IdType
    /\ \A id \in Ids, m \in Messages : Publish(m, id) \in Packet
    /\ \A p \in Packet, d \in BOOLEAN : [p EXCEPT !.dup = d] \in Packet
    /\ \A p \in Packet : p.id \in Ids
    /\ {"Publish", "PubAck", "PubRec", "PubRel", "PubComp"} \subseteq PacketTypes
  BY DEF Ack, Key, Publish, Packet, IdType, PacketTypes

\* Time passes for a timeout, or is set back.
LEMMA AgeTypes ==
    ASSUME NEW t \in Timeout
    PROVE  /\ t.packet_id \in IdType /\ t.age \in 0..MaxAge /\ MaxAge \in Nat
           /\ [t EXCEPT !.age = 0] \in Timeout /\ [t EXCEPT !.age = 0].age = 0
           /\ [t EXCEPT !.age = 0].packet_id = t.packet_id
           /\ [t EXCEPT !.age = IF @ < MaxAge THEN @ + 1 ELSE @] \in Timeout
           /\ [t EXCEPT !.age = IF @ < MaxAge THEN @ + 1 ELSE @].packet_id = t.packet_id
           /\ [t EXCEPT !.age = IF @ < MaxAge THEN @ + 1 ELSE @].age = IF t.age < MaxAge THEN t.age + 1 ELSE t.age
  <1>1. MaxAge \in Nat
    BY ConstantsAssumption DEF MaxAge
  <1>2. t.packet_id \in IdType /\ t.age \in 0..MaxAge
    BY DEF Timeout
  <1>3. [t EXCEPT !.age = 0] = [packet_id |-> t.packet_id, age |-> 0]
    BY DEF Timeout
  <1>4. [t EXCEPT !.age = IF @ < MaxAge THEN @ + 1 ELSE @]
            = [packet_id |-> t.packet_id, age |-> IF t.age < MaxAge THEN t.age + 1 ELSE t.age]
    BY DEF Timeout
  <1>5. 0 \in 0..MaxAge /\ (IF t.age < MaxAge THEN t.age + 1 ELSE t.age) \in 0..MaxAge
    BY <1>1, <1>2
  <1> QED BY <1>1, <1>2, <1>3, <1>4, <1>5 DEF Timeout

-----------------------------------------------------------------------------
(* The queue of timeouts.                                                  *)

\* Taking the front leaves the rest in order.
LEMMA OrderedTail ==
    ASSUME NEW q \in Seq(Timeout), q # <<>>, Ordered(q)
    PROVE  Ordered(Tail(q))
  <1>1. /\ Len(q) \in Nat \ {0} /\ DOMAIN q = 1..Len(q) /\ DOMAIN Tail(q) = 1..(Len(q) - 1)
        /\ \A i \in 1..(Len(q) - 1) : Tail(q)[i] = q[i + 1]
    OBVIOUS
  <1> SUFFICES ASSUME NEW i \in 1..(Len(q) - 1), NEW j \in 1..(Len(q) - 1), i < j
               PROVE  Tail(q)[i].age >= Tail(q)[j].age
    BY <1>1 DEF Ordered
  <1>2. i + 1 \in DOMAIN q /\ j + 1 \in DOMAIN q /\ i + 1 < j + 1
    BY <1>1
  <1>3. q[i + 1].age >= q[j + 1].age
    BY <1>2 DEF Ordered
  <1> QED BY <1>1, <1>3

\* A new timeout goes behind all others.
LEMMA OrderedAppend ==
    ASSUME NEW q \in Seq(Timeout), NEW t \in Timeout, t.age = 0, Ordered(q)
    PROVE  Ordered(Append(q, t))
  <1>1. /\ Len(q) \in Nat /\ DOMAIN q = 1..Len(q) /\ DOMAIN Append(q, t) = 1..(Len(q) + 1)
        /\ Append(q, t)[Len(q) + 1] = t
        /\ \A i \in 1..Len(q) : Append(q, t)[i] = q[i] /\ q[i] \in Timeout
    OBVIOUS
  <1> SUFFICES ASSUME NEW i \in 1..(Len(q) + 1), NEW j \in 1..(Len(q) + 1), i < j
               PROVE  Append(q, t)[i].age >= Append(q, t)[j].age
    BY <1>1 DEF Ordered
  <1>2. i \in 1..Len(q)
    BY <1>1
  <1>3. CASE j \in 1..Len(q)
    <2>1. q[i].age >= q[j].age
      BY <1>1, <1>2, <1>3 DEF Ordered
    <2> QED BY <1>1, <1>2, <1>3, <2>1
  <1>4. CASE j = Len(q) + 1
    <2>1. q[i].age \in 0..MaxAge /\ MaxAge \in Nat
      BY Zenon, <1>1, <1>2, AgeTypes
    <2>2. q[i].age >= 0
      BY <2>1
    <2>3. Append(q, t)[i] = q[i] /\ Append(q, t)[j] = t
      BY <1>1, <1>2, <1>4
    <2> QED BY <2>2, <2>3
  <1> QED BY <1>1, <1>3, <1>4

\* The timeouts a second later.
Aged(q) == [i \in DOMAIN q |-> [q[i] EXCEPT !.age = IF @ < MaxAge THEN @ + 1 ELSE @]]

\* When a second passes, the order is kept and so are the packets.
LEMMA OrderedAged ==
    ASSUME NEW q \in Seq(Timeout), Ordered(q), NEW r, r = Aged(q)
    PROVE  /\ r \in Seq(Timeout) /\ Len(r) = Len(q) /\ Ordered(r)
           /\ \A t \in Elems(q) : \E u \in Elems(r) : u.packet_id = t.packet_id
  <1>1. Len(q) \in Nat /\ DOMAIN q = 1..Len(q) /\ DOMAIN r = 1..Len(q)
    BY DEF Aged
  <1>2. ASSUME NEW i \in 1..Len(q)
        PROVE  /\ q[i] \in Timeout /\ q[i].age \in 0..MaxAge /\ MaxAge \in Nat
               /\ r[i] \in Timeout /\ r[i].packet_id = q[i].packet_id
               /\ r[i].age = IF q[i].age < MaxAge THEN q[i].age + 1 ELSE q[i].age
    <2>1. PICK t \in Timeout : t = q[i]
      BY <1>1
    <2>2. PICK u : u = [t EXCEPT !.age = IF @ < MaxAge THEN @ + 1 ELSE @]
      BY Zenon
    <2>3. r[i] = u
      BY <1>1, <2>1, <2>2 DEF Aged
    <2>4. /\ t.age \in 0..MaxAge /\ MaxAge \in Nat /\ u \in Timeout /\ u.packet_id = t.packet_id
          /\ u.age = IF t.age < MaxAge THEN t.age + 1 ELSE t.age
      BY Zenon, <2>2, AgeTypes
    <2> QED BY <2>1, <2>3, <2>4
  <1>3. r \in [1..Len(q) -> Timeout]
    BY Zenon, <1>1, <1>2 DEF Aged
  <1>4. r \in Seq(Timeout) /\ Len(r) = Len(q)
    BY <1>1, <1>3
  <1>5. Ordered(r)
    <2> SUFFICES ASSUME NEW i \in 1..Len(q), NEW j \in 1..Len(q), i < j
                 PROVE  r[i].age >= r[j].age
      BY <1>1 DEF Ordered
    <2>1. q[i].age >= q[j].age
      BY <1>1 DEF Ordered
    <2>2. /\ q[i].age \in 0..MaxAge /\ q[j].age \in 0..MaxAge /\ MaxAge \in Nat
          /\ r[i].age = IF q[i].age < MaxAge THEN q[i].age + 1 ELSE q[i].age
          /\ r[j].age = IF q[j].age < MaxAge THEN q[j].age + 1 ELSE q[j].age
      BY <1>2
    <2> QED BY <2>1, <2>2
  <1>6. ASSUME NEW t \in Elems(q) PROVE \E u \in Elems(r) : u.packet_id = t.packet_id
    <2>1. PICK i \in 1..Len(q) : q[i] = t
      BY <1>1 DEF Elems
    <2>2. r[i] \in Elems(r)
      BY <1>1 DEF Elems
    <2> QED BY <2>1, <2>2, <1>2
  <1> QED BY <1>4, <1>5, <1>6

\* The properties in terms of what is in the queue, before and after a step.
LEMMA AsElems ==
    /\ TimeoutCovered <=> \A e \in pending_packets : \E t \in Elems(timeout_queue) : t.packet_id = e.key
    /\ TimeoutCovered' <=> \A e \in pending_packets' : \E t \in Elems(timeout_queue') : t.packet_id = e.key
    /\ OldestFirst <=> Ordered(timeout_queue)
    /\ OldestFirst' <=> Ordered(timeout_queue')
  <1>1. ASSUME NEW q, NEW P
        PROVE  (\A e \in P : \E i \in DOMAIN q : q[i].packet_id = e.key)
                   <=> (\A e \in P : \E t \in Elems(q) : t.packet_id = e.key)
    <2>1. ASSUME \A e \in P : \E i \in DOMAIN q : q[i].packet_id = e.key, NEW e \in P
          PROVE  \E t \in Elems(q) : t.packet_id = e.key
      <3>1. PICK i \in DOMAIN q : q[i].packet_id = e.key
        BY <2>1
      <3>2. q[i] \in Elems(q)
        BY DEF Elems
      <3> QED BY <3>1, <3>2
    <2>2. ASSUME \A e \in P : \E t \in Elems(q) : t.packet_id = e.key, NEW e \in P
          PROVE  \E i \in DOMAIN q : q[i].packet_id = e.key
      <3>1. PICK t \in Elems(q) : t.packet_id = e.key
        BY <2>2
      <3> QED BY <3>1 DEF Elems
    <2> QED BY <2>1, <2>2
  <1>2. TimeoutCovered <=> \A e \in pending_packets : \E t \in Elems(timeout_queue) : t.packet_id = e.key
    BY <1>1, Zenon DEF TimeoutCovered
  <1>3. TimeoutCovered' <=> \A e \in pending_packets' : \E t \in Elems(timeout_queue') : t.packet_id = e.key
    BY <1>1, Zenon DEF TimeoutCovered
  <1>4. (OldestFirst <=> Ordered(timeout_queue)) /\ (OldestFirst' <=> Ordered(timeout_queue'))
    BY DEF OldestFirst, Ordered
  <1> QED BY <1>2, <1>3, <1>4

-----------------------------------------------------------------------------
(* What the handlers do to the tables and to the transmit path.            *)

Tables ==
    /\ pending_packets \subseteq Tabled /\ timeout_queue \in Seq(Timeout)
    /\ TimeoutCovered /\ OldestFirst

LEMMA InvTables == Inv => Tables
  BY DEF Inv, TypeOK, Tables, Tabled

\* Packets are only removed.
LEMMA TablesRemove ==
    ASSUME Tables, pending_packets' \subseteq pending_packets, timeout_queue' = timeout_queue
    PROVE  Tables'
  BY DEF Tables, TimeoutCovered, OldestFirst

\* A packet is kept, with a timeout that is already there.
LEMMA TablesReplace ==
    ASSUME Tables, NEW key \in IdType, NEW pkt \in Packet, Pending(key),
           pending_packets' \subseteq pending_packets \cup {[key |-> key, pkt |-> pkt]},
           timeout_queue' = timeout_queue
    PROVE  Tables'
  <1>1. PICK e \in Tabled : e = [key |-> key, pkt |-> pkt]
    BY Zenon DEF Tabled
  <1>2. e.key = key
    BY <1>1
  <1>3. PICK d \in pending_packets : d.key = key
    BY DEF Pending
  <1>4. PICK t \in Elems(timeout_queue) : t.packet_id = key
    BY <1>3, AsElems DEF Tables
  <1>5. TimeoutCovered'
    BY <1>1, <1>2, <1>4, AsElems DEF Tables
  <1>6. OldestFirst'
    BY DEF Tables, OldestFirst
  <1> QED BY <1>1, <1>5, <1>6 DEF Tables

\* A packet is kept, with a new timeout.
LEMMA TablesAdd ==
    ASSUME Tables, NEW key \in IdType, NEW pkt \in Packet,
           pending_packets' \subseteq pending_packets \cup {[key |-> key, pkt |-> pkt]},
           timeout_queue' = Append(timeout_queue, [packet_id |-> key, age |-> 0])
    PROVE  Tables'
  <1>1. PICK e \in Tabled : e = [key |-> key, pkt |-> pkt]
    BY Zenon DEF Tabled
  <1>2. e.key = key
    BY <1>1
  <1>3. 0 \in 0..MaxAge
    BY ConstantsAssumption DEF MaxAge
  <1>4. PICK t \in Timeout : t = [packet_id |-> key, age |-> 0]
    BY <1>3 DEF Timeout
  <1>5. t.packet_id = key /\ t.age = 0
    BY <1>4
  <1>6. timeout_queue' = Append(timeout_queue, t) /\ timeout_queue \in Seq(Timeout) /\ Ordered(timeout_queue)
    BY <1>4, AsElems DEF Tables
  <1>7. timeout_queue' \in Seq(Timeout) /\ Elems(timeout_queue') = Elems(timeout_queue) \cup {t}
    BY <1>6, Added
  <1>8. TimeoutCovered'
    BY <1>1, <1>2, <1>5, <1>7, AsElems DEF Tables
  <1>9. Ordered(timeout_queue')
    BY <1>5, <1>6, OrderedAppend
  <1>10. OldestFirst'
    BY <1>9, AsElems
  <1> QED BY <1>1, <1>7, <1>8, <1>10 DEF Tables

\* A packet is sent.
LEMMA SendKeeps ==
    ASSUME Inv, NEW pkt \in Packet, NEW d \in BOOLEAN, queue_internal_packet(pkt, d)
    PROVE  backlog' \in Seq(Packet) /\ to_broker' \in Seq(Packet)
  <1>1. backlog \in Seq(Packet) /\ to_broker \in Seq(Packet)
    BY DEF Inv, TypeOK
  <1>2. PICK p \in Packet : p = [pkt EXCEPT !.dup = d]
    BY Zenon, PacketTypesHold
  <1>3. CASE to_broker' = Append(to_broker, p) /\ backlog' = backlog
    BY <1>1, <1>3, Added
  <1>4. CASE backlog' = Append(backlog, p) /\ to_broker' = to_broker
    BY <1>1, <1>4, Added
  <1> QED BY <1>2, <1>3, <1>4 DEF queue_internal_packet

\* A packet is sent and kept.
LEMMA SendAndKeep ==
    ASSUME Inv, NEW pkt \in Packet, NEW key \in IdType, queue_internal_packet_with_timeout(pkt, key)
    PROVE  Tables' /\ backlog' \in Seq(Packet) /\ to_broker' \in Seq(Packet)
  <1>1. Tables /\ pending_packets' \subseteq pending_packets \cup {[key |-> key, pkt |-> pkt]}
    BY InvTables DEF queue_internal_packet_with_timeout
  <1>2. CASE Pending(key)
    <2>1. timeout_queue' = timeout_queue
      BY <1>2 DEF queue_internal_packet_with_timeout
    <2> QED BY Zenon, <1>1, <1>2, <2>1, TablesReplace, SendKeeps DEF queue_internal_packet_with_timeout
  <1>3. CASE ~Pending(key)
    <2>1. timeout_queue' = Append(timeout_queue, [packet_id |-> key, age |-> 0])
      BY <1>3 DEF queue_internal_packet_with_timeout
    <2> QED BY Zenon, <1>1, <2>1, TablesAdd, SendKeeps DEF queue_internal_packet_with_timeout
  <1> QED BY <1>2, <1>3

\* The packet kept under a key is one.
LEMMA PendingPacketType ==
    ASSUME Inv, NEW key, Pending(key)
    PROVE  PendingPacket(key) \in Packet
  <1>1. PICK e \in pending_packets : e.key = key
    BY DEF Pending
  <1>2. (CHOOSE x \in pending_packets : x.key = key) \in pending_packets
    BY <1>1
  <1>3. pending_packets \subseteq Tabled
    BY DEF Inv, TypeOK, Tabled
  <1> QED BY <1>2, <1>3 DEF PendingPacket, Tabled

\* The notifiers that are woken are removed.
LEMMA WakeKeeps ==
    ASSUME Inv, NEW key, NEW event, Wake(key, event)
    PROVE  notify' \subseteq Notifier /\ notified' \subseteq [ev : Events, msg : OutMsgs]
  <1>1. notify \subseteq Notifier /\ notified \subseteq [ev : Events, msg : OutMsgs]
    BY DEF Inv, TypeOK
  <1>2. ASSUME NEW n \in notify PROVE [ev |-> n.ev, msg |-> n.msg] \in [ev : Events, msg : OutMsgs]
    BY <1>1 DEF Notifier
  <1> QED BY <1>1, <1>2 DEF Wake

-----------------------------------------------------------------------------
(* The invariant is inductive.                                             *)

LEMMA InitInv == Init => Inv
  <1> SUFFICES ASSUME Init PROVE Inv
    OBVIOUS
  <1>1. 0 \in Ids /\ 1 \in Ids
    BY ConstantsAssumption DEF Ids
  <1>2. dispatched \in [InMsgs -> 0..MaxCount] /\ b_got \in [OutMsgs -> 0..MaxCount]
    BY DEF Init, MaxCount
  <1>3. b_out \in [Ids -> Sent \cup {Idle}]
    BY DEF Init
  <1>4. /\ cmd_queue \in Seq(Command) /\ Len(cmd_queue) <= QueueCap /\ timeout_queue \in Seq(Timeout) /\ timeout_count \in 0..Len(timeout_queue)
        /\ backlog \in Seq(Packet) /\ to_broker \in Seq(Packet) /\ to_client \in Seq(Packet)
    BY ConstantsAssumption DEF Init
  <1>5. TypeOK
    BY <1>1, <1>2, <1>3, <1>4 DEF Init, TypeOK
  <1>6. TimeoutCovered /\ OldestFirst
    BY DEF Init, TimeoutCovered, OldestFirst
  <1> QED BY <1>5, <1>6 DEF Inv

\* The parts of the type invariant that are not about the tables.
Client1 ==
    /\ next_packet_id \in Ids
    /\ submitted \subseteq [msg : OutMsgs, id : Ids, ev : Events \cup {"none"}]
    /\ refused \subseteq OutMsgs /\ waiting \subseteq Command
    /\ cmd_queue \in Seq(Command) /\ Len(cmd_queue) <= QueueCap
    /\ notify \subseteq Notifier /\ notified \subseteq [ev : Events, msg : OutMsgs]

Stream1 ==
    /\ backlog \in Seq(Packet) /\ to_broker \in Seq(Packet) /\ to_client \in Seq(Packet)
    /\ dispatched \in [InMsgs -> 0..MaxCount] /\ dispatching \in Messages \cup {None}

Broker1 ==
    /\ b_got \in [OutMsgs -> 0..MaxCount]
    /\ b_ids \subseteq Ids
    /\ b_out \in [Ids -> Sent \cup {Idle}]
    /\ b_sent \subseteq InMsgs /\ b_done \subseteq InMsgs

LEMMA InvParts ==
    /\ Inv => /\ Client1 /\ Stream1 /\ Broker1 /\ Tables
              /\ timeout_count \in 0..Len(timeout_queue)
    /\ Client1' /\ Stream1' /\ Broker1' /\ Tables' /\ (timeout_count \in 0..Len(timeout_queue))' => Inv'
  BY DEF Inv, TypeOK, Client1, Stream1, dispatchvars, Broker1, Tables, Tabled

\* A step of the client or the broker leaves the tables alone.
LEMMA OthersKeep ==
    ASSUME Inv, UNCHANGED <<protovars, timeout_count>>, Client1', Stream1', Broker1'
    PROVE  Inv'
  <1>1. /\ pending_packets' = pending_packets /\ timeout_queue' = timeout_queue
        /\ timeout_count' = timeout_count
    BY DEF protovars
  <1>2. Tables'
    BY <1>1, InvParts, TablesRemove
  <1>3. (timeout_count \in 0..Len(timeout_queue))'
    BY <1>1, InvParts
  <1> QED BY <1>2, <1>3, InvParts

\* A step of the task outside of the alarm branch.
LEMMA SelectKeeps ==
    ASSUME Inv, InSelect, timeout_count' = timeout_count, UNCHANGED brokervars,
           Client1', Stream1', Tables'
    PROVE  Inv'
  <1>1. Broker1'
    BY InvParts DEF Broker1, brokervars
  <1>2. (timeout_count \in 0..Len(timeout_queue))'
    BY DEF InSelect, Tables
  <1> QED BY <1>1, <1>2, InvParts

\* What a call of a publish method changes besides the queues.
LEMMA CallTypes ==
    ASSUME Inv, NEW m \in OutMsgs, Call(m)
    PROVE  /\ PublishId(m) \in Ids /\ next_packet_id \in Ids /\ next_packet_id' \in Ids
           /\ [msg |-> m, id |-> PublishId(m)] \in Command
           /\ notified' = notified /\ Stream1' /\ Broker1' /\ UNCHANGED <<protovars, timeout_count>>
  <1>1. Client1 /\ Stream1 /\ Broker1
    BY InvParts
  <1>2. /\ notified' = notified /\ backlog' = backlog /\ to_broker' = to_broker
        /\ to_client' = to_client /\ UNCHANGED dispatchvars /\ b_got' = b_got
        /\ b_ids' = b_ids /\ b_out' = b_out /\ b_sent' = b_sent /\ b_done' = b_done
        /\ UNCHANGED <<protovars, timeout_count>>
    BY DEF Call, streamvars, brokervars
  <1>3. next_packet_id \in Ids /\ PublishId(m) \in Ids
    BY <1>1, ConstantsAssumption DEF Client1, Ids, PublishId
  <1>4. next_packet_id' \in Ids
    <2>1. \A n \in Nat : n % IdSpace \in Ids
      BY ConstantsAssumption DEF Ids
    <2>2. next_packet_id + 1 \in Nat
      BY <1>3, ConstantsAssumption DEF Ids
    <2>3. (next_packet_id + 1) % IdSpace \in Ids
      BY <2>1, <2>2
    <2> QED BY <1>3, <2>3 DEF Call, TakeId
  <1>5. Stream1' /\ Broker1'
    BY <1>1, <1>2 DEF Stream1, dispatchvars, Broker1
  <1>6. [msg |-> m, id |-> PublishId(m)] \in Command
    BY <1>3 DEF Command
  <1> QED BY <1>2, <1>3, <1>4, <1>5, <1>6

LEMMA ClientPublishKeeps ==
    ASSUME Inv, NEW m \in OutMsgs, NEW ev \in Events \cup {"none"}, ClientPublish(m, ev)
    PROVE  Inv'
  <1>1. Client1
    BY InvParts
  <1>2. Call(m) /\ refused' = refused /\ cmd_queue' = cmd_queue
    BY DEF ClientPublish
  <1>3. /\ PublishId(m) \in Ids /\ next_packet_id \in Ids /\ next_packet_id' \in Ids
        /\ [msg |-> m, id |-> PublishId(m)] \in Command
        /\ notified' = notified /\ Stream1' /\ Broker1' /\ UNCHANGED <<protovars, timeout_count>>
    BY Zenon, <1>2, CallTypes
  <1>4. submitted' \subseteq [msg : OutMsgs, id : Ids, ev : Events \cup {"none"}]
    <2>1. [msg |-> m, id |-> PublishId(m), ev |-> ev] \in [msg : OutMsgs, id : Ids, ev : Events \cup {"none"}]
      BY <1>3
    <2> QED BY <1>1, <2>1 DEF ClientPublish, Client1
  <1>5. waiting' \subseteq Command
    BY <1>1, <1>3 DEF ClientPublish, Client1
  <1>6. notify' \subseteq Notifier
    <2>1. ev # "none" => [ev |-> ev, id |-> next_packet_id, msg |-> m] \in Notifier
      BY <1>3 DEF Notifier
    <2>2. notify' \subseteq notify \cup (IF ev = "none" THEN {} ELSE {[ev |-> ev, id |-> next_packet_id, msg |-> m]})
      BY DEF ClientPublish
    <2> QED BY <1>1, <2>1, <2>2 DEF Client1
  <1>7. Client1'
    BY <1>1, <1>2, <1>3, <1>4, <1>5, <1>6 DEF Client1
  <1> QED BY <1>3, <1>7, OthersKeep

\* A command gets a place in the queue.
LEMMA PlaceTaken ==
    ASSUME Inv, NEW cmd \in Command, Len(cmd_queue) < QueueCap,
           cmd_queue' = Append(cmd_queue, cmd)
    PROVE  cmd_queue' \in Seq(Command) /\ Len(cmd_queue') <= QueueCap
  <1>1. cmd_queue \in Seq(Command)
    BY InvParts DEF Client1
  <1>2. cmd_queue' \in Seq(Command) /\ Len(cmd_queue') = Len(cmd_queue) + 1
    BY <1>1, Added
  <1>3. Len(cmd_queue) \in Nat /\ QueueCap \in Nat
    BY <1>1, ConstantsAssumption
  <1> QED BY <1>2, <1>3

LEMMA ClientSendKeeps ==
    ASSUME Inv, NEW cmd \in waiting, ClientSend(cmd)
    PROVE  Inv'
  <1>1. Client1 /\ Stream1 /\ Broker1
    BY InvParts
  <1>2. cmd \in Command
    BY <1>1 DEF Client1
  <1>3. cmd_queue' \in Seq(Command) /\ Len(cmd_queue') <= QueueCap
    BY <1>2, PlaceTaken DEF ClientSend
  <1>4. /\ next_packet_id' = next_packet_id /\ submitted' = submitted /\ refused' = refused
        /\ waiting' \subseteq waiting /\ notify' = notify /\ notified' = notified
        /\ UNCHANGED <<protovars, timeout_count>>
    BY DEF ClientSend, notifyvars
  <1>5. Client1'
    BY <1>1, <1>3, <1>4 DEF Client1
  <1>6. Stream1' /\ Broker1'
    BY <1>1 DEF ClientSend, Stream1, dispatchvars, Broker1, streamvars, brokervars
  <1> QED BY <1>4, <1>5, <1>6, OthersKeep

LEMMA ClientTryPublishKeeps ==
    ASSUME Inv, NEW m \in OutMsgs, ClientTryPublish(m)
    PROVE  Inv'
  <1>1. Client1
    BY InvParts
  <1>2. Call(m) /\ waiting' = waiting /\ notify' = notify
    BY DEF ClientTryPublish
  <1>3. /\ PublishId(m) \in Ids /\ next_packet_id' \in Ids
        /\ [msg |-> m, id |-> PublishId(m)] \in Command
        /\ notified' = notified /\ Stream1' /\ Broker1' /\ UNCHANGED <<protovars, timeout_count>>
    BY Zenon, <1>2, CallTypes
  <1>4. refused' \subseteq OutMsgs
    BY Zenon, <1>1 DEF ClientTryPublish, Client1
  <1>5. submitted' \subseteq [msg : OutMsgs, id : Ids, ev : Events \cup {"none"}]
    <2>1. [msg |-> m, id |-> PublishId(m), ev |-> "none"] \in [msg : OutMsgs, id : Ids, ev : Events \cup {"none"}]
      BY <1>3
    <2> QED BY <1>1, <2>1 DEF ClientTryPublish, Client1
  <1>6. cmd_queue' \in Seq(Command) /\ Len(cmd_queue') <= QueueCap
    <2>1. CASE cmd_queue' = cmd_queue
      BY <1>1, <2>1 DEF Client1
    <2>2. CASE /\ Len(cmd_queue) < QueueCap
               /\ cmd_queue' = Append(cmd_queue, [msg |-> m, id |-> PublishId(m)])
      BY <1>3, <2>2, PlaceTaken
    <2> QED BY <2>1, <2>2 DEF ClientTryPublish
  <1>7. Client1'
    BY <1>1, <1>2, <1>3, <1>4, <1>5, <1>6 DEF Client1
  <1> QED BY <1>3, <1>7, OthersKeep

LEMMA CommandPublishKeeps ==
    ASSUME Inv, CommandPublish
    PROVE  Inv'
  <1>1. Client1 /\ Stream1 /\ Tables
    BY Zenon, InvParts
  <1>2. /\ InSelect /\ timeout_count' = timeout_count /\ UNCHANGED brokervars
        /\ next_packet_id' = next_packet_id /\ submitted' = submitted /\ notify' = notify
        /\ refused' = refused /\ waiting' = waiting
        /\ notified' = notified /\ to_client' = to_client /\ UNCHANGED dispatchvars
        /\ cmd_queue # <<>> /\ cmd_queue' = Tail(cmd_queue)
    BY DEF CommandPublish, notifyvars
  <1>3. Head(cmd_queue) \in Command /\ cmd_queue' \in Seq(Command) /\ Len(cmd_queue') <= QueueCap
    <2>1. cmd_queue \in Seq(Command) /\ Len(cmd_queue) <= QueueCap
      BY <1>1 DEF Client1
    <2>2. /\ Head(cmd_queue) \in Command /\ cmd_queue' \in Seq(Command)
          /\ Len(cmd_queue') <= Len(cmd_queue)
      BY <1>2, <2>1, Taken
    <2>3. Len(cmd_queue) \in Nat /\ Len(cmd_queue') \in Nat /\ QueueCap \in Nat
      BY <2>1, <2>2, ConstantsAssumption
    <2> QED BY <2>1, <2>2, <2>3
  <1>4. PICK cmd \in Command : cmd = Head(cmd_queue)
    BY <1>3
  <1>5. cmd.msg \in Messages /\ cmd.id \in Ids
    BY DEF Command, Messages
  <1>6. Publish(cmd.msg, cmd.id) \in Packet /\ Key("Publish", cmd.id) \in IdType
    BY Zenon, <1>5, PacketTypesHold
  <1>7. Tables' /\ backlog' \in Seq(Packet) /\ to_broker' \in Seq(Packet)
    <2>1. CASE queue_internal_packet(Publish(cmd.msg, cmd.id), FALSE) /\ UNCHANGED protovars
      <3>1. Tables'
        BY <1>1, <2>1, TablesRemove DEF protovars
      <3> QED BY Zenon, <1>6, <2>1, <3>1, SendKeeps
    <2>2. CASE queue_internal_packet_with_timeout(Publish(cmd.msg, cmd.id), Key("Publish", cmd.id))
      BY <1>6, <2>2, SendAndKeep
    <2> QED BY Zenon, <1>4, <2>1, <2>2 DEF CommandPublish
  <1>8. Client1' /\ Stream1'
    BY <1>1, <1>2, <1>3, <1>7 DEF Client1, Stream1, dispatchvars
  <1> QED BY <1>2, <1>7, <1>8, SelectKeeps

LEMMA EmitKeeps ==
    ASSUME Inv, Emit
    PROVE  Inv'
  <1>1. Client1 /\ Stream1 /\ Broker1
    BY InvParts
  <1>2. /\ next_packet_id' = next_packet_id /\ submitted' = submitted /\ refused' = refused
        /\ waiting' = waiting /\ cmd_queue' = cmd_queue
        /\ notify' = notify /\ notified' = notified /\ to_client' = to_client
        /\ UNCHANGED dispatchvars /\ b_got' = b_got /\ b_ids' = b_ids /\ b_out' = b_out
        /\ b_sent' = b_sent /\ b_done' = b_done /\ UNCHANGED <<protovars, timeout_count>>
        /\ backlog # <<>> /\ backlog' = Tail(backlog) /\ to_broker' = Append(to_broker, Head(backlog))
    BY DEF Emit, clientvars, notifyvars, brokervars
  <1>3. Head(backlog) \in Packet /\ backlog' \in Seq(Packet)
    BY <1>1, <1>2, Taken DEF Stream1, dispatchvars
  <1>4. to_broker' \in Seq(Packet)
    BY <1>1, <1>2, <1>3, Added DEF Stream1, dispatchvars
  <1>5. Client1' /\ Stream1' /\ Broker1'
    BY <1>1, <1>2, <1>3, <1>4 DEF Client1, Stream1, dispatchvars, Broker1
  <1> QED BY <1>2, <1>5, OthersKeep

LEMMA BumpType ==
    ASSUME NEW S, NEW f \in [S -> 0..MaxCount], NEW m
    PROVE  Bump(f, m) \in [S -> 0..MaxCount]
  <1>1. ASSUME NEW x \in S
        PROVE  (IF f[x] < MaxCount THEN f[x] + 1 ELSE f[x]) \in 0..MaxCount
    BY DEF MaxCount
  <1>2. PICK v : v = IF f[m] < MaxCount THEN f[m] + 1 ELSE f[m]
    OBVIOUS
  <1>3. m \in S => v \in 0..MaxCount
    BY <1>1, <1>2
  <1>4. Bump(f, m) = [f EXCEPT ![m] = v]
    BY <1>2 DEF Bump
  <1> QED BY Zenon, <1>3, <1>4

\* The packet the task takes in is a packet, and so are those left behind.
LEMMA ReceiveTypes ==
    ASSUME Inv, NEW ty, Receive(ty)
    PROVE  /\ InSelect /\ timeout_count' = timeout_count /\ UNCHANGED brokervars
           /\ next_packet_id' = next_packet_id /\ submitted' = submitted /\ refused' = refused
           /\ waiting' = waiting /\ cmd_queue' = cmd_queue
           /\ Head(to_client) \in Packet /\ Head(to_client).id \in Ids
           /\ to_client' \in Seq(Packet)
  <1>1. to_client \in Seq(Packet)
    BY InvParts DEF Stream1, dispatchvars
  <1>2. Head(to_client) \in Packet /\ to_client' \in Seq(Packet)
    BY <1>1, Taken DEF Receive
  <1> QED BY <1>2, PacketTypesHold DEF Receive, clientvars

LEMMA ReceivePublishKeeps ==
    ASSUME Inv, ReceivePublish
    PROVE  Inv'
  <1>1. Client1 /\ Stream1 /\ Tables
    BY InvParts
  <1>2. Receive("Publish") /\ notify' = notify /\ notified' = notified
    BY Zenon DEF ReceivePublish, notifyvars
  <1>3. PICK p \in Packet : p = Head(to_client)
    BY <1>2, ReceiveTypes
  <1>4. p.id \in Ids
    BY PacketTypesHold
  <1>5. /\ Ack("PubAck", p.id) \in Packet /\ Ack("PubRec", p.id) \in Packet
        /\ Key("PubRec", p.id) \in IdType
    BY <1>4, PacketTypesHold
  <1>6. dispatched' \in [InMsgs -> 0..MaxCount]
    <2>1. dispatched' = Bump(dispatched, p.msg) \/ dispatched' = dispatched
      BY Zenon, <1>3 DEF ReceivePublish, dispatchvars
    <2> QED BY <1>1, <2>1, BumpType DEF Stream1
  <1>9. dispatching' \in Messages \cup {None}
    <2>1. p.msg \in Messages \cup {None}
      BY DEF Packet
    <2>2. dispatching' \in {p.msg, dispatching}
      BY Zenon, <1>3 DEF ReceivePublish, dispatchvars
    <2> QED BY Zenon, <1>1, <2>1, <2>2 DEF Stream1
  <1>7. Tables' /\ backlog' \in Seq(Packet) /\ to_broker' \in Seq(Packet)
    <2>1. CASE UNCHANGED <<protovars, streamvars>>
      <3>1. Tables'
        BY <1>1, <2>1, TablesRemove DEF protovars
      <3> QED BY <1>1, <2>1, <3>1 DEF Stream1, dispatchvars, streamvars
    <2>2. CASE queue_internal_packet(Ack("PubAck", p.id), FALSE) /\ UNCHANGED protovars
      <3>1. Tables'
        BY <1>1, <2>2, TablesRemove DEF protovars
      <3> QED BY Zenon, <1>5, <2>2, <3>1, SendKeeps
    <2>3. CASE /\ Pending(Key("PubRec", p.id))
               /\ queue_internal_packet(PendingPacket(Key("PubRec", p.id)), FALSE)
               /\ UNCHANGED protovars
      <3>1. Tables'
        BY <1>1, <2>3, TablesRemove DEF protovars
      <3>2. PendingPacket(Key("PubRec", p.id)) \in Packet
        BY <2>3, PendingPacketType
      <3> QED BY Zenon, <2>3, <3>1, <3>2, SendKeeps
    <2>4. CASE queue_internal_packet_with_timeout(Ack("PubRec", p.id), Key("PubRec", p.id))
      BY <1>5, <2>4, SendAndKeep
    <2> QED BY Zenon, <1>3, <2>1, <2>2, <2>3, <2>4 DEF ReceivePublish
  <1>8. Client1' /\ Stream1'
    BY <1>1, <1>2, <1>6, <1>7, <1>9, ReceiveTypes DEF Client1, Stream1
  <1> QED BY <1>2, <1>7, <1>8, ReceiveTypes, SelectKeeps

\* The message that was answered goes to its subscribers.
LEMMA DispatchKeeps ==
    ASSUME Inv, Dispatch
    PROVE  Inv'
  <1>1. Client1 /\ Stream1 /\ Broker1
    BY InvParts
  <1>2. /\ UNCHANGED <<protovars, timeout_count, streamvars, to_client>> /\ Client1' /\ Broker1'
        /\ dispatched' = Bump(dispatched, dispatching) /\ dispatching' = None
    BY Zenon, <1>1 DEF Dispatch, Client1, Broker1, clientvars, notifyvars, brokervars
  <1>3. dispatched' \in [InMsgs -> 0..MaxCount]
    BY <1>1, <1>2, BumpType DEF Stream1
  <1>4. Stream1'
    BY <1>1, <1>2, <1>3 DEF Stream1, streamvars
  <1> QED BY <1>2, <1>4, OthersKeep

\* PUBACK and PUBCOMP: an entry goes, a notifier is called.
LEMMA ReceiveLastKeeps ==
    ASSUME Inv, NEW ty, NEW key, NEW event, Receive(ty),
           clear_packet_timeout(key), Wake(key, event),
           UNCHANGED <<timeout_queue, streamvars, dispatchvars>>
    PROVE  Inv'
  <1>1. Client1 /\ Stream1 /\ Tables
    BY InvParts
  <1>2. Tables'
    BY <1>1, TablesRemove DEF clear_packet_timeout
  <1>3. Client1'
    BY <1>1, ReceiveTypes, WakeKeeps DEF Client1
  <1>4. Stream1'
    BY <1>1, ReceiveTypes DEF Stream1, dispatchvars, streamvars
  <1> QED BY <1>2, <1>3, <1>4, ReceiveTypes, SelectKeeps

LEMMA ReceivePubRecKeeps ==
    ASSUME Inv, ReceivePubRec
    PROVE  Inv'
  <1>1. Client1 /\ Stream1 /\ Tables
    BY Zenon, InvParts
  <1>2. Receive("PubRec") /\ UNCHANGED dispatchvars
    BY DEF ReceivePubRec
  <1>3. PICK id \in Ids : id = Head(to_client).id
    BY <1>2, ReceiveTypes
  <1>4. /\ Ack("PubRel", id) \in Packet /\ Key("PubRel", id) \in IdType
    BY Zenon, PacketTypesHold
  <1>5. Tables' /\ backlog' \in Seq(Packet) /\ to_broker' \in Seq(Packet)
    <2>1. CASE /\ Pending(Key("PubRel", id))
               /\ queue_internal_packet(PendingPacket(Key("PubRel", id)), FALSE)
               /\ clear_packet_timeout(Key("Publish", id))
               /\ UNCHANGED timeout_queue
      <3>1. Tables'
        BY <1>1, <2>1, TablesRemove DEF clear_packet_timeout
      <3>2. PendingPacket(Key("PubRel", id)) \in Packet
        BY Zenon, <2>1, PendingPacketType
      <3> QED BY Zenon, <2>1, <3>1, <3>2, SendKeeps
    <2>2. CASE /\ queue_internal_packet(Ack("PubRel", id), FALSE)
               /\ pending_packets' = {e \in pending_packets : e.key # Key("Publish", id)}
                                        \cup {[key |-> Key("PubRel", id), pkt |-> Ack("PubRel", id)]}
               /\ timeout_queue' = Append(timeout_queue, [packet_id |-> Key("PubRel", id), age |-> 0])
      <3>1. pending_packets' \subseteq
              pending_packets \cup {[key |-> Key("PubRel", id), pkt |-> Ack("PubRel", id)]}
        BY Zenon, <2>2
      <3>2. Tables'
        BY Zenon, <1>1, <1>4, <2>2, <3>1, TablesAdd
      <3> QED BY Zenon, <1>4, <2>2, <3>2, SendKeeps
    <2> QED BY Zenon, <1>3, <2>1, <2>2 DEF ReceivePubRec
  <1>6. Wake(Key("Publish", id), "rec")
    BY <1>3 DEF ReceivePubRec
  <1>7. Client1' /\ Stream1'
    BY <1>1, <1>2, <1>5, <1>6, ReceiveTypes, WakeKeeps DEF Client1, Stream1, dispatchvars
  <1> QED BY <1>2, <1>5, <1>7, ReceiveTypes, SelectKeeps

LEMMA ReceivePubRelKeeps ==
    ASSUME Inv, ReceivePubRel
    PROVE  Inv'
  <1>1. Client1 /\ Stream1 /\ Tables
    BY InvParts
  <1>2. /\ Receive("PubRel") /\ timeout_queue' = timeout_queue /\ notify' = notify
        /\ notified' = notified /\ UNCHANGED dispatchvars
    BY DEF ReceivePubRel, notifyvars
  <1>3. PICK id \in Ids : id = Head(to_client).id
    BY <1>2, ReceiveTypes
  <1>4. Ack("PubComp", id) \in Packet
    BY PacketTypesHold
  <1>5. clear_packet_timeout(Key("PubRec", id)) /\ queue_internal_packet(Ack("PubComp", id), FALSE)
    BY Zenon, <1>3 DEF ReceivePubRel
  <1>6. Tables'
    BY <1>1, <1>2, <1>5, TablesRemove DEF clear_packet_timeout
  <1>7. Client1' /\ Stream1'
    BY Zenon, <1>1, <1>2, <1>4, <1>5, ReceiveTypes, SendKeeps DEF Client1, Stream1, dispatchvars
  <1> QED BY <1>2, <1>6, <1>7, ReceiveTypes, SelectKeeps

-----------------------------------------------------------------------------
(* The alarm branch.                                                       *)

\* A second passes: every timeout is older, and older ones stay in front.
LEMMA AlarmKeeps ==
    ASSUME Inv, Alarm
    PROVE  Inv'
  <1>1. Client1 /\ Stream1 /\ Broker1 /\ Tables
    BY InvParts
  <1>2. /\ Client1' /\ Stream1' /\ Broker1' /\ pending_packets' = pending_packets
        /\ timeout_count' = Len(timeout_queue)
    BY <1>1 DEF Alarm, Client1, Stream1, dispatchvars, Broker1, clientvars, notifyvars, streamvars, brokervars
  <1>3. timeout_queue \in Seq(Timeout) /\ Ordered(timeout_queue)
    BY <1>1, AsElems DEF Tables
  <1>4. timeout_queue' = Aged(timeout_queue)
    BY DEF Alarm, Aged
  <1>5. /\ timeout_queue' \in Seq(Timeout) /\ Len(timeout_queue') = Len(timeout_queue)
        /\ Ordered(timeout_queue')
        /\ \A t \in Elems(timeout_queue) : \E u \in Elems(timeout_queue') : u.packet_id = t.packet_id
    BY <1>3, <1>4, OrderedAged
  <1>6. TimeoutCovered'
    <2> SUFFICES ASSUME NEW e \in pending_packets
                 PROVE  \E u \in Elems(timeout_queue') : u.packet_id = e.key
      BY <1>2, AsElems
    <2>1. PICK t \in Elems(timeout_queue) : t.packet_id = e.key
      BY Zenon, <1>1, AsElems DEF Tables
    <2> QED BY Zenon, <1>5, <2>1
  <1>7. Tables'
    BY <1>1, <1>2, <1>5, <1>6, AsElems DEF Tables
  <1>8. (timeout_count \in 0..Len(timeout_queue))'
    BY <1>2, <1>3, <1>5
  <1> QED BY <1>2, <1>7, <1>8, InvParts

\* The oldest timeout goes to the back while its packet is pending, and is
\* dropped otherwise: no pending packet loses its timeout.
LEMMA AlarmPopKeeps ==
    ASSUME Inv, AlarmPop
    PROVE  Inv'
  <1>1. Client1 /\ Stream1 /\ Broker1 /\ Tables /\ timeout_count \in 0..Len(timeout_queue)
    BY Zenon, InvParts
  <1>2. /\ Client1' /\ Broker1' /\ pending_packets' = pending_packets
        /\ to_client' = to_client /\ UNCHANGED dispatchvars
        /\ timeout_count > 0 /\ timeout_count' = timeout_count - 1
    BY <1>1 DEF AlarmPop, Client1, Broker1, clientvars, notifyvars, brokervars
  <1>3. timeout_queue \in Seq(Timeout) /\ Ordered(timeout_queue) /\ timeout_queue # <<>>
    BY <1>1, <1>2, AsElems DEF Tables
  <1>4. /\ Head(timeout_queue) \in Timeout /\ Tail(timeout_queue) \in Seq(Timeout)
        /\ Elems(timeout_queue) = {Head(timeout_queue)} \cup Elems(Tail(timeout_queue))
        /\ Len(Tail(timeout_queue)) = Len(timeout_queue) - 1 /\ Len(timeout_queue) \in Nat
    BY <1>3, Taken
  <1>5. PICK t \in Timeout : t = Head(timeout_queue)
    BY <1>4
  <1>6. PICK u \in Timeout : u = [t EXCEPT !.age = 0]
    BY Zenon, AgeTypes
  <1>7. u.age = 0 /\ u.packet_id = t.packet_id
    BY <1>6, AgeTypes
  <1>8. Ordered(Tail(timeout_queue))
    BY <1>3, OrderedTail
  <1>9. ASSUME NEW e \in pending_packets
        PROVE  \E x \in Elems(timeout_queue) : x.packet_id = e.key
    BY Zenon, <1>1, AsElems DEF Tables
  <1>10. CASE /\ Pending(t.packet_id)
              /\ queue_internal_packet(PendingPacket(t.packet_id), t.packet_id.ty = "Publish")
              /\ timeout_queue' = Append(Tail(timeout_queue), u)
    <2>1. /\ timeout_queue' \in Seq(Timeout) /\ Len(timeout_queue') = Len(timeout_queue)
          /\ Elems(timeout_queue') = Elems(Tail(timeout_queue)) \cup {u}
      <3>1. PICK q \in Seq(Timeout) : q = Tail(timeout_queue)
        BY Zenon, <1>4
      <3>2. timeout_queue' = Append(q, u)
        BY Zenon, <1>10, <3>1
      <3>3. /\ timeout_queue' \in Seq(Timeout) /\ Len(timeout_queue') = Len(q) + 1
            /\ Elems(timeout_queue') = Elems(q) \cup {u}
        BY <3>2, Added
      <3>4. Len(q) + 1 = Len(timeout_queue)
        BY <1>4, <3>1
      <3> QED BY <3>1, <3>3, <3>4
    <2>2. Ordered(timeout_queue')
      BY Zenon, <1>4, <1>7, <1>8, <1>10, OrderedAppend
    <2>3. TimeoutCovered'
      BY <1>2, <1>4, <1>5, <1>7, <1>9, <2>1, AsElems
    <2>4. Tables'
      BY <1>1, <1>2, <2>1, <2>2, <2>3, AsElems DEF Tables
    <2>5. (timeout_count \in 0..Len(timeout_queue))'
      BY <1>1, <1>2, <1>4, <2>1
    <2>6. PendingPacket(t.packet_id) \in Packet
      BY Zenon, <1>10, PendingPacketType
    <2>7. Stream1'
      BY Zenon, <1>1, <1>2, <1>10, <2>6, SendKeeps DEF Stream1, dispatchvars
    <2> QED BY <1>2, <2>4, <2>5, <2>7, InvParts
  <1>11. CASE /\ ~Pending(t.packet_id)
              /\ timeout_queue' = Tail(timeout_queue)
              /\ UNCHANGED streamvars
    <2>1. \A e \in pending_packets : e.key # t.packet_id
      BY Zenon, <1>11 DEF Pending
    <2>2. TimeoutCovered'
      BY <1>2, <1>4, <1>5, <1>9, <1>11, <2>1, AsElems
    <2>3. Tables'
      BY <1>1, <1>2, <1>4, <1>8, <1>11, <2>2, AsElems DEF Tables
    <2>4. (timeout_count \in 0..Len(timeout_queue))'
      BY <1>1, <1>2, <1>4, <1>11
    <2>5. Stream1'
      BY <1>1, <1>2, <1>11 DEF Stream1, dispatchvars, streamvars
    <2> QED BY <1>2, <2>3, <2>4, <2>5, InvParts
  <1> QED BY <1>5, <1>6, <1>10, <1>11 DEF AlarmPop

LEMMA AlarmBreakKeeps ==
    ASSUME Inv, AlarmBreak
    PROVE  Inv'
  <1>1. Client1 /\ Stream1 /\ Broker1 /\ Tables
    BY Zenon, InvParts
  <1>2. /\ Client1' /\ Stream1' /\ Broker1' /\ pending_packets' = pending_packets
        /\ timeout_queue' = timeout_queue /\ timeout_count' = 0
    BY <1>1 DEF AlarmBreak, Client1, Stream1, dispatchvars, Broker1, clientvars, notifyvars, protovars,
                streamvars, brokervars
  <1>3. Tables'
    BY <1>1, <1>2, TablesRemove
  <1>4. (timeout_count \in 0..Len(timeout_queue))'
    BY <1>1, <1>2 DEF Tables
  <1> QED BY <1>2, <1>3, <1>4, InvParts

-----------------------------------------------------------------------------
(* The broker.                                                             *)

LEMMA ReadTypes ==
    ASSUME Inv, to_broker # <<>>, to_broker' = Tail(to_broker)
    PROVE  /\ Head(to_broker) \in Packet /\ Head(to_broker).id \in Ids
           /\ to_broker' \in Seq(Packet)
  <1>1. to_broker \in Seq(Packet)
    BY InvParts DEF Stream1, dispatchvars
  <1>2. Head(to_broker) \in Packet /\ to_broker' \in Seq(Packet)
    BY <1>1, Taken
  <1> QED BY <1>2, PacketTypesHold

\* The broker takes a packet and answers with `p` or not at all.
LEMMA ReadKeeps ==
    ASSUME Inv, NEW ty, Read(ty), NEW p \in Packet, Reply(p) \/ to_client' = to_client, Broker1'
    PROVE  Inv'
  <1>1. Client1 /\ Stream1
    BY InvParts
  <1>2. to_broker # <<>> /\ to_broker' = Tail(to_broker) /\ backlog' = backlog
        /\ UNCHANGED dispatchvars /\ UNCHANGED <<protovars, timeout_count>>
    BY DEF Read
  <1>3. to_broker' \in Seq(Packet)
    BY <1>2, ReadTypes
  <1>4. to_client' \in Seq(Packet)
    <2>1. to_client \in Seq(Packet)
      BY <1>1 DEF Stream1, dispatchvars
    <2>2. Append(to_client, p) \in Seq(Packet)
      BY Zenon, <2>1, Added
    <2> QED BY <2>1, <2>2 DEF Reply
  <1>5. Client1'
    BY <1>1 DEF Client1, Read, clientvars, notifyvars
  <1>6. Stream1'
    BY <1>1, <1>2, <1>3, <1>4 DEF Stream1, dispatchvars
  <1> QED BY <1>2, <1>5, <1>6, OthersKeep

LEMMA BrokerPublishKeeps ==
    ASSUME Inv, BrokerPublish
    PROVE  Inv'
  <1>1. Broker1
    BY InvParts
  <1>2. Read("Publish") /\ b_out' = b_out /\ b_sent' = b_sent /\ b_done' = b_done
    BY Zenon DEF BrokerPublish
  <1>3. PICK p \in Packet : p = Head(to_broker)
    BY <1>2, ReadTypes DEF Read
  <1>4. p.id \in Ids /\ Ack("PubAck", p.id) \in Packet /\ Ack("PubRec", p.id) \in Packet
    BY PacketTypesHold
  <1>5. b_got' = Bump(b_got, p.msg) \/ b_got' = b_got
    BY Zenon, <1>3 DEF BrokerPublish
  <1>6. b_got' \in [OutMsgs -> 0..MaxCount]
    BY <1>1, <1>5, BumpType DEF Broker1
  <1>7. b_ids' \subseteq Ids
    BY Zenon, <1>1, <1>3, <1>4 DEF BrokerPublish, Broker1
  <1>8. Broker1'
    BY Zenon, <1>1, <1>2, <1>6, <1>7 DEF Broker1
  <1>9. \/ to_client' = to_client
        \/ Reply(Ack("PubAck", p.id)) \/ Reply(Ack("PubRec", p.id))
    BY Zenon, <1>3 DEF BrokerPublish
  <1> QED BY <1>2, <1>4, <1>8, <1>9, ReadKeeps

LEMMA BrokerPubRelKeeps ==
    ASSUME Inv, BrokerPubRel
    PROVE  Inv'
  <1>1. Broker1
    BY InvParts
  <1>2. Read("PubRel") /\ Reply(Ack("PubComp", Head(to_broker).id))
    BY Zenon DEF BrokerPubRel
  <1>3. Head(to_broker).id \in Ids
    BY <1>2, ReadTypes DEF Read
  <1>4. Ack("PubComp", Head(to_broker).id) \in Packet
    BY <1>3, PacketTypesHold
  <1>5. Broker1'
    BY <1>1 DEF BrokerPubRel, Broker1
  <1> QED BY <1>2, <1>4, <1>5, ReadKeeps

\* What the table of the broker holds under an id.
LEMMA OutTypes ==
    ASSUME Broker1, NEW id \in Ids, b_out[id].st # "idle"
    PROVE  b_out[id] \in Sent /\ b_out[id].msg \in InMsgs
  <1>1. b_out[id] \in Sent \cup {Idle}
    BY Zenon DEF Broker1
  <1>2. b_out[id] # Idle
    BY DEF Idle
  <1> QED BY Zenon, <1>1, <1>2 DEF Sent

LEMMA BrokerPubRecKeeps ==
    ASSUME Inv, BrokerPubRec
    PROVE  Inv'
  <1>1. Broker1
    BY InvParts
  <1>2. /\ Read("PubRec") /\ b_got' = b_got /\ b_ids' = b_ids /\ b_sent' = b_sent
        /\ b_done' = b_done
    BY Zenon DEF BrokerPubRec
  <1>3. PICK id \in Ids : id = Head(to_broker).id
    BY <1>2, ReadTypes DEF Read
  <1>4. Ack("PubRel", id) \in Packet
    BY PacketTypesHold
  <1>5. CASE /\ b_out[id].st \in {"sent 2", "released"}
             /\ b_out' = [b_out EXCEPT ![id].st = "released"]
             /\ Reply(Ack("PubRel", id))
    <2>1. b_out[id] \in Sent
      BY Zenon, <1>1, <1>5, OutTypes
    <2>2. [b_out[id] EXCEPT !.st = "released"] \in Sent
      BY Zenon, <2>1 DEF Sent
    <2>3. b_out' \in [Ids -> Sent \cup {Idle}]
      BY Zenon, <1>1, <1>5, <2>2 DEF Broker1
    <2>4. Broker1'
      BY <1>1, <1>2, <2>3 DEF Broker1
    <2> QED BY Zenon, <1>2, <1>4, <1>5, <2>4, ReadKeeps
  <1>6. CASE b_out' = b_out /\ to_client' = to_client
    <2>1. Broker1'
      BY Zenon, <1>1, <1>2, <1>6 DEF Broker1
    <2> QED BY <1>2, <1>4, <1>6, <2>1, ReadKeeps
  <1> QED BY Zenon, <1>3, <1>5, <1>6 DEF BrokerPubRec

LEMMA BrokerDoneKeeps ==
    ASSUME Inv, NEW ty, NEW st, st # "idle", BrokerDone(ty, st)
    PROVE  Inv'
  <1>1. Broker1
    BY Zenon, InvParts
  <1>2. /\ Read(ty) /\ b_got' = b_got /\ b_ids' = b_ids /\ b_sent' = b_sent
        /\ to_client' = to_client
    BY Zenon DEF BrokerDone
  <1>3. PICK id \in Ids : id = Head(to_broker).id
    BY <1>2, ReadTypes DEF Read
  <1>4. PICK p \in Packet : p = Ack("PubRel", id)
    BY PacketTypesHold
  <1>5. CASE /\ b_out[id].st = st
             /\ b_done' = b_done \cup {b_out[id].msg}
             /\ b_out' = [b_out EXCEPT ![id] = Idle]
    <2>1. b_out[id].msg \in InMsgs
      BY <1>1, <1>5, OutTypes
    <2>2. b_out' \in [Ids -> Sent \cup {Idle}]
      BY Zenon, <1>1, <1>5 DEF Broker1
    <2>3. Broker1'
      BY <1>1, <1>2, <1>5, <2>1, <2>2 DEF Broker1
    <2> QED BY Zenon, <1>2, <2>3, ReadKeeps
  <1>6. CASE b_out' = b_out /\ b_done' = b_done
    <2>1. Broker1'
      BY <1>1, <1>2, <1>6 DEF Broker1
    <2> QED BY <1>2, <2>1, ReadKeeps
  <1> QED BY <1>3, <1>5, <1>6 DEF BrokerDone

LEMMA BrokerIgnoresKeeps ==
    ASSUME Inv, BrokerIgnores
    PROVE  Inv'
  <1>1. Client1 /\ Stream1 /\ Broker1
    BY InvParts
  <1>2. to_broker' \in Seq(Packet) /\ UNCHANGED <<protovars, timeout_count>>
    BY Zenon, ReadTypes DEF BrokerIgnores
  <1>3. Client1' /\ Broker1'
    BY <1>1 DEF BrokerIgnores, Client1, Broker1, clientvars, notifyvars, brokervars
  <1>4. Stream1'
    BY <1>1, <1>2 DEF BrokerIgnores, Stream1, dispatchvars
  <1> QED BY <1>2, <1>3, <1>4, OthersKeep

\* The broker sends `p` of its own accord.
LEMMA ReplyKeeps ==
    ASSUME Inv, NEW p \in Packet, Reply(p), Broker1',
           UNCHANGED <<clientvars, notifyvars, protovars, timeout_count, streamvars, dispatchvars>>
    PROVE  Inv'
  <1>1. Client1 /\ Stream1
    BY InvParts
  <1>2. to_client' \in Seq(Packet)
    <2>1. to_client \in Seq(Packet)
      BY Zenon, <1>1 DEF Stream1, dispatchvars
    <2> QED BY <2>1, Added DEF Reply
  <1>3. Client1'
    BY <1>1 DEF Client1, clientvars, notifyvars
  <1>4. Stream1'
    BY <1>1, <1>2 DEF Stream1, dispatchvars, streamvars
  <1> QED BY <1>3, <1>4, OthersKeep

LEMMA BrokerSendsKeeps ==
    ASSUME Inv, NEW m \in InMsgs, BrokerSends(m)
    PROVE  Inv'
  <1>1. Broker1
    BY InvParts
  <1>2. /\ UNCHANGED <<clientvars, notifyvars, protovars, timeout_count, streamvars, dispatchvars>>
        /\ b_sent' = b_sent \cup {m} /\ b_got' = b_got /\ b_ids' = b_ids /\ b_done' = b_done
    BY Zenon DEF BrokerSends
  <1>3. InId[m] \in Ids /\ 0 \in Ids /\ m \in Messages
    BY ConstantsAssumption DEF Ids, Messages
  <1>4. Publish(m, 0) \in Packet /\ Publish(m, InId[m]) \in Packet
    BY Zenon, <1>3, PacketTypesHold
  <1>5. CASE Reply(Publish(m, 0)) /\ b_out' = b_out
    <2>1. Broker1'
      BY <1>1, <1>2, <1>5 DEF Broker1
    <2> QED BY Zenon, <1>2, <1>4, <1>5, <2>1, ReplyKeeps
  <1>6. CASE /\ b_out' = [b_out EXCEPT ![InId[m]] =
                          [st |-> IF QoS[m] = 1 THEN "sent 1" ELSE "sent 2", msg |-> m]]
             /\ Reply(Publish(m, InId[m]))
    <2>1. [st |-> IF QoS[m] = 1 THEN "sent 1" ELSE "sent 2", msg |-> m] \in Sent
      BY DEF Sent
    <2>2. b_out' \in [Ids -> Sent \cup {Idle}]
      BY Zenon, <1>1, <1>6, <2>1 DEF Broker1
    <2>3. Broker1'
      BY <1>1, <1>2, <2>2 DEF Broker1
    <2> QED BY Zenon, <1>2, <1>4, <1>6, <2>3, ReplyKeeps
  <1> QED BY Zenon, <1>5, <1>6 DEF BrokerSends

LEMMA BrokerResendsKeeps ==
    ASSUME Inv, NEW id \in Ids, BrokerResends(id)
    PROVE  Inv'
  <1>1. Broker1 /\ Broker1'
    BY Zenon, InvParts DEF BrokerResends, Broker1, brokervars
  <1>2. UNCHANGED <<clientvars, notifyvars, protovars, timeout_count, streamvars, dispatchvars>>
    BY Zenon DEF BrokerResends
  <1>3. CASE /\ b_out[id].st \in {"sent 1", "sent 2"}
             /\ Reply([Publish(b_out[id].msg, id) EXCEPT !.dup = TRUE])
    <2>1. b_out[id].msg \in Messages
      BY Zenon, <1>1, <1>3, OutTypes DEF Messages
    <2>2. [Publish(b_out[id].msg, id) EXCEPT !.dup = TRUE] \in Packet
      BY Zenon, <2>1, PacketTypesHold
    <2> QED BY Zenon, <1>1, <1>2, <1>3, <2>2, ReplyKeeps
  <1>4. CASE Reply(Ack("PubRel", id))
    <2>1. Ack("PubRel", id) \in Packet
      BY PacketTypesHold
    <2> QED BY Zenon, <1>1, <1>2, <1>4, <2>1, ReplyKeeps
  <1> QED BY Zenon, <1>3, <1>4 DEF BrokerResends

-----------------------------------------------------------------------------
(* The theorems.                                                           *)

LEMMA StutterKeeps ==
    ASSUME Inv, UNCHANGED vars
    PROVE  Inv'
  <1>1. Client1 /\ Stream1 /\ Broker1
    BY Zenon, InvParts
  <1>2. Client1' /\ Stream1' /\ Broker1' /\ UNCHANGED <<protovars, timeout_count>>
    BY Zenon, <1>1 DEF vars, Client1, Stream1, dispatchvars, Broker1, clientvars, notifyvars, protovars, streamvars,
                brokervars
  <1> QED BY <1>2, OthersKeep

LEMMA NextInv == Inv /\ [Next]_vars => Inv'
  <1> SUFFICES ASSUME Inv, [Next]_vars PROVE Inv'
    OBVIOUS
  <1>1. CASE Client
    BY <1>1, ClientPublishKeeps, ClientSendKeeps, ClientTryPublishKeeps DEF Client
  <1>2. CASE CommandPublish
    BY <1>2, CommandPublishKeeps
  <1>3. CASE Emit
    BY <1>3, EmitKeeps
  <1>4. CASE ReceivePublish
    BY Zenon, <1>4, ReceivePublishKeeps
  <1>5. CASE ReceivePubAck
    BY <1>5, ReceiveLastKeeps DEF ReceivePubAck
  <1>6. CASE ReceivePubRec
    BY <1>6, ReceivePubRecKeeps
  <1>7. CASE ReceivePubRel
    BY Zenon, <1>7, ReceivePubRelKeeps
  <1>8. CASE ReceivePubComp
    BY <1>8, ReceiveLastKeeps DEF ReceivePubComp
  <1>9. CASE Alarm
    BY <1>9, AlarmKeeps
  <1>10. CASE AlarmPop
    BY <1>10, AlarmPopKeeps
  <1>11. CASE AlarmBreak
    BY <1>11, AlarmBreakKeeps
  <1>12. CASE BrokerPublish
    BY <1>12, BrokerPublishKeeps
  <1>13. CASE BrokerPubRel
    BY <1>13, BrokerPubRelKeeps
  <1>14. CASE BrokerPubRec
    BY <1>14, BrokerPubRecKeeps
  <1>15. CASE BrokerPubAck
    BY Zenon, <1>15, BrokerDoneKeeps DEF BrokerPubAck
  <1>16. CASE BrokerPubComp
    BY <1>16, BrokerDoneKeeps DEF BrokerPubComp
  <1>17. CASE BrokerIgnores
    BY <1>17, BrokerIgnoresKeeps
  <1>18. CASE \E m \in InMsgs : BrokerSends(m)
    BY <1>18, BrokerSendsKeeps
  <1>19. CASE \E id \in Ids : BrokerResends(id)
    BY <1>19, BrokerResendsKeeps
  <1>20. CASE UNCHANGED vars
    BY <1>20, StutterKeeps
  <1>21. CASE Settled
    BY <1>21, StutterKeeps DEF Settled
  <1>22. CASE Dispatch
    BY <1>22, DispatchKeeps
  <1> QED BY <1>1, <1>2, <1>3, <1>4, <1>5, <1>6, <1>7, <1>8, <1>9, <1>10, <1>11, <1>12, <1>13,
             <1>14, <1>15, <1>16, <1>17, <1>18, <1>19, <1>20, <1>21, <1>22 DEF Next, Task, Broker

\* The inductive invariant holds in every state the publish exchange reaches.
THEOREM InvHolds == Spec => []Inv
  BY InitInv, NextInv, PTL DEF Spec

\* The queues, the table of pending packets and the timeouts have their types,
\* and the alarm loop never runs more often than there are timeouts.
THEOREM TypeCorrect == Spec => []TypeOK
  <1>1. Inv => TypeOK
    BY DEF Inv
  <1> QED BY <1>1, InvHolds, PTL

\* For any messages, number of ids and resend delay: no packet that is kept
\* for retransmission is without a timeout in timeout_queue, in spite of ids
\* that wrap around, so that the alarm branch brings every one up again.
THEOREM TimeoutCoveredHolds == Spec => []TimeoutCovered
  <1>1. Inv => TimeoutCovered
    BY DEF Inv
  <1> QED BY <1>1, InvHolds, PTL

\* For any messages, number of ids and resend delay: timeout_queue is sorted
\* by age, so that the alarm branch may stop at the first that is not due.
THEOREM OldestFirstHolds == Spec => []OldestFirst
  <1>1. Inv => OldestFirst
    BY DEF Inv
  <1> QED BY <1>1, InvHolds, PTL

=============================================================================
