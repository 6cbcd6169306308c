---------------------------- MODULE PublishFlow ----------------------------
(***************************************************************************)
(* The exchange of PUBLISH packets and of their acknowledgements:          *)
(* process_packet, the Publish command and the retransmission loop of the  *)
(* alarm branch (src/transceiver/mod.rs), with the notifier maps of        *)
(* src/shared.rs on the side of the client and a broker on the other side  *)
(* of the connection.                                                      *)
(*                                                                         *)
(* The connection is up and stays up: when it fails the task ends and the  *)
(* state described here is dropped with it.  The transmit path is the one  *)
(* PacketStream specifies: `backlog` holds the packets that are not        *)
(* completely written, and a packet given to an idle path may leave at     *)
(* once.  A message is a name.  Packet ids wrap around at IdSpace (2^16 in *)
(* the code).  The broker is external: it answers as the protocol says,    *)
(* whenever it likes, sends again what it has had no answer to, and may    *)
(* ignore a packet, as the brokers of the tests do.                        *)
(***************************************************************************)
EXTENDS Naturals, Sequences, FiniteSets

CONSTANTS
    OutMsgs,        \* messages the owners of the client publish
    InMsgs,         \* messages the broker publishes to the client
    QoS,            \* QoS[m]: 0, 1 or 2
    InId,           \* InId[m]: the id the broker uses for m
    IdSpace,        \* number of packet ids
    QueueCap,       \* places in the command queue (1024 in the code)
    ResendDelay,    \* packet_resend_delay, in alarm ticks
    MaxInFlight,    \* bound: packets under way when something is sent again
    MaxRefused,     \* bound: messages try_publish finds no place for
    Mixed,          \* bound: both sides publish in one behaviour only messages of Mixed
    None            \* no message, in packets that carry none

Messages == OutMsgs \cup InMsgs
Ids == 0..(IdSpace - 1)
PacketTypes == {"Publish", "PubAck", "PubRec", "PubRel", "PubComp"}
Events == {"ack", "rec", "comp"}
IdType == [ty : PacketTypes, id : Ids]
Packet == [ty : PacketTypes, id : Ids, msg : Messages \cup {None}, dup : BOOLEAN]
MaxAge == ResendDelay + 1
MaxCount == 2       \* bound: deliveries are counted up to here

ASSUME ConstantsAssumption ==
    /\ QoS \in [Messages -> {0, 1, 2}]
    /\ InId \in [InMsgs -> 0..(IdSpace - 1)]
    /\ IdSpace \in Nat /\ IdSpace > 1
    /\ QueueCap \in Nat /\ QueueCap > 0
    /\ ResendDelay \in Nat /\ ResendDelay > 0
    /\ MaxInFlight \in Nat /\ MaxRefused \in Nat
    /\ Mixed \subseteq Messages
    /\ None \notin Messages

VARIABLES
    next_packet_id,
    submitted,          \* history: the calls of publish, with the id each got
    refused,            \* history: messages try_publish found no place for
    waiting,            \* commands that wait for a place in cmd_queue
    cmd_queue,          \* the Publish commands not taken yet
    notify,             \* the entries of notify_ack, notify_rec and notify_comp
    notified,           \* history: events whose entry the task has removed
    pending_packets,    \* the entries of the map
    timeout_queue,
    timeout_count,      \* iterations left in the alarm branch, 0 outside of it
    backlog,            \* packets the transmit path has not completely written
    to_broker,          \* written and not read by the broker
    to_client,          \* sent by the broker and not processed
    dispatched,         \* history: how often a message went to its subscribers
    dispatching,        \* the message a handler has answered and will dispatch next
    b_got,              \* broker: how often a message was delivered
    b_ids,              \* broker: ids of QoS 2 messages that are not released
    b_out,              \* broker: the message it is sending, per id
    b_sent, b_done      \* broker: messages it has begun and finished to send

clientvars == <<next_packet_id, submitted, refused, waiting, cmd_queue>>
protovars == <<pending_packets, timeout_queue>>
notifyvars == <<notify, notified>>
streamvars == <<backlog, to_broker>>
dispatchvars == <<dispatched, dispatching>>
brokervars == <<b_got, b_ids, b_out, b_sent, b_done>>
vars == <<clientvars, notifyvars, protovars, timeout_count, streamvars, to_client,
          dispatchvars, brokervars>>

Idle == [st |-> "idle", msg |-> None]

Init ==
    /\ next_packet_id = 1
    /\ submitted = {} /\ refused = {} /\ waiting = {}
    /\ cmd_queue = <<>>
    /\ notify = {} /\ notified = {}
    /\ pending_packets = {}
    /\ timeout_queue = <<>>
    /\ timeout_count = 0
    /\ backlog = <<>> /\ to_broker = <<>> /\ to_client = <<>>
    /\ dispatched = [m \in InMsgs |-> 0] /\ dispatching = None
    /\ b_got = [m \in OutMsgs |-> 0]
    /\ b_ids = {}
    /\ b_out = [i \in Ids |-> Idle]
    /\ b_sent = {} /\ b_done = {}

Key(ty, id) == [ty |-> ty, id |-> id]
Ack(ty, id) == [ty |-> ty, id |-> id, msg |-> None, dup |-> FALSE]
Publish(m, id) == [ty |-> "Publish", id |-> id, msg |-> m, dup |-> FALSE]
\* A message that neither side has published yet, within the bound.
Fresh(m) ==
    LET used == {s.msg : s \in submitted} \cup b_sent IN
    /\ m \notin used
    /\ \E S \in {OutMsgs, InMsgs, Mixed} : used \cup {m} \subseteq S

Bump(f, m) == [f EXCEPT ![m] = IF @ < MaxCount THEN @ + 1 ELSE @]

-----------------------------------------------------------------------------
(* The tables of the task.                                                 *)

Pending(key) == \E e \in pending_packets : e.key = key
PendingPacket(key) == (CHOOSE e \in pending_packets : e.key = key).pkt

\* The transmit path: written at once, or in part or not at all.
queue_internal_packet(pkt, set_dup) ==
    LET p == [pkt EXCEPT !.dup = set_dup] IN
    \/ /\ backlog = <<>>
       /\ to_broker' = Append(to_broker, p)
       /\ UNCHANGED backlog
    \/ /\ backlog' = Append(backlog, p)
       /\ UNCHANGED to_broker

\* Fault: the timeout is pushed to the front.
TimeoutInFront(pkt, key) ==
    /\ pending_packets' = {e \in pending_packets : e.key # key} \cup {[key |-> key, pkt |-> pkt]}
    /\ timeout_queue' = IF Pending(key) THEN timeout_queue
                        ELSE <<[packet_id |-> key, age |-> 0]>> \o timeout_queue
    /\ queue_internal_packet(pkt, FALSE)

queue_internal_packet_with_timeout(pkt, key) ==
    /\ pending_packets' = {e \in pending_packets : e.key # key} \cup {[key |-> key, pkt |-> pkt]}
    /\ timeout_queue' = IF Pending(key) THEN timeout_queue
                        ELSE Append(timeout_queue, [packet_id |-> key, age |-> 0])
    /\ queue_internal_packet(pkt, FALSE)

\* The entry of `key` is removed; the task goes on to the notifier of `event`
\* only if there was one.
clear_packet_timeout(key) ==
    pending_packets' = {e \in pending_packets : e.key # key}

Wake(key, event) ==
    LET woken == {n \in notify : Pending(key) /\ n.ev = event /\ n.id = key.id} IN
    /\ notify' = notify \ woken
    /\ notified' = notified \cup {[ev |-> n.ev, msg |-> n.msg] : n \in woken}

-----------------------------------------------------------------------------
(* The owners of the client.                                               *)

\* make_publish_cmd: a message of QoS 0 needs no id.
PublishId(m) == IF QoS[m] = 0 THEN 0 ELSE next_packet_id

\* The events the owner of a message may wait for.
EventsOf(m) == CASE QoS[m] = 0 -> {}
                 [] QoS[m] = 1 -> {"ack"}
                 [] QoS[m] = 2 -> {"rec", "comp"}

\* fetch_add of make_publish_cmd.
TakeId(m) ==
    next_packet_id' = IF QoS[m] = 0 THEN next_packet_id ELSE (next_packet_id + 1) % IdSpace

\* A call for a message that has not been submitted.
Call(m) ==
    /\ Fresh(m)
    /\ TakeId(m)
    /\ UNCHANGED <<notified, protovars, timeout_count, streamvars, to_client, dispatchvars,
                   brokervars>>

\* publish_no_wait and publish_qos_0 (ev = "none"), publish_qos_1 and
\* publish_qos_2: take an id, register the future, wait for a place.
ClientPublish(m, ev) ==
    /\ Call(m)
    /\ ev \in EventsOf(m) \cup {"none"}
    /\ submitted' = submitted \cup {[msg |-> m, id |-> PublishId(m), ev |-> ev]}
    /\ waiting' = waiting \cup {[msg |-> m, id |-> PublishId(m)]}
    /\ notify' = {n \in notify : ~(n.ev = ev /\ n.id = next_packet_id)}
                    \cup (IF ev = "none" THEN {}
                          ELSE {[ev |-> ev, id |-> next_packet_id, msg |-> m]})
    /\ UNCHANGED <<refused, cmd_queue>>

\* cmd_queue.send completes.  Callers get their places in any order.
ClientSend(cmd) ==
    /\ Len(cmd_queue) < QueueCap
    /\ cmd_queue' = Append(cmd_queue, cmd)
    /\ waiting' = waiting \ {cmd}
    /\ UNCHANGED <<next_packet_id, submitted, refused, notifyvars, protovars, timeout_count,
                   streamvars, to_client, dispatchvars, brokervars>>

\* try_publish: a place may be free, or taken or promised to one who waits.
\* A message that is refused has used up an id all the same.
ClientTryPublish(m) ==
    /\ Call(m)
    /\ \/ /\ Len(cmd_queue) < QueueCap
          /\ submitted' = submitted \cup {[msg |-> m, id |-> PublishId(m), ev |-> "none"]}
          /\ cmd_queue' = Append(cmd_queue, [msg |-> m, id |-> PublishId(m)])
          /\ UNCHANGED refused
       \/ /\ Len(cmd_queue) + Cardinality(waiting) >= QueueCap
          /\ Cardinality(refused) < MaxRefused /\ m \notin refused
          /\ refused' = refused \cup {m}
          /\ UNCHANGED <<submitted, cmd_queue>>
    /\ UNCHANGED <<waiting, notify>>

-----------------------------------------------------------------------------
(* The task.                                                               *)

InSelect == timeout_count = 0 /\ dispatching = None
InFlight == Len(backlog) + Len(to_broker) + Len(to_client)

\* Fault: messages of QoS 0 are kept for retransmission too.
KeepEveryPublish ==
    /\ InSelect
    /\ backlog = <<>>
    /\ cmd_queue # <<>>
    /\ LET cmd == Head(cmd_queue) IN
        queue_internal_packet_with_timeout(Publish(cmd.msg, cmd.id), Key("Publish", cmd.id))
    /\ cmd_queue' = Tail(cmd_queue)
    /\ UNCHANGED <<next_packet_id, submitted, refused, waiting, notifyvars, timeout_count,
                   to_client, dispatchvars, brokervars>>

CommandPublish ==
    /\ InSelect
    /\ backlog = <<>>
    /\ cmd_queue # <<>>
    /\ LET cmd == Head(cmd_queue)
           pkt == Publish(cmd.msg, cmd.id)
       IN \/ /\ QoS[cmd.msg] = 0
             /\ queue_internal_packet(pkt, FALSE)
             /\ UNCHANGED protovars
          \/ /\ QoS[cmd.msg] > 0
             /\ queue_internal_packet_with_timeout(pkt, Key("Publish", cmd.id))
    /\ cmd_queue' = Tail(cmd_queue)
    /\ UNCHANGED <<next_packet_id, submitted, refused, waiting, notifyvars, timeout_count,
                   to_client, dispatchvars, brokervars>>

\* continue_writing_packet completes the oldest packet.
Emit ==
    /\ InSelect
    /\ backlog # <<>>
    /\ to_broker' = Append(to_broker, Head(backlog))
    /\ backlog' = Tail(backlog)
    /\ UNCHANGED <<clientvars, notifyvars, protovars, timeout_count, to_client,
                   dispatchvars, brokervars>>

Receive(ty) ==
    /\ InSelect
    /\ to_client # <<>> /\ Head(to_client).ty = ty
    /\ to_client' = Tail(to_client)
    /\ UNCHANGED <<clientvars, timeout_count, brokervars>>

\* Fault: a QoS 2 message is dispatched whether or not it was seen before.
DispatchAgain ==
    /\ Receive("Publish")
    /\ LET p == Head(to_client)
           key == Key("PubRec", p.id)
       IN \/ /\ QoS[p.msg] < 2
             /\ dispatched' = Bump(dispatched, p.msg)
             /\ UNCHANGED <<protovars, streamvars, dispatching>>
          \/ /\ QoS[p.msg] = 2
             /\ queue_internal_packet_with_timeout(Ack("PubRec", p.id), key)
             /\ dispatching' = p.msg
             /\ UNCHANGED dispatched
    /\ UNCHANGED notifyvars

\* The answer is on its way before the message is dispatched.
ReceivePublish ==
    /\ Receive("Publish")
    /\ LET p == Head(to_client)
           key == Key("PubRec", p.id)
       IN \/ /\ QoS[p.msg] = 0
             /\ dispatched' = Bump(dispatched, p.msg)
             /\ UNCHANGED <<protovars, streamvars, dispatching>>
          \/ /\ QoS[p.msg] = 1
             /\ queue_internal_packet(Ack("PubAck", p.id), FALSE)
             /\ dispatching' = p.msg
             /\ UNCHANGED <<protovars, dispatched>>
          \/ /\ QoS[p.msg] = 2
             /\ Pending(key)
             /\ queue_internal_packet(PendingPacket(key), FALSE)
             /\ UNCHANGED <<protovars, dispatchvars>>
          \/ /\ QoS[p.msg] = 2
             /\ ~Pending(key)
             /\ queue_internal_packet_with_timeout(Ack("PubRec", p.id), key)
             /\ dispatching' = p.msg
             /\ UNCHANGED dispatched
    /\ UNCHANGED notifyvars

\* The rest of that handler.
Dispatch ==
    /\ dispatching # None
    /\ dispatched' = Bump(dispatched, dispatching)
    /\ dispatching' = None
    /\ UNCHANGED <<clientvars, notifyvars, protovars, timeout_count, streamvars, to_client,
                   brokervars>>

ReceivePubAck ==
    /\ Receive("PubAck")
    /\ LET key == Key("Publish", Head(to_client).id) IN
        clear_packet_timeout(key) /\ Wake(key, "ack")
    /\ UNCHANGED <<timeout_queue, streamvars, dispatchvars>>

\* Fault: the PUBLISH is kept for retransmission.
PublishKept ==
    /\ Receive("PubRec")
    /\ LET id == Head(to_client).id IN
        /\ queue_internal_packet_with_timeout(Ack("PubRel", id), Key("PubRel", id))
        /\ Wake(Key("Publish", id), "rec")
    /\ UNCHANGED dispatchvars

\* PUBREL is sent and kept, then the PUBLISH it replaces is dropped.
ReceivePubRec ==
    /\ Receive("PubRec")
    /\ LET id == Head(to_client).id
           rel == Key("PubRel", id)
           pub == Key("Publish", id)
       IN /\ \/ /\ Pending(rel)
                /\ queue_internal_packet(PendingPacket(rel), FALSE)
                /\ clear_packet_timeout(pub)
                /\ UNCHANGED timeout_queue
             \/ /\ ~Pending(rel)
                /\ queue_internal_packet(Ack("PubRel", id), FALSE)
                /\ pending_packets' = {e \in pending_packets : e.key # pub}
                                        \cup {[key |-> rel, pkt |-> Ack("PubRel", id)]}
                /\ timeout_queue' = Append(timeout_queue, [packet_id |-> rel, age |-> 0])
          /\ Wake(pub, "rec")
    /\ UNCHANGED dispatchvars

\* Fault: only the first PUBREL is answered.
AnswerOnce ==
    /\ Receive("PubRel")
    /\ LET id == Head(to_client).id IN
        /\ clear_packet_timeout(Key("PubRec", id))
        /\ IF Pending(Key("PubRec", id)) THEN queue_internal_packet(Ack("PubComp", id), FALSE)
           ELSE UNCHANGED streamvars
    /\ UNCHANGED <<timeout_queue, notifyvars, dispatchvars>>

ReceivePubRel ==
    /\ Receive("PubRel")
    /\ LET id == Head(to_client).id IN
        /\ clear_packet_timeout(Key("PubRec", id))
        /\ queue_internal_packet(Ack("PubComp", id), FALSE)
    /\ UNCHANGED <<timeout_queue, notifyvars, dispatchvars>>

ReceivePubComp ==
    /\ Receive("PubComp")
    /\ LET key == Key("PubRel", Head(to_client).id) IN
        clear_packet_timeout(key) /\ Wake(key, "comp")
    /\ UNCHANGED <<timeout_queue, streamvars, dispatchvars>>

\* A second passes and the alarm branch begins its loop.  Time is read
\* nowhere else.
Alarm ==
    /\ InSelect
    /\ timeout_queue # <<>>
    /\ InFlight = 0 \/ InFlight + Len(timeout_queue) <= MaxInFlight
    /\ timeout_queue' = [i \in DOMAIN timeout_queue |->
            [timeout_queue[i] EXCEPT !.age = IF @ < MaxAge THEN @ + 1 ELSE @]]
    /\ timeout_count' = Len(timeout_queue)
    /\ UNCHANGED <<clientvars, notifyvars, pending_packets, streamvars, to_client,
                   dispatchvars, brokervars>>

\* A timeout was set between two ticks, so the tick that completes the delay
\* may come just before it has elapsed.
MayBeDue(to) == to.age >= ResendDelay
MustBeDue(to) == to.age > ResendDelay

\* Fault: a packet is sent again once only.
AlarmPopOnce ==
    /\ timeout_count > 0
    /\ LET to == Head(timeout_queue) IN
        /\ MayBeDue(to)
        /\ IF Pending(to.packet_id)
           THEN queue_internal_packet(PendingPacket(to.packet_id), to.packet_id.ty = "Publish")
           ELSE UNCHANGED streamvars
    /\ timeout_queue' = Tail(timeout_queue)
    /\ timeout_count' = timeout_count - 1
    /\ UNCHANGED <<clientvars, notifyvars, pending_packets, to_client, dispatchvars, brokervars>>

\* One iteration: the oldest timeout is due.  Its packet is sent again if it
\* is still pending, and the timeout goes to the back of the queue.
AlarmPop ==
    /\ timeout_count > 0
    /\ LET to == Head(timeout_queue) IN
        /\ MayBeDue(to)
        /\ \/ /\ Pending(to.packet_id)
              /\ queue_internal_packet(PendingPacket(to.packet_id), to.packet_id.ty = "Publish")
              /\ timeout_queue' = Append(Tail(timeout_queue), [to EXCEPT !.age = 0])
           \/ /\ ~Pending(to.packet_id)
              /\ timeout_queue' = Tail(timeout_queue)
              /\ UNCHANGED streamvars
    /\ timeout_count' = timeout_count - 1
    /\ UNCHANGED <<clientvars, notifyvars, pending_packets, to_client, dispatchvars, brokervars>>

AlarmBreak ==
    /\ timeout_count > 0
    /\ ~MustBeDue(Head(timeout_queue))
    /\ timeout_count' = 0
    /\ UNCHANGED <<clientvars, notifyvars, protovars, streamvars, to_client, dispatchvars,
                   brokervars>>

-----------------------------------------------------------------------------
(* The broker.                                                             *)

Read(ty) ==
    /\ to_broker # <<>> /\ Head(to_broker).ty = ty
    /\ to_broker' = Tail(to_broker)
    /\ UNCHANGED <<clientvars, notifyvars, protovars, timeout_count, backlog, dispatchvars>>

Reply(p) == to_client' = Append(to_client, p)

BrokerPublish ==
    /\ Read("Publish")
    /\ LET p == Head(to_broker) IN
        \/ /\ QoS[p.msg] = 0
           /\ b_got' = Bump(b_got, p.msg)
           /\ UNCHANGED <<b_ids, to_client>>
        \/ /\ QoS[p.msg] = 1
           /\ b_got' = Bump(b_got, p.msg)
           /\ Reply(Ack("PubAck", p.id))
           /\ UNCHANGED b_ids
        \/ /\ QoS[p.msg] = 2
           /\ b_got' = IF p.id \in b_ids THEN b_got ELSE Bump(b_got, p.msg)
           /\ b_ids' = b_ids \cup {p.id}
           /\ Reply(Ack("PubRec", p.id))
    /\ UNCHANGED <<b_out, b_sent, b_done>>

BrokerPubRel ==
    /\ Read("PubRel")
    /\ b_ids' = b_ids \ {Head(to_broker).id}
    /\ Reply(Ack("PubComp", Head(to_broker).id))
    /\ UNCHANGED <<b_got, b_out, b_sent, b_done>>

\* PUBREC: the message is known to the client, its id is released.
BrokerPubRec ==
    /\ Read("PubRec")
    /\ LET id == Head(to_broker).id IN
        \/ /\ b_out[id].st \in {"sent 2", "released"}
           /\ b_out' = [b_out EXCEPT ![id].st = "released"]
           /\ Reply(Ack("PubRel", id))
        \/ /\ b_out[id].st \notin {"sent 2", "released"}
           /\ UNCHANGED <<b_out, to_client>>
    /\ UNCHANGED <<b_got, b_ids, b_sent, b_done>>

\* PUBACK or PUBCOMP: the message is done and its id free, if it is the
\* answer the broker waits for.
BrokerDone(ty, st) ==
    /\ Read(ty)
    /\ LET id == Head(to_broker).id IN
        \/ /\ b_out[id].st = st
           /\ b_done' = b_done \cup {b_out[id].msg}
           /\ b_out' = [b_out EXCEPT ![id] = Idle]
        \/ /\ b_out[id].st # st
           /\ UNCHANGED <<b_done, b_out>>
    /\ UNCHANGED <<to_client, b_got, b_ids, b_sent>>

BrokerPubAck == BrokerDone("PubAck", "sent 1")
BrokerPubComp == BrokerDone("PubComp", "released")

BrokerIgnores ==
    /\ to_broker # <<>>
    /\ to_broker' = Tail(to_broker)
    /\ UNCHANGED <<clientvars, notifyvars, protovars, timeout_count, backlog, to_client,
                   dispatchvars, brokervars>>

\* A new message, under a free id unless it is of QoS 0.
BrokerSends(m) ==
    /\ Fresh(m)
    /\ \/ /\ QoS[m] = 0
          /\ Reply(Publish(m, 0))
          /\ UNCHANGED b_out
       \/ /\ QoS[m] > 0
          /\ b_out[InId[m]] = Idle
          /\ b_out' = [b_out EXCEPT ![InId[m]] =
                          [st |-> IF QoS[m] = 1 THEN "sent 1" ELSE "sent 2", msg |-> m]]
          /\ Reply(Publish(m, InId[m]))
    /\ b_sent' = b_sent \cup {m}
    /\ UNCHANGED <<clientvars, notifyvars, protovars, timeout_count, streamvars, dispatchvars,
                   b_got, b_ids, b_done>>

\* What has not been answered, once more.
BrokerResends(id) ==
    /\ InFlight < MaxInFlight
    /\ \/ /\ b_out[id].st \in {"sent 1", "sent 2"}
          /\ Reply([Publish(b_out[id].msg, id) EXCEPT !.dup = TRUE])
       \/ /\ b_out[id].st = "released"
          /\ Reply(Ack("PubRel", id))
    /\ UNCHANGED <<clientvars, notifyvars, protovars, timeout_count, streamvars, dispatchvars,
                   brokervars>>

-----------------------------------------------------------------------------

\* Everything is sent, answered and cleared: only a new message or a ping
\* would make a difference.
Settled ==
    /\ \A m \in Messages : ~Fresh(m)
    /\ \A id \in Ids : b_out[id] = Idle
    /\ waiting = {} /\ cmd_queue = <<>> /\ timeout_queue = <<>> /\ dispatching = None
    /\ backlog = <<>> /\ to_broker = <<>> /\ to_client = <<>>
    /\ UNCHANGED vars

Client ==
    \/ \E m \in OutMsgs, ev \in Events \cup {"none"} : ClientPublish(m, ev)
    \/ \E cmd \in waiting : ClientSend(cmd)
    \/ \E m \in OutMsgs : ClientTryPublish(m)

Task ==
    \/ CommandPublish \/ Emit
    \/ ReceivePublish \/ Dispatch
    \/ ReceivePubAck \/ ReceivePubRec \/ ReceivePubRel \/ ReceivePubComp
    \/ Alarm \/ AlarmPop \/ AlarmBreak

Broker ==
    \/ BrokerPublish \/ BrokerPubRel \/ BrokerPubRec \/ BrokerPubAck \/ BrokerPubComp
    \/ BrokerIgnores
    \/ \E m \in InMsgs : BrokerSends(m)
    \/ \E id \in Ids : BrokerResends(id)

Next == Client \/ Task \/ Broker \/ Settled

Spec == Init /\ [][Next]_vars

\* The task is polled, its alarm rings every second and its peer reads; the
\* broker resends and does not ignore the same kind of packet for ever.
FairSpec ==
    /\ Spec
    /\ WF_vars(\E cmd \in waiting : ClientSend(cmd))
    /\ SF_vars(CommandPublish) /\ SF_vars(Emit)
    /\ SF_vars(\/ ReceivePublish \/ ReceivePubAck \/ ReceivePubRec \/ ReceivePubRel
               \/ ReceivePubComp)
    /\ WF_vars(Dispatch)
    /\ SF_vars(Alarm) /\ WF_vars(AlarmPop \/ AlarmBreak)
    /\ SF_vars(BrokerPublish) /\ SF_vars(BrokerPubRel) /\ SF_vars(BrokerPubRec)
    /\ SF_vars(BrokerPubAck) /\ SF_vars(BrokerPubComp)
    /\ \A id \in Ids : SF_vars(BrokerResends(id))

-----------------------------------------------------------------------------
(* Properties.                                                             *)

Timeout == [packet_id : IdType, age : 0..MaxAge]
Command == [msg : OutMsgs, id : Ids]
Notifier == [ev : Events, id : Ids, msg : OutMsgs]
Sent == [st : {"sent 1", "sent 2", "released"}, msg : InMsgs]

\* Type correctness of the queues, the table of pending packets and the
\* timeouts; the alarm handler never pops more timeouts than it found.
TypeOK ==
    /\ next_packet_id \in Ids
    /\ submitted \subseteq [msg : OutMsgs, id : Ids, ev : Events \cup {"none"}]
    /\ refused \subseteq OutMsgs
    /\ waiting \subseteq Command
    /\ cmd_queue \in Seq(Command) /\ Len(cmd_queue) <= QueueCap
    /\ notify \subseteq Notifier
    /\ notified \subseteq [ev : Events, msg : OutMsgs]
    /\ pending_packets \subseteq [key : IdType, pkt : Packet]
    /\ timeout_queue \in Seq(Timeout)
    /\ timeout_count \in 0..Len(timeout_queue)
    /\ backlog \in Seq(Packet) /\ to_broker \in Seq(Packet) /\ to_client \in Seq(Packet)
    /\ dispatched \in [InMsgs -> 0..MaxCount] /\ dispatching \in Messages \cup {None}
    /\ b_got \in [OutMsgs -> 0..MaxCount]
    /\ b_ids \subseteq Ids
    /\ b_out \in [Ids -> Sent \cup {Idle}]
    /\ b_sent \subseteq InMsgs /\ b_done \subseteq InMsgs

\* Every packet kept for retransmission has a timeout that will bring it up
\* again ("Timeout should already be there", "there should already be one
\* somewhere"), although clearing a packet leaves its timeout behind and an
\* id may come back before that timeout is popped.
TimeoutCovered ==
    \A e \in pending_packets :
        \E i \in DOMAIN timeout_queue : timeout_queue[i].packet_id = e.key

\* The front of timeout_queue is its oldest element, on which the `break` of
\* the alarm branch relies.
OldestFirst ==
    \A i, j \in DOMAIN timeout_queue :
        i < j => timeout_queue[i].age >= timeout_queue[j].age

\* No packet is in two stages of its handshake: once PUBREL is kept for an
\* id, its PUBLISH is neither kept nor behind that PUBREL on its way out, so
\* that the broker cannot take it for a new message.
ReleaseIsFinal ==
    LET out == to_broker \o backlog IN
    \A id \in Ids : Pending(Key("PubRel", id)) =>
        /\ ~Pending(Key("Publish", id))
        /\ \A i, j \in DOMAIN out :
            ~(i < j /\ out[i] = Ack("PubRel", id) /\ out[j].ty = "Publish" /\ out[j].id = id)

\* A packet is only stored under an id that is not in use
\* ("queue_internal_packet_with_timeout should only be used with new packets").
\* Does not hold once the ids of make_publish_cmd wrap around.
NewPacketsOnly ==
    InSelect /\ backlog = <<>> /\ cmd_queue # <<>>
        => ~Pending(Key("Publish", Head(cmd_queue).id))

\* Whoever waits for an event of a message learns of it, however often the
\* broker ignores packets, because they are sent again.
OutgoingCompletes ==
    \A m \in OutMsgs, ev \in Events :
        (\E s \in submitted : s.msg = m /\ s.ev = ev) ~> ([ev |-> ev, msg |-> m] \in notified)

\* A message of the broker comes to its end and to its subscribers, however
\* often the answers of the client are ignored.
IncomingCompletes ==
    \A m \in InMsgs : (m \in b_sent /\ QoS[m] > 0) ~> (m \in b_done /\ dispatched[m] > 0)

=============================================================================
