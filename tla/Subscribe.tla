----------------------------- MODULE Subscribe -----------------------------
(***************************************************************************)
(* Subscribing to one topic: Client::subscribe and unsubscribe             *)
(* (src/lib.rs), SubscribeFuture (src/futures.rs), the map of              *)
(* subscriptions shared with the transceiver task (src/shared.rs), and the *)
(* parts of the task that handle SUBSCRIBE and UNSUBSCRIBE                 *)
(* (src/transceiver/mod.rs).                                               *)
(*                                                                         *)
(* Topics only share the packet ids, which do not wrap around here, so one *)
(* topic is enough.  The topic is valid, SubscriptionSet being about those *)
(* that are not.  A caller subscribes once.  The transmit path is a FIFO   *)
(* channel (PacketStream).  A timeout may fire at any time, in the order   *)
(* of timeout_queue.  The broker is external: it answers in the order of   *)
(* the requests and may ignore one, like the brokers of the tests.         *)
(***************************************************************************)
EXTENDS Naturals, Sequences, FiniteSets

CONSTANTS
    Callers,        \* calls of subscribe
    Cancellers,     \* those whose owner may drop the call
    MaxUnsubs,      \* bound: calls of unsubscribe
    Answers,        \* results the broker may put in a SUBACK
    Ends,           \* how the task loop may end
    QueueCap,       \* capacity of the command queue, 1024 in the code
    MaxInFlight,    \* bound: packets under way when something is sent again
    None            \* no caller

ASSUME SubscribeAssumption ==
    /\ Cancellers \subseteq Callers
    /\ MaxUnsubs \in Nat
    /\ Answers \subseteq {"granted", "refused", "empty"}
    /\ Ends \subseteq {"closed", "stop"}
    /\ QueueCap \in Nat \ {0}
    /\ MaxInFlight \in Nat
    /\ None \notin Callers

VARIABLES
    subs,               \* the entry of the topic in the shared map
    call,               \* where each caller is
    waker_index,        \* of each caller's future; 0 is None, i + 1 is Some(i)
    ready,              \* callers whose future is to be polled
    unsubs,             \* number of calls of unsubscribe so far
    cmd_queue,
    subscribed,         \* of the topic's Subscription object
    listeners,          \* callers whose queue or callback is in that object
    next_packet_id,
    pending_subs, pending_packets,  \* SUBSCRIBEs and UNSUBSCRIBEs kept
    timeout_queue,
    task,               \* where the task is
    wakers,             \* wakers the ending task has collected
    to_broker, to_client,
    b_sub,              \* broker: the client is subscribed
    answered            \* history: the answers the broker has given

clientvars == <<call, waker_index, ready>>
ownervars == <<unsubs, cmd_queue>>
objectvars == <<subscribed, listeners>>
keptvars == <<next_packet_id, pending_subs, pending_packets, timeout_queue>>
endvars == <<task, wakers>>
brokervars == <<b_sub, answered>>
vars == <<subs, clientvars, ownervars, objectvars, keptvars, endvars, to_broker, to_client,
          brokervars>>

Absent == [st |-> "Absent", wakers |-> <<>>]
Existing == [st |-> "Existing", wakers |-> <<>>]
Pending(ws) == [st |-> "Pending", wakers |-> ws]

Waiting == {"before", "after"}
Sending == {"send", "ask"}
Done == {"ok", "refused", "terminated", "cancelled", "panicked", "removed"}

Init ==
    /\ subs = Absent
    /\ call = [c \in Callers |-> "idle"]
    /\ waker_index = [c \in Callers |-> 0]
    /\ ready = {}
    /\ unsubs = 0
    /\ cmd_queue = <<>>
    /\ subscribed = FALSE /\ listeners = {}
    /\ next_packet_id = 1
    /\ pending_subs = {} /\ pending_packets = {}
    /\ timeout_queue = <<>>
    /\ task = "running" /\ wakers = {}
    /\ to_broker = <<>> /\ to_client = <<>>
    /\ b_sub = FALSE /\ answered = {}

closed == task = "dropped"
Wakers(ws) == {ws[i] : i \in DOMAIN ws} \ {None}
Goto(c, st) == call' = [call EXCEPT ![c] = st]

-----------------------------------------------------------------------------
(* The callers.                                                            *)

\* Fault: a subscription that is pending is asked for again.
LookAgain(c) ==
    /\ call[c] = "idle"
    /\ \/ subs.st = "Existing" /\ Goto(c, "send") /\ UNCHANGED subs
       \/ subs.st = "Pending" /\ Goto(c, "ask") /\ UNCHANGED subs
       \/ subs.st = "Absent" /\ Goto(c, "ask") /\ subs' = Pending(<<>>)
    /\ UNCHANGED <<waker_index, ready, ownervars, objectvars, keptvars, endvars, to_broker,
                   to_client, brokervars>>

\* The look at the map that decides when to wait (SubWait).
Look(c) ==
    /\ call[c] = "idle"
    /\ \/ subs.st = "Existing" /\ Goto(c, "send") /\ UNCHANGED <<subs, ready>>
       \/ subs.st = "Pending" /\ Goto(c, "before") /\ ready' = ready \cup {c} /\ UNCHANGED subs
       \/ /\ subs.st = "Absent"
          /\ Goto(c, "ask")
          /\ subs' = Pending(<<>>)
          /\ UNCHANGED ready
    /\ UNCHANGED <<waker_index, ownervars, objectvars, keptvars, endvars, to_broker,
                   to_client, brokervars>>

Enqueue(ty, c) ==
    /\ ~closed
    /\ Len(cmd_queue) < QueueCap
    /\ cmd_queue' = Append(cmd_queue, [ty |-> ty, who |-> c])

\* cmd_queue.send().await; then the call returns or its future is polled.
Send(c) ==
    /\ call[c] \in Sending
    /\ Enqueue("Subscribe", c)
    /\ \/ call[c] = "send" /\ Goto(c, "ok") /\ UNCHANGED ready
       \/ call[c] = "ask" /\ Goto(c, "after") /\ ready' = ready \cup {c}
    /\ UNCHANGED <<subs, waker_index, unsubs, objectvars, keptvars, endvars, to_broker,
                   to_client, brokervars>>

SendFails(c) ==
    /\ call[c] \in Sending
    /\ closed
    /\ Goto(c, "terminated")
    /\ UNCHANGED <<subs, waker_index, ready, ownervars, objectvars, keptvars, endvars,
                   to_broker, to_client, brokervars>>

\* The future has a place in the list of wakers, which may be the list of a
\* later attempt to subscribe; indexing past its end panics.
InList(c) == waker_index[c] \in DOMAIN subs.wakers

\* SubscribeFuture::poll.
Poll(c) ==
    /\ call[c] \in Waiting
    /\ \/ /\ subs.st = "Absent"
          /\ Goto(c, "refused")
          /\ UNCHANGED <<subs, waker_index>>
       \/ /\ subs.st = "Existing"
          /\ Goto(c, IF call[c] = "before" THEN "send" ELSE "ok")
          /\ UNCHANGED <<subs, waker_index>>
       \/ /\ subs.st = "Pending" /\ waker_index[c] = 0
          /\ subs' = Pending(Append(subs.wakers, c))
          /\ waker_index' = [waker_index EXCEPT ![c] = Len(subs.wakers) + 1]
          /\ UNCHANGED call
       \/ /\ subs.st = "Pending" /\ InList(c)
          /\ subs' = [subs EXCEPT !.wakers[waker_index[c]] = c]
          /\ UNCHANGED <<call, waker_index>>
       \/ /\ subs.st = "Pending" /\ waker_index[c] # 0 /\ ~InList(c)
          /\ Goto(c, "panicked")
          /\ UNCHANGED <<subs, waker_index>>
    /\ ready' = ready \ {c}
    /\ UNCHANGED <<ownervars, objectvars, keptvars, endvars, to_broker, to_client, brokervars>>

\* The owner drops the call at one of its awaits, and the future with it.
Cancel(c) ==
    /\ c \in Cancellers
    /\ \/ /\ \/ call[c] \in Sending
             \/ call[c] \in Waiting /\ (waker_index[c] = 0 \/ subs.st # "Pending")
          /\ Goto(c, "cancelled")
          /\ UNCHANGED subs
       \/ /\ call[c] \in Waiting /\ subs.st = "Pending" /\ InList(c)
          /\ Goto(c, "cancelled")
          /\ subs' = [subs EXCEPT !.wakers[waker_index[c]] = None]
       \/ /\ call[c] \in Waiting /\ subs.st = "Pending" /\ waker_index[c] # 0 /\ ~InList(c)
          /\ Goto(c, "panicked")
          /\ UNCHANGED subs
    /\ UNCHANGED <<waker_index, ready, ownervars, objectvars, keptvars, endvars, to_broker,
                   to_client, brokervars>>

\* Client::unsubscribe.
Unsubscribe ==
    /\ unsubs < MaxUnsubs
    /\ unsubs' = unsubs + 1
    /\ Enqueue("Immediate", None)
    /\ UNCHANGED <<subs, clientvars, objectvars, keptvars, endvars, to_broker, to_client,
                   brokervars>>

\* Callback::remove_callback.
RemoveCallback(c) ==
    /\ c \in Cancellers
    /\ call[c] = "ok"
    /\ Goto(c, "removed")
    /\ Enqueue("FastCallback", c)
    /\ UNCHANGED <<subs, waker_index, ready, unsubs, objectvars, keptvars, endvars,
                   to_broker, to_client, brokervars>>

-----------------------------------------------------------------------------
(* The task.                                                               *)

Take(ty) ==
    /\ task = "running"
    /\ cmd_queue # <<>> /\ Head(cmd_queue).ty = ty
    /\ cmd_queue' = Tail(cmd_queue)
    /\ UNCHANGED <<clientvars, unsubs, endvars, to_client, brokervars>>

\* A new packet id, the packet sent and its timeout set.
Request(ty) ==
    /\ next_packet_id' = next_packet_id + 1
    /\ to_broker' = Append(to_broker, [ty |-> ty, id |-> next_packet_id])
    /\ timeout_queue' = Append(timeout_queue, next_packet_id)

\* Fault: is_subscribed is not consulted.
AddAlways ==
    /\ Take("Subscribe")
    /\ listeners' = listeners \cup {Head(cmd_queue).who}
    /\ UNCHANGED <<subs, subscribed, keptvars, to_broker>>

CommandSubscribe ==
    /\ Take("Subscribe")
    /\ LET c == Head(cmd_queue).who IN
        \/ /\ subscribed
           /\ listeners' = listeners \cup {c}
           /\ UNCHANGED <<keptvars, to_broker>>
        \/ /\ ~subscribed
           /\ pending_subs' = pending_subs \cup {[id |-> next_packet_id, kind |-> c]}
           /\ Request("Subscribe")
           /\ UNCHANGED <<listeners, pending_packets>>
    /\ UNCHANGED <<subs, subscribed>>

\* SubscriptionSet::clear and unsub_immediate.
CommandUnsub ==
    /\ Take("Immediate")
    /\ \/ /\ subscribed
          /\ subscribed' = FALSE /\ listeners' = {}
          /\ subs' = Absent
          /\ pending_packets' = pending_packets \cup {next_packet_id}
          /\ Request("Unsubscribe")
          /\ UNCHANGED pending_subs
       \/ /\ ~subscribed
          /\ UNCHANGED <<subs, objectvars, keptvars, to_broker>>

CommandRemoveCallback ==
    /\ Take("FastCallback")
    /\ listeners' = listeners \ {Head(cmd_queue).who}
    /\ UNCHANGED <<subs, subscribed, keptvars, to_broker>>

Receive(ty) ==
    /\ task = "running"
    /\ to_client # <<>> /\ Head(to_client).ty = ty
    /\ to_client' = Tail(to_client)
    /\ UNCHANGED <<call, waker_index, ownervars, next_packet_id, timeout_queue, endvars,
                   to_broker, brokervars>>

\* What the four faults below have in common: a SUBACK that is taken for a
\* success, with the entries and futures it leaves behind.
Granted(entry, woken, kinds) ==
    /\ Receive("SubAck")
    /\ pending_subs' = {s \in pending_subs : s.id # Head(to_client).id}
    /\ subscribed' = TRUE
    /\ listeners' = listeners \cup kinds
    /\ subs' = entry
    /\ ready' = ready \cup woken
    /\ UNCHANGED pending_packets

Kinds == {s.kind : s \in {p \in pending_subs : p.id = Head(to_client).id}}

\* Fault: the result is not looked at.
SubAckIgnoresResult == Granted(Existing, Wakers(subs.wakers), Kinds)

\* Fault: the queue or callback of the caller is not added.
SubAckForgetsKind == Granted(Existing, Wakers(subs.wakers), {})

\* Fault: nobody is woken.
SubAckWithoutWaking == Granted(Existing, {}, Kinds)

\* Fault: the entry is removed, as after a refusal.
SubAckRemovesEntry == Granted(Absent, Wakers(subs.wakers), Kinds)

\* The first SUBACK of a packet id that is pending.  A list of wakers is
\* woken when it leaves the map.
ReceiveSubAck ==
    /\ Receive("SubAck")
    /\ LET ack == Head(to_client)
           mine == {s \in pending_subs : s.id = ack.id}
       IN /\ pending_subs' = pending_subs \ mine
          /\ \/ /\ mine = {} \/ ack.result = "empty"
                /\ UNCHANGED <<subs, ready, objectvars>>
             \/ /\ mine # {} /\ ack.result = "granted"
                /\ subscribed' = TRUE
                /\ listeners' = listeners \cup {s.kind : s \in mine}
                /\ subs' = Existing
                /\ ready' = ready \cup Wakers(subs.wakers)
             \/ /\ mine # {} /\ ack.result = "refused"
                /\ subs' = Absent
                /\ ready' = ready \cup Wakers(subs.wakers)
                /\ UNCHANGED objectvars
    /\ UNCHANGED pending_packets

ReceiveUnsubAck ==
    /\ Receive("UnsubAck")
    /\ pending_packets' = pending_packets \ {Head(to_client).id}
    /\ UNCHANGED <<subs, ready, objectvars, pending_subs>>

\* Fault: SUBSCRIBE packets are looked for in pending_packets.
AlarmForgetsSubs ==
    /\ task = "running"
    /\ timeout_queue # <<>>
    /\ Len(to_broker) + Len(to_client) < MaxInFlight
    /\ LET id == Head(timeout_queue) IN
        \/ /\ id \in pending_packets
           /\ to_broker' = Append(to_broker, [ty |-> "Unsubscribe", id |-> id])
           /\ timeout_queue' = Append(Tail(timeout_queue), id)
        \/ /\ id \notin pending_packets
           /\ timeout_queue' = Tail(timeout_queue)
           /\ UNCHANGED to_broker
    /\ UNCHANGED <<subs, clientvars, ownervars, objectvars, next_packet_id, pending_subs,
                   pending_packets, endvars, to_client, brokervars>>

\* An iteration of the alarm branch whose timeout is due.
AlarmPop ==
    /\ task = "running"
    /\ timeout_queue # <<>>
    /\ Len(to_broker) + Len(to_client) < MaxInFlight
    /\ LET id == Head(timeout_queue)
           Resend(ty) == /\ to_broker' = Append(to_broker, [ty |-> ty, id |-> id])
                         /\ timeout_queue' = Append(Tail(timeout_queue), id)
           IsSub == \E s \in pending_subs : s.id = id
       IN \/ IsSub /\ Resend("Subscribe")
          \/ id \in pending_packets /\ Resend("Unsubscribe")
          \/ /\ ~IsSub /\ id \notin pending_packets
             /\ timeout_queue' = Tail(timeout_queue)
             /\ UNCHANGED to_broker
    /\ UNCHANGED <<subs, clientvars, ownervars, objectvars, next_packet_id, pending_subs,
                   pending_packets, endvars, to_client, brokervars>>

Ending == UNCHANGED <<call, waker_index, unsubs, objectvars, keptvars, to_broker, to_client,
                      brokervars>>

LoopEnds(how) ==
    /\ task = "running"
    /\ how \in Ends
    /\ task' = IF how = "closed" THEN "returned" ELSE "draining"
    /\ Ending /\ UNCHANGED <<subs, ready, cmd_queue, wakers>>

\* The map is emptied under its lock.
DrainSubs ==
    /\ task = "draining"
    /\ wakers' = Wakers(subs.wakers)
    /\ subs' = Absent
    /\ task' = "waking"
    /\ Ending /\ UNCHANGED <<ready, cmd_queue>>

WakeOne(c) ==
    /\ task = "waking"
    /\ c \in wakers
    /\ wakers' = wakers \ {c}
    /\ ready' = ready \cup {c}
    /\ Ending /\ UNCHANGED <<subs, cmd_queue, task>>

WakeEnds ==
    /\ task = "waking"
    /\ wakers = {}
    /\ task' = "returned"
    /\ Ending /\ UNCHANGED <<subs, ready, cmd_queue, wakers>>

TransceiverDropped ==
    /\ task = "returned"
    /\ task' = "dropped"
    /\ cmd_queue' = <<>>
    /\ Ending /\ UNCHANGED <<subs, ready, wakers>>

-----------------------------------------------------------------------------
(* The broker.                                                             *)

Read(ty) ==
    /\ to_broker # <<>> /\ Head(to_broker).ty = ty
    /\ to_broker' = Tail(to_broker)
    /\ UNCHANGED <<subs, clientvars, ownervars, objectvars, keptvars, endvars>>

BrokerSubscribe(result) ==
    /\ Read("Subscribe")
    /\ result \in Answers
    /\ b_sub' = (b_sub \/ result = "granted")
    /\ answered' = answered \cup {result}
    /\ to_client' = Append(to_client, [ty |-> "SubAck", id |-> Head(to_broker).id,
                                       result |-> result])

BrokerUnsubscribe ==
    /\ Read("Unsubscribe")
    /\ b_sub' = FALSE
    /\ to_client' = Append(to_client, [ty |-> "UnsubAck", id |-> Head(to_broker).id])
    /\ UNCHANGED answered

BrokerIgnores ==
    /\ \E ty \in {"Subscribe", "Unsubscribe"} : Read(ty)
    /\ UNCHANGED <<to_client, brokervars>>

-----------------------------------------------------------------------------

CallerStep(c) ==
    Look(c) \/ Send(c) \/ SendFails(c) \/ Poll(c) \/ Cancel(c) \/ RemoveCallback(c)

TaskStep ==
    \/ CommandSubscribe \/ CommandUnsub \/ CommandRemoveCallback
    \/ ReceiveSubAck \/ ReceiveUnsubAck \/ AlarmPop
    \/ \E how \in {"closed", "stop"} : LoopEnds(how)
    \/ DrainSubs \/ (\E c \in Callers : WakeOne(c)) \/ WakeEnds \/ TransceiverDropped

BrokerStep ==
    \/ \E result \in {"granted", "refused", "empty"} : BrokerSubscribe(result)
    \/ BrokerUnsubscribe \/ BrokerIgnores

Next == (\E c \in Callers : CallerStep(c)) \/ Unsubscribe \/ TaskStep \/ BrokerStep

Spec == Init /\ [][Next]_vars

Proceeds(c) == Send(c) \/ SendFails(c) \/ (c \in ready /\ Poll(c))

\* The executor runs what is ready, the alarm rings, and the broker does not
\* ignore requests for ever.
FairSpec ==
    /\ Spec
    /\ \A c \in Callers : SF_vars(Proceeds(c))
    /\ WF_vars(CommandSubscribe \/ CommandUnsub \/ CommandRemoveCallback)
    /\ WF_vars(ReceiveSubAck \/ ReceiveUnsubAck)
    /\ SF_vars(AlarmPop)
    /\ WF_vars(DrainSubs) /\ WF_vars(\E c \in Callers : WakeOne(c)) /\ WF_vars(WakeEnds)
    /\ WF_vars(TransceiverDropped)
    /\ SF_vars(\E result \in Answers : BrokerSubscribe(result)) /\ SF_vars(BrokerUnsubscribe)

-----------------------------------------------------------------------------
(* Properties.                                                             *)

Command == [ty : {"Subscribe", "FastCallback"}, who : Callers]
           \cup [ty : {"Immediate"}, who : {None}]
Packet == [ty : {"Subscribe", "Unsubscribe"}, id : Nat]
Answer == [ty : {"SubAck"}, id : Nat, result : Answers] \cup [ty : {"UnsubAck"}, id : Nat]
Entries == {"Absent", "Existing", "Pending"}
Entry == [st : Entries, wakers : Seq(Callers \cup {None})]
Places == {"idle"} \cup Waiting \cup Sending \cup Done
Tasks == {"running", "draining", "waking", "returned", "dropped"}

\* Type correctness; the command queue never holds more than its capacity.
TypeOK ==
    /\ subs \in Entry
    /\ call \in [Callers -> Places]
    /\ waker_index \in [Callers -> Nat]
    /\ ready \subseteq Callers
    /\ unsubs \in 0..MaxUnsubs
    /\ cmd_queue \in Seq(Command) /\ Len(cmd_queue) <= QueueCap
    /\ subscribed \in BOOLEAN /\ listeners \subseteq Callers
    /\ next_packet_id \in Nat
    /\ pending_subs \subseteq [id : Nat, kind : Callers]
    /\ pending_packets \subseteq Nat
    /\ timeout_queue \in Seq(Nat)
    /\ task \in Tasks
    /\ wakers \subseteq Callers
    /\ to_broker \in Seq(Packet) /\ to_client \in Seq(Answer)
    /\ b_sub \in BOOLEAN /\ answered \subseteq Answers

Queued(c) == \E i \in DOMAIN cmd_queue : cmd_queue[i] = [ty |-> "Subscribe", who |-> c]
Requested(c) == \E s \in pending_subs : s.kind = c

\* Every request that has not been answered has its timeout, so that it will
\* be sent again: the packets of SUBSCRIBE live in a map of their own, which
\* the alarm branch consults by the type of the timeout.
RequestsCovered ==
    \A id \in pending_packets \cup {s.id : s \in pending_subs} :
        \E i \in DOMAIN timeout_queue : timeout_queue[i] = id

\* A Subscription object that is not subscribed has no queue and no callback
\* in it, so that a later subscription does not deliver to earlier owners.
UnsubscribedIsEmpty == ~subscribed => listeners = {}

\* The queue or callback of a caller is on its way to the Subscription object
\* or in it until an unsubscription, a refusal or a SUBACK without result
\* takes it out, its owner removes it, or the task ends: no interleaving of
\* commands and SUBACKs loses it.
KindKept ==
    [][\A c \in Callers :
        /\ Queued(c) \/ Requested(c) \/ c \in listeners
        /\ ~(Queued(c) \/ Requested(c) \/ c \in listeners)'
        => \/ subs'.st = "Absent" \/ task' = "dropped" \/ call[c] = "removed"
           \/ to_client # <<>> /\ Head(to_client).ty = "SubAck"
                               /\ Head(to_client).result = "empty"]_vars

\* subscribe returns Ok only if the broker has granted the subscription.
OkMeansGranted == \A c \in Callers : call[c] = "ok" => "granted" \in answered

\* A future that sleeps has its waker where it will be found, and none
\* indexes a list of wakers past its end.
NoLostWakeup ==
    \A c \in Callers :
        /\ call[c] # "panicked"
        /\ call[c] \in Waiting /\ c \notin ready => c \in Wakers(subs.wakers) \cup wakers

\* A SUBSCRIBE command is not processed while the subscription is pending
\* ("In theory, this would never get called _while_ the subscription is
\* pending").
NeverWhilePending ==
    task = "running" /\ cmd_queue # <<>> /\ Head(cmd_queue).ty = "Subscribe" /\ ~subscribed
        => pending_subs = {}

\* A subscription whose status is Live has been established ("messages are
\* ready to be received"): once all requests are answered, the broker agrees.
\* Does not hold when an UNSUBSCRIBE is sent again behind a newer SUBSCRIBE.
LiveMeansSubscribed ==
    /\ subs.st = "Existing" /\ task = "running" /\ cmd_queue = <<>>
    /\ to_broker = <<>> /\ to_client = <<>> /\ pending_packets = {} /\ pending_subs = {}
    => b_sub

\* A subscription whose status is Pending is being established ("in the
\* process of being established"): somebody is about to ask for it or it has
\* been asked for.
PendingMeansEstablishing ==
    subs.st = "Pending" /\ task = "running" =>
        \E c \in Callers : call[c] = "ask" \/ Queued(c) \/ Requested(c)

\* Nobody has called unsubscribe, and the task has not emptied the map.
Undisturbed == unsubs = 0 /\ (task = "running" \/ "stop" \notin Ends)

\* RefusedByBroker is returned only when the broker has refused ("The broker
\* denied the request"), whatever other callers, cancellations and answers do to
\* the entry in the map.  After an unsubscription or a shutdown, which remove the
\* entry, too, it is returned without a refusal.
RefusedMeansRefused ==
    Undisturbed => \A c \in Callers : call[c] = "refused" => "refused" \in answered

\* Dropping a SubscribeFuture never panics and never removes the waker of
\* another one ("Can be cancelled safely").
CancelledSafely ==
    [][\A c \in Callers :
        call[c] \in Waiting /\ Cancel(c) =>
            /\ call'[c] # "panicked"
            /\ Wakers(subs.wakers) \ {c} \subseteq Wakers(subs'.wakers)]_vars

\* A call of subscribe comes to its end, although requests may be ignored,
\* because they are sent again.
SubscribeCompletes == \A c \in Callers : (call[c] # "idle") ~> (call[c] \in Done)

=============================================================================
