-------------------------- MODULE SubscribeProofs --------------------------
(***************************************************************************)
(* What Subscribe promises for any number of callers and unsubscriptions,  *)
(* any broker and any capacity of the command queue.                       *)
(***************************************************************************)
EXTENDS Subscribe, Integers, QueueFacts, TLAPS

\* The grant of the broker reaches a caller through the SUBACK, the entry in
\* the map and, for one that finds the entry, the command.
GrantedFirst ==
    "granted" \notin answered =>
        /\ subs.st # "Existing"
        /\ \A c \in Callers : call[c] \notin {"send", "ok"}
        /\ \A m \in Elems(to_client) : m.ty = "SubAck" => m.result # "granted"

\* Only the owner of a callback asks for its removal, and is done then.
RemovedByOwner ==
    \A c \in Callers : [ty |-> "FastCallback", who |-> c] \in Elems(cmd_queue) => call[c] = "removed"

Inv == TypeOK /\ RequestsCovered /\ UnsubscribedIsEmpty /\ GrantedFirst /\ RemovedByOwner

-----------------------------------------------------------------------------
(* The queues.                                                             *)

\* The properties in terms of what is in the queues.
LEMMA InElems ==
    /\ RequestsCovered <=> pending_packets \cup {s.id : s \in pending_subs} \subseteq Elems(timeout_queue)
    /\ \A c : Queued(c) <=> [ty |-> "Subscribe", who |-> c] \in Elems(cmd_queue)
  BY DEF RequestsCovered, Queued, Elems

-----------------------------------------------------------------------------
(* The invariant is inductive: the callers.                                *)

\* What may be in the map.
LEMMA EntryTypes ==
    /\ Absent \in Entry /\ Existing \in Entry /\ Pending(<<>>) \in Entry
    /\ Absent.st # "Existing" /\ Pending(<<>>).st # "Existing"
  <1>1. <<>> \in Seq(Callers \cup {None})
    OBVIOUS
  <1> QED BY <1>1 DEF Entry, Entries, Absent, Existing, Pending

LEMMA InitInv == Init => Inv
  <1> SUFFICES ASSUME Init PROVE Inv
    OBVIOUS
  <1>1. TypeOK
    <2>1. subs \in Entry
      BY EntryTypes DEF Init
    <2>2. call \in [Callers -> Places] /\ waker_index \in [Callers -> Nat]
      BY DEF Init, Places
    <2>3. cmd_queue \in Seq(Command) /\ Len(cmd_queue) <= QueueCap /\ unsubs \in 0..MaxUnsubs
      BY SubscribeAssumption DEF Init
    <2>4. timeout_queue \in Seq(Nat) /\ to_broker \in Seq(Packet) /\ to_client \in Seq(Answer)
      BY DEF Init
    <2> QED BY Zenon, <2>1, <2>2, <2>3, <2>4 DEF Init, TypeOK, Tasks
  <1>2. RequestsCovered
    BY DEF Init, RequestsCovered
  <1>3. UnsubscribedIsEmpty
    BY DEF Init, UnsubscribedIsEmpty
  <1>4. GrantedFirst
    BY DEF Init, GrantedFirst, Elems, Absent
  <1>5. RemovedByOwner
    BY DEF Init, RemovedByOwner, Elems
  <1> QED BY <1>1, <1>2, <1>3, <1>4, <1>5 DEF Inv

\* A command finds room in the queue.
LEMMA EnqueueKeeps ==
    ASSUME TypeOK, NEW ty, NEW c, [ty |-> ty, who |-> c] \in Command, Enqueue(ty, c)
    PROVE  /\ cmd_queue' \in Seq(Command) /\ Len(cmd_queue') <= QueueCap
           /\ Elems(cmd_queue') = Elems(cmd_queue) \cup {[ty |-> ty, who |-> c]}
  <1>1. cmd_queue \in Seq(Command) /\ Len(cmd_queue) \in Nat /\ Len(cmd_queue) < QueueCap
    BY DEF TypeOK, Enqueue
  <1>2. cmd_queue' = Append(cmd_queue, [ty |-> ty, who |-> c])
    BY DEF Enqueue
  <1>3. Len(cmd_queue') = Len(cmd_queue) + 1
    BY <1>1, <1>2, Added
  <1>4. Len(cmd_queue') <= QueueCap
    BY <1>1, <1>3, SubscribeAssumption
  <1> QED BY <1>1, <1>2, <1>4, Added

\* The caller goes to p.  Only one that finds the subscription granted goes on
\* without waiting, and nothing is taken back.
Moves(c, p) ==
    /\ p \in Places /\ call' = [call EXCEPT ![c] = p]
    /\ call[c] # "removed" \/ p = "removed"
    /\ p \in {"send", "ok"} => subs.st = "Existing" \/ call[c] \in {"send", "ok"}
    /\ subs' \in Entry
    /\ subs'.st = "Existing" => subs.st = "Existing"
    /\ waker_index' \in [Callers -> Nat] /\ ready' \subseteq Callers
    /\ cmd_queue' \in Seq(Command) /\ Len(cmd_queue') <= QueueCap
    /\ \A d \in Callers : [ty |-> "FastCallback", who |-> d] \in Elems(cmd_queue')
           => [ty |-> "FastCallback", who |-> d] \in Elems(cmd_queue) \/ (d = c /\ p = "removed")
    /\ UNCHANGED <<unsubs, objectvars, keptvars, endvars, to_broker, to_client, brokervars>>

\* Such a step keeps the invariant.
LEMMA MovesKeeps ==
    ASSUME Inv, NEW c \in Callers, NEW p, Moves(c, p)
    PROVE  Inv'
  <1>1. /\ unsubs' = unsubs /\ subscribed' = subscribed /\ listeners' = listeners
        /\ next_packet_id' = next_packet_id /\ pending_subs' = pending_subs
        /\ pending_packets' = pending_packets /\ timeout_queue' = timeout_queue
        /\ task' = task /\ wakers' = wakers /\ to_broker' = to_broker /\ to_client' = to_client
        /\ b_sub' = b_sub /\ answered' = answered
    BY DEF Moves, objectvars, keptvars, endvars, brokervars
  <1>2. call' \in [Callers -> Places]
    BY DEF Inv, TypeOK, Moves
  <1>3. TypeOK'
    BY <1>1, <1>2 DEF Inv, TypeOK, Moves
  <1>4. RequestsCovered'
    BY <1>1 DEF Inv, RequestsCovered
  <1>5. UnsubscribedIsEmpty'
    BY <1>1 DEF Inv, UnsubscribedIsEmpty
  <1>6. \A d \in Callers : call'[d] = IF d = c THEN p ELSE call[d]
    BY DEF Inv, TypeOK, Moves
  <1>7. GrantedFirst'
    <2> SUFFICES ASSUME "granted" \notin answered
                 PROVE  /\ subs'.st # "Existing"
                        /\ \A d \in Callers : call'[d] \notin {"send", "ok"}
                        /\ \A m \in Elems(to_client) : m.ty = "SubAck" => m.result # "granted"
      BY <1>1 DEF GrantedFirst
    <2>1. /\ subs.st # "Existing"
          /\ \A d \in Callers : call[d] \notin {"send", "ok"}
          /\ \A m \in Elems(to_client) : m.ty = "SubAck" => m.result # "granted"
      BY DEF Inv, GrantedFirst
    <2>2. p \notin {"send", "ok"} /\ subs'.st # "Existing"
      BY <2>1 DEF Moves
    <2> QED BY <2>1, <2>2, <1>6
  <1>8. RemovedByOwner'
    <2> SUFFICES ASSUME NEW d \in Callers, [ty |-> "FastCallback", who |-> d] \in Elems(cmd_queue')
                 PROVE  call'[d] = "removed"
      BY DEF RemovedByOwner
    <2>1. CASE [ty |-> "FastCallback", who |-> d] \in Elems(cmd_queue)
      <3>1. call[d] = "removed"
        BY <2>1 DEF Inv, RemovedByOwner
      <3> QED BY <3>1, <1>6 DEF Moves
    <2>2. CASE d = c /\ p = "removed"
      BY <2>2, <1>6
    <2> QED BY <2>1, <2>2 DEF Moves
  <1> QED BY <1>3, <1>4, <1>5, <1>7, <1>8 DEF Inv

LEMMA LookKeeps ==
    ASSUME Inv, NEW c \in Callers, Look(c)
    PROVE  Inv'
  <1>1. /\ UNCHANGED <<unsubs, objectvars, keptvars, endvars, to_broker, to_client, brokervars>>
        /\ waker_index' = waker_index /\ cmd_queue' = cmd_queue /\ call[c] = "idle"
    BY DEF Look, ownervars
  <1>2. /\ waker_index' \in [Callers -> Nat] /\ cmd_queue' \in Seq(Command) /\ Len(cmd_queue') <= QueueCap
        /\ subs \in Entry /\ ready \subseteq Callers
    BY <1>1 DEF Inv, TypeOK
  <1>3. CASE subs.st = "Existing" /\ Goto(c, "send") /\ UNCHANGED <<subs, ready>>
    <2>1. "send" \in Places
      BY DEF Places, Sending
    <2>2. Moves(c, "send")
      BY <1>1, <1>2, <1>3, <2>1 DEF Moves, Goto
    <2> QED BY <2>2, MovesKeeps
  <1>4. CASE subs.st = "Pending" /\ Goto(c, "before") /\ ready' = ready \cup {c} /\ UNCHANGED subs
    <2>1. "before" \in Places
      BY DEF Places, Waiting
    <2>2. ready' \subseteq Callers
      BY <1>2, <1>4
    <2>3. Moves(c, "before")
      BY <1>1, <1>2, <1>4, <2>1, <2>2 DEF Moves, Goto
    <2> QED BY <2>3, MovesKeeps
  <1>5. CASE subs.st = "Absent" /\ Goto(c, "ask") /\ subs' = Pending(<<>>) /\ UNCHANGED ready
    <2>1. "ask" \in Places
      BY DEF Places, Sending
    <2>2. Moves(c, "ask")
      BY <1>1, <1>2, <1>5, <2>1, EntryTypes DEF Moves, Goto
    <2> QED BY <2>2, MovesKeeps
  <1> QED BY <1>3, <1>4, <1>5 DEF Look

LEMMA SendKeeps ==
    ASSUME Inv, NEW c \in Callers, Send(c) \/ SendFails(c)
    PROVE  Inv'
  <1>1. /\ UNCHANGED <<unsubs, objectvars, keptvars, endvars, to_broker, to_client, brokervars>>
        /\ waker_index' = waker_index /\ subs' = subs /\ call[c] \in {"send", "ask"}
    BY DEF Send, SendFails, Sending, ownervars
  <1>2. /\ waker_index' \in [Callers -> Nat] /\ ready \subseteq Callers
        /\ subs' \in Entry
        /\ cmd_queue \in Seq(Command) /\ Len(cmd_queue) <= QueueCap
    BY <1>1 DEF Inv, TypeOK
  <1>3. {"ok", "after", "terminated"} \subseteq Places
    BY DEF Places, Waiting, Done
  <1>4. CASE Send(c)
    <2>1. [ty |-> "Subscribe", who |-> c] \in Command
      BY DEF Command
    <2>2. /\ cmd_queue' \in Seq(Command) /\ Len(cmd_queue') <= QueueCap
          /\ Elems(cmd_queue') = Elems(cmd_queue) \cup {[ty |-> "Subscribe", who |-> c]}
      BY <1>4, <2>1, EnqueueKeeps DEF Inv, Send
    <2>3. \A d \in Callers : [ty |-> "FastCallback", who |-> d] \in Elems(cmd_queue')
                                 => [ty |-> "FastCallback", who |-> d] \in Elems(cmd_queue)
      BY <2>2
    <2>4. CASE call[c] = "send" /\ Goto(c, "ok") /\ UNCHANGED ready
      <3>1. Moves(c, "ok")
        BY <1>1, <1>2, <1>3, <2>2, <2>3, <2>4 DEF Moves, Goto
      <3> QED BY <3>1, MovesKeeps
    <2>5. CASE call[c] = "ask" /\ Goto(c, "after") /\ ready' = ready \cup {c}
      <3>1. ready' \subseteq Callers
        BY <1>2, <2>5
      <3>2. Moves(c, "after")
        BY <1>1, <1>2, <1>3, <2>2, <2>3, <2>5, <3>1 DEF Moves, Goto
      <3> QED BY <3>2, MovesKeeps
    <2> QED BY <1>4, <2>4, <2>5 DEF Send
  <1>5. CASE SendFails(c)
    <2>1. cmd_queue' = cmd_queue /\ ready' = ready /\ Goto(c, "terminated")
      BY <1>5 DEF SendFails, ownervars
    <2>2. Moves(c, "terminated")
      BY <1>1, <1>2, <1>3, <2>1 DEF Moves, Goto
    <2> QED BY <2>2, MovesKeeps
  <1> QED BY <1>4, <1>5

LEMMA RemoveCallbackKeeps ==
    ASSUME Inv, NEW c \in Callers, RemoveCallback(c)
    PROVE  Inv'
  <1>1. /\ UNCHANGED <<unsubs, objectvars, keptvars, endvars, to_broker, to_client, brokervars>>
        /\ waker_index' = waker_index /\ subs' = subs /\ ready' = ready /\ Goto(c, "removed")
    BY DEF RemoveCallback
  <1>2. /\ waker_index' \in [Callers -> Nat] /\ ready' \subseteq Callers
        /\ subs' \in Entry
    BY <1>1 DEF Inv, TypeOK
  <1>3. [ty |-> "FastCallback", who |-> c] \in Command
    BY DEF Command
  <1>4. /\ cmd_queue' \in Seq(Command) /\ Len(cmd_queue') <= QueueCap
        /\ Elems(cmd_queue') = Elems(cmd_queue) \cup {[ty |-> "FastCallback", who |-> c]}
    BY <1>3, EnqueueKeeps DEF Inv, RemoveCallback
  <1>5. \A d \in Callers : [ty |-> "FastCallback", who |-> d] \in Elems(cmd_queue')
                               => [ty |-> "FastCallback", who |-> d] \in Elems(cmd_queue) \/ d = c
    BY <1>4
  <1>6. "removed" \in Places
    BY DEF Places, Done
  <1>7. Moves(c, "removed")
    BY <1>1, <1>2, <1>4, <1>5, <1>6 DEF Moves, Goto
  <1> QED BY <1>7, MovesKeeps

\* A caller that is where it was has not moved.
LEMMA Stays ==
    ASSUME Inv, NEW c \in Callers, UNCHANGED call
    PROVE  call' = [call EXCEPT ![c] = call[c]] /\ call[c] \in Places
  BY DEF Inv, TypeOK

\* Entering a waker in a list, or clearing it.
LEMMA WakersKeep ==
    ASSUME Inv, NEW w \in Callers \cup {None}, subs.st = "Pending"
    PROVE  /\ Pending(Append(subs.wakers, w)) \in Entry
           /\ Pending(Append(subs.wakers, w)).st # "Existing"
           /\ \A e : \A c \in Callers : InList(c) /\ e = [subs EXCEPT !.wakers[waker_index[c]] = w] =>
                e \in Entry /\ e.st # "Existing"
           /\ Len(subs.wakers) + 1 \in Nat
  <1>1. subs \in Entry
    BY DEF Inv, TypeOK
  <1>2. subs.wakers \in Seq(Callers \cup {None}) /\ subs.st \in Entries /\ Len(subs.wakers) \in Nat
    BY <1>1 DEF Entry
  <1>3. Append(subs.wakers, w) \in Seq(Callers \cup {None})
    BY <1>2
  <1>4. /\ Pending(Append(subs.wakers, w)) \in Entry
        /\ Pending(Append(subs.wakers, w)).st # "Existing"
    BY <1>3 DEF Entry, Pending, Entries
  <1>5. ASSUME NEW c \in Callers, InList(c), NEW e, e = [subs EXCEPT !.wakers[waker_index[c]] = w]
        PROVE  e \in Entry /\ e.st # "Existing"
    <2>1. waker_index[c] \in 1..Len(subs.wakers)
      BY <1>2, <1>5 DEF InList
    <2>2. [subs.wakers EXCEPT ![waker_index[c]] = w] \in Seq(Callers \cup {None})
      BY <1>2, <2>1, Overwritten
    <2>3. e = [st |-> subs.st, wakers |-> [subs.wakers EXCEPT ![waker_index[c]] = w]]
      BY <1>1, <1>5 DEF Entry
    <2> QED BY <1>2, <2>2, <2>3 DEF Entry
  <1> QED BY <1>2, <1>4, <1>5

LEMMA PollKeeps ==
    ASSUME Inv, NEW c \in Callers, Poll(c)
    PROVE  Inv'
  <1>1. /\ UNCHANGED <<unsubs, objectvars, keptvars, endvars, to_broker, to_client, brokervars>>
        /\ cmd_queue' = cmd_queue /\ call[c] \in {"before", "after"} /\ ready' = ready \ {c}
    BY DEF Poll, Waiting, ownervars
  <1>2. /\ waker_index \in [Callers -> Nat] /\ cmd_queue' \in Seq(Command) /\ Len(cmd_queue') <= QueueCap
        /\ subs \in Entry /\ ready' \subseteq Callers
    BY <1>1 DEF Inv, TypeOK
  <1>3. {"send", "ok", "refused", "panicked"} \subseteq Places
    BY DEF Places, Sending, Done
  <1>4. CASE subs.st = "Absent" /\ Goto(c, "refused") /\ UNCHANGED <<subs, waker_index>>
    <2>1. Moves(c, "refused")
      BY <1>1, <1>2, <1>3, <1>4 DEF Moves, Goto
    <2> QED BY <2>1, MovesKeeps
  <1>5. CASE /\ subs.st = "Existing"
             /\ Goto(c, IF call[c] = "before" THEN "send" ELSE "ok")
             /\ UNCHANGED <<subs, waker_index>>
    <2>1. Moves(c, IF call[c] = "before" THEN "send" ELSE "ok")
      BY <1>1, <1>2, <1>3, <1>5 DEF Moves, Goto
    <2> QED BY <2>1, MovesKeeps
  <1>6. CASE /\ subs.st = "Pending" /\ waker_index[c] = 0
             /\ subs' = Pending(Append(subs.wakers, c))
             /\ waker_index' = [waker_index EXCEPT ![c] = Len(subs.wakers) + 1]
             /\ UNCHANGED call
    <2>1. /\ subs' \in Entry /\ subs'.st # "Existing"
          /\ waker_index' \in [Callers -> Nat]
      BY <1>2, <1>6, WakersKeep
    <2>2. Moves(c, call[c])
      BY <1>1, <1>2, <1>6, <2>1, Stays DEF Moves
    <2> QED BY <2>2, MovesKeeps
  <1>7. CASE /\ subs.st = "Pending" /\ InList(c)
             /\ subs' = [subs EXCEPT !.wakers[waker_index[c]] = c]
             /\ UNCHANGED <<call, waker_index>>
    <2>1. subs' \in Entry /\ subs'.st # "Existing"
      BY Zenon, <1>7, WakersKeep
    <2>2. Moves(c, call[c])
      BY <1>1, <1>2, <1>7, <2>1, Stays DEF Moves
    <2> QED BY <2>2, MovesKeeps
  <1>8. CASE subs.st = "Pending" /\ Goto(c, "panicked") /\ UNCHANGED <<subs, waker_index>>
    <2>1. Moves(c, "panicked")
      BY <1>1, <1>2, <1>3, <1>8 DEF Moves, Goto
    <2> QED BY <2>1, MovesKeeps
  <1> QED BY <1>4, <1>5, <1>6, <1>7, <1>8 DEF Poll

LEMMA CancelKeeps ==
    ASSUME Inv, NEW c \in Callers, Cancel(c)
    PROVE  Inv'
  <1>1. /\ UNCHANGED <<unsubs, objectvars, keptvars, endvars, to_broker, to_client, brokervars>>
        /\ cmd_queue' = cmd_queue /\ ready' = ready /\ waker_index' = waker_index
        /\ call[c] \in {"before", "after", "send", "ask"}
    BY DEF Cancel, Waiting, Sending, ownervars
  <1>2. /\ waker_index' \in [Callers -> Nat] /\ cmd_queue' \in Seq(Command) /\ Len(cmd_queue') <= QueueCap
        /\ subs \in Entry /\ ready' \subseteq Callers
    BY <1>1 DEF Inv, TypeOK
  <1>3. {"cancelled", "panicked"} \subseteq Places
    BY DEF Places, Done
  <1>4. CASE Goto(c, "cancelled") /\ UNCHANGED subs
    <2>1. Moves(c, "cancelled")
      BY <1>1, <1>2, <1>3, <1>4 DEF Moves, Goto
    <2> QED BY <2>1, MovesKeeps
  <1>5. CASE /\ subs.st = "Pending" /\ InList(c)
             /\ Goto(c, "cancelled")
             /\ subs' = [subs EXCEPT !.wakers[waker_index[c]] = None]
    <2>1. subs' \in Entry /\ subs'.st # "Existing"
      BY Zenon, <1>5, WakersKeep
    <2>2. Moves(c, "cancelled")
      BY <1>1, <1>2, <1>3, <1>5, <2>1 DEF Moves, Goto
    <2> QED BY <2>2, MovesKeeps
  <1>6. CASE Goto(c, "panicked") /\ UNCHANGED subs
    <2>1. Moves(c, "panicked")
      BY <1>1, <1>2, <1>3, <1>6 DEF Moves, Goto
    <2> QED BY <2>1, MovesKeeps
  <1> QED BY <1>4, <1>5, <1>6 DEF Cancel

-----------------------------------------------------------------------------
(* The owner of the client, and the task.                                  *)

\* What keeps GrantedFirst and RemovedByOwner when no caller moves.
LEMMA CallersKeep ==
    ASSUME Inv, call' = call, answered' = answered,
           Elems(cmd_queue') \cap [ty : {"FastCallback"}, who : Callers] \subseteq Elems(cmd_queue),
           Elems(to_client') \subseteq Elems(to_client),
           subs'.st = "Existing" => subs.st = "Existing" \/ "granted" \in answered
    PROVE  GrantedFirst' /\ RemovedByOwner'
  <1>1. GrantedFirst'
    <2> SUFFICES ASSUME "granted" \notin answered
                 PROVE  /\ subs'.st # "Existing"
                        /\ \A d \in Callers : call'[d] \notin {"send", "ok"}
                        /\ \A m \in Elems(to_client') : m.ty = "SubAck" => m.result # "granted"
      BY DEF GrantedFirst
    <2> QED BY DEF Inv, GrantedFirst
  <1>2. RemovedByOwner'
    <2> SUFFICES ASSUME NEW d \in Callers, [ty |-> "FastCallback", who |-> d] \in Elems(cmd_queue')
                 PROVE  call[d] = "removed"
      BY DEF RemovedByOwner
    <2>1. [ty |-> "FastCallback", who |-> d] \in [ty : {"FastCallback"}, who : Callers]
      OBVIOUS
    <2>2. [ty |-> "FastCallback", who |-> d] \in Elems(cmd_queue)
      BY <2>1
    <2> QED BY <2>2 DEF Inv, RemovedByOwner
  <1> QED BY <1>1, <1>2

LEMMA UnsubscribeKeeps ==
    ASSUME Inv, Unsubscribe
    PROVE  Inv'
  <1>1. /\ subs' = subs /\ call' = call /\ waker_index' = waker_index /\ ready' = ready
        /\ subscribed' = subscribed /\ listeners' = listeners /\ next_packet_id' = next_packet_id
        /\ pending_subs' = pending_subs /\ pending_packets' = pending_packets
        /\ timeout_queue' = timeout_queue /\ task' = task /\ wakers' = wakers
        /\ to_broker' = to_broker /\ to_client' = to_client /\ b_sub' = b_sub /\ answered' = answered
    BY DEF Unsubscribe, clientvars, objectvars, keptvars, endvars, brokervars
  <1>2. [ty |-> "Immediate", who |-> None] \in Command
    BY DEF Command
  <1>3. /\ cmd_queue' \in Seq(Command) /\ Len(cmd_queue') <= QueueCap
        /\ Elems(cmd_queue') = Elems(cmd_queue) \cup {[ty |-> "Immediate", who |-> None]}
    BY <1>2, EnqueueKeeps DEF Inv, Unsubscribe
  <1>4. unsubs' \in 0..MaxUnsubs
    BY SubscribeAssumption DEF Inv, TypeOK, Unsubscribe
  <1>5. TypeOK'
    BY <1>1, <1>3, <1>4 DEF Inv, TypeOK
  <1>6. RequestsCovered' /\ UnsubscribedIsEmpty'
    BY <1>1 DEF Inv, RequestsCovered, UnsubscribedIsEmpty
  <1>7. [ty |-> "Immediate", who |-> None] \notin [ty : {"FastCallback"}, who : Callers]
    OBVIOUS
  <1>8. GrantedFirst' /\ RemovedByOwner'
    BY <1>1, <1>3, <1>7, CallersKeep
  <1> QED BY <1>5, <1>6, <1>8 DEF Inv

\* A command leaves the queue.
LEMMA TakeKeeps ==
    ASSUME TypeOK, NEW ty, Take(ty)
    PROVE  /\ cmd_queue' \in Seq(Command) /\ Len(cmd_queue') <= QueueCap
           /\ Elems(cmd_queue) = {Head(cmd_queue)} \cup Elems(cmd_queue')
           /\ Head(cmd_queue) \in Command /\ Head(cmd_queue).ty = ty
           /\ call' = call /\ waker_index' = waker_index /\ ready' = ready /\ unsubs' = unsubs
           /\ task' = task /\ wakers' = wakers /\ to_client' = to_client
           /\ b_sub' = b_sub /\ answered' = answered
  <1>1. cmd_queue \in Seq(Command) /\ cmd_queue # <<>> /\ Len(cmd_queue) <= QueueCap
    BY DEF TypeOK, Take
  <1>2. /\ Head(cmd_queue) \in Command /\ Tail(cmd_queue) \in Seq(Command)
        /\ Len(Tail(cmd_queue)) <= Len(cmd_queue)
        /\ Elems(cmd_queue) = {Head(cmd_queue)} \cup Elems(Tail(cmd_queue))
    BY <1>1, Taken
  <1>3. Len(Tail(cmd_queue)) \in Nat /\ Len(cmd_queue) \in Nat
    BY <1>1, <1>2
  <1>4. Len(Tail(cmd_queue)) <= QueueCap
    BY <1>1, <1>2, <1>3, SubscribeAssumption
  <1> QED BY <1>2, <1>4 DEF Take, clientvars, endvars, brokervars

\* A request is on its way and has its timeout.
LEMMA RequestKeeps ==
    ASSUME TypeOK, NEW ty \in {"Subscribe", "Unsubscribe"}, Request(ty)
    PROVE  /\ next_packet_id \in Nat /\ next_packet_id' \in Nat /\ to_broker' \in Seq(Packet)
           /\ timeout_queue' \in Seq(Nat)
           /\ Elems(timeout_queue') = Elems(timeout_queue) \cup {next_packet_id}
  <1>1. next_packet_id \in Nat /\ to_broker \in Seq(Packet) /\ timeout_queue \in Seq(Nat)
    BY DEF TypeOK
  <1>2. [ty |-> ty, id |-> next_packet_id] \in Packet
    BY <1>1 DEF Packet
  <1>3. to_broker' \in Seq(Packet)
    BY <1>1, <1>2, Added DEF Request
  <1>4. timeout_queue' \in Seq(Nat) /\ Elems(timeout_queue') = Elems(timeout_queue) \cup {next_packet_id}
    BY <1>1, Added DEF Request
  <1> QED BY <1>1, <1>3, <1>4 DEF Request

LEMMA CommandSubscribeKeeps ==
    ASSUME Inv, CommandSubscribe
    PROVE  Inv'
  <1> DEFINE c == Head(cmd_queue).who
  <1>1. TypeOK /\ Take("Subscribe") /\ subs' = subs /\ subscribed' = subscribed
    BY DEF Inv, CommandSubscribe
  <1>2. /\ cmd_queue' \in Seq(Command) /\ Len(cmd_queue') <= QueueCap
        /\ Elems(cmd_queue') \subseteq Elems(cmd_queue)
        /\ Head(cmd_queue) \in Command /\ Head(cmd_queue).ty = "Subscribe"
        /\ call' = call /\ waker_index' = waker_index /\ ready' = ready /\ unsubs' = unsubs
        /\ task' = task /\ wakers' = wakers /\ to_client' = to_client
        /\ b_sub' = b_sub /\ answered' = answered
    BY <1>1, TakeKeeps
  <1>3. c \in Callers
    BY <1>2 DEF Command
  <1>4. GrantedFirst' /\ RemovedByOwner'
    BY <1>1, <1>2, CallersKeep
  <1>5. CASE /\ subscribed
             /\ listeners' = listeners \cup {c}
             /\ UNCHANGED <<keptvars, to_broker>>
    <2>1. /\ next_packet_id' = next_packet_id /\ pending_subs' = pending_subs
          /\ pending_packets' = pending_packets /\ timeout_queue' = timeout_queue
          /\ to_broker' = to_broker
      BY <1>5 DEF keptvars
    <2>2. listeners' \subseteq Callers
      BY <1>1, <1>3, <1>5 DEF TypeOK
    <2>3. TypeOK'
      BY <1>1, <1>2, <2>1, <2>2 DEF TypeOK
    <2>4. RequestsCovered' /\ UnsubscribedIsEmpty'
      BY <1>1, <1>5, <2>1 DEF Inv, RequestsCovered, UnsubscribedIsEmpty
    <2> QED BY <1>4, <2>3, <2>4 DEF Inv
  <1>6. CASE /\ ~subscribed
             /\ pending_subs' = pending_subs \cup {[id |-> next_packet_id, kind |-> c]}
             /\ Request("Subscribe")
             /\ UNCHANGED <<listeners, pending_packets>>
    <2>1. /\ next_packet_id \in Nat /\ next_packet_id' \in Nat /\ to_broker' \in Seq(Packet)
          /\ timeout_queue' \in Seq(Nat)
          /\ Elems(timeout_queue') = Elems(timeout_queue) \cup {next_packet_id}
      BY <1>1, <1>6, RequestKeeps
    <2>2. pending_subs' \subseteq [id : Nat, kind : Callers]
      <3>1. [id |-> next_packet_id, kind |-> c] \in [id : Nat, kind : Callers]
        BY <1>3, <2>1
      <3>2. pending_subs \subseteq [id : Nat, kind : Callers]
        BY Zenon, <1>1 DEF TypeOK
      <3> QED BY <1>6, <3>1, <3>2
    <2>3. TypeOK'
      BY Zenon, <1>1, <1>2, <1>6, <2>1, <2>2 DEF TypeOK
    <2>4. {s.id : s \in pending_subs'} \subseteq {s.id : s \in pending_subs} \cup {next_packet_id}
      BY <1>6
    <2>5. pending_packets' \cup {s.id : s \in pending_subs'} \subseteq Elems(timeout_queue')
      BY Zenon, <1>6, <2>1, <2>4, InElems DEF Inv
    <2>6. RequestsCovered'
      BY <2>5 DEF RequestsCovered, Elems
    <2>7. UnsubscribedIsEmpty'
      BY <1>1, <1>6 DEF Inv, UnsubscribedIsEmpty
    <2> QED BY <1>4, <2>3, <2>6, <2>7 DEF Inv
  <1> QED BY <1>5, <1>6 DEF CommandSubscribe

LEMMA CommandUnsubKeeps ==
    ASSUME Inv, CommandUnsub
    PROVE  Inv'
  <1>1. TypeOK /\ Take("Immediate")
    BY DEF Inv, CommandUnsub
  <1>2. /\ cmd_queue' \in Seq(Command) /\ Len(cmd_queue') <= QueueCap
        /\ Elems(cmd_queue') \subseteq Elems(cmd_queue)
        /\ call' = call /\ waker_index' = waker_index /\ ready' = ready /\ unsubs' = unsubs
        /\ task' = task /\ wakers' = wakers /\ to_client' = to_client
        /\ b_sub' = b_sub /\ answered' = answered
    BY <1>1, TakeKeeps
  <1>3. CASE /\ subscribed
             /\ subscribed' = FALSE /\ listeners' = {}
             /\ subs' = Absent
             /\ pending_packets' = pending_packets \cup {next_packet_id}
             /\ Request("Unsubscribe")
             /\ UNCHANGED pending_subs
    <2>1. /\ next_packet_id \in Nat /\ next_packet_id' \in Nat /\ to_broker' \in Seq(Packet)
          /\ timeout_queue' \in Seq(Nat)
          /\ Elems(timeout_queue') = Elems(timeout_queue) \cup {next_packet_id}
      BY <1>1, <1>3, RequestKeeps
    <2>2. Absent \in Entry /\ Absent.st # "Existing"
      BY EntryTypes
    <2>3. TypeOK'
      BY Zenon, <1>1, <1>2, <1>3, <2>1, <2>2 DEF TypeOK
    <2>4. pending_packets' \cup {s.id : s \in pending_subs'} \subseteq Elems(timeout_queue')
      BY <1>3, <2>1, InElems DEF Inv
    <2>5. RequestsCovered'
      BY <2>4 DEF RequestsCovered, Elems
    <2>6. UnsubscribedIsEmpty'
      BY <1>3 DEF UnsubscribedIsEmpty
    <2>7. GrantedFirst' /\ RemovedByOwner'
      BY <1>2, <1>3, <2>2, CallersKeep
    <2> QED BY <2>3, <2>5, <2>6, <2>7 DEF Inv
  <1>4. CASE ~subscribed /\ UNCHANGED <<subs, objectvars, keptvars, to_broker>>
    <2>1. /\ subs' = subs /\ subscribed' = subscribed /\ listeners' = listeners
          /\ next_packet_id' = next_packet_id /\ pending_subs' = pending_subs
          /\ pending_packets' = pending_packets /\ timeout_queue' = timeout_queue
          /\ to_broker' = to_broker
      BY <1>4 DEF objectvars, keptvars
    <2>2. TypeOK'
      BY <1>1, <1>2, <2>1 DEF TypeOK
    <2>3. RequestsCovered' /\ UnsubscribedIsEmpty'
      BY <2>1 DEF Inv, RequestsCovered, UnsubscribedIsEmpty
    <2>4. GrantedFirst' /\ RemovedByOwner'
      BY <1>2, <2>1, CallersKeep
    <2> QED BY <2>2, <2>3, <2>4 DEF Inv
  <1> QED BY Zenon, <1>3, <1>4 DEF CommandUnsub

LEMMA CommandRemoveCallbackKeeps ==
    ASSUME Inv, CommandRemoveCallback
    PROVE  Inv'
  <1>1. /\ TypeOK /\ Take("FastCallback")
        /\ subs' = subs /\ subscribed' = subscribed /\ listeners' \subseteq listeners
        /\ next_packet_id' = next_packet_id /\ pending_subs' = pending_subs
        /\ pending_packets' = pending_packets /\ timeout_queue' = timeout_queue
        /\ to_broker' = to_broker
    BY DEF Inv, CommandRemoveCallback, keptvars
  <1>2. /\ cmd_queue' \in Seq(Command) /\ Len(cmd_queue') <= QueueCap
        /\ Elems(cmd_queue') \subseteq Elems(cmd_queue)
        /\ call' = call /\ waker_index' = waker_index /\ ready' = ready /\ unsubs' = unsubs
        /\ task' = task /\ wakers' = wakers /\ to_client' = to_client
        /\ b_sub' = b_sub /\ answered' = answered
    BY <1>1, TakeKeeps
  <1>3. TypeOK'
    BY <1>1, <1>2 DEF TypeOK
  <1>4. RequestsCovered' /\ UnsubscribedIsEmpty'
    BY <1>1 DEF Inv, RequestsCovered, UnsubscribedIsEmpty
  <1>5. GrantedFirst' /\ RemovedByOwner'
    BY <1>1, <1>2, CallersKeep
  <1> QED BY <1>3, <1>4, <1>5 DEF Inv

\* An answer is taken from the connection.
LEMMA ReceiveKeeps ==
    ASSUME TypeOK, NEW ty, Receive(ty)
    PROVE  /\ to_client' \in Seq(Answer) /\ Head(to_client) \in Answer /\ Head(to_client).ty = ty
           /\ Elems(to_client) = {Head(to_client)} \cup Elems(to_client')
           /\ call' = call /\ waker_index' = waker_index /\ unsubs' = unsubs /\ cmd_queue' = cmd_queue
           /\ next_packet_id' = next_packet_id /\ timeout_queue' = timeout_queue
           /\ task' = task /\ wakers' = wakers /\ to_broker' = to_broker
           /\ b_sub' = b_sub /\ answered' = answered
  <1>1. to_client \in Seq(Answer) /\ to_client # <<>>
    BY DEF TypeOK, Receive
  <1>2. /\ Head(to_client) \in Answer /\ Tail(to_client) \in Seq(Answer)
        /\ Elems(to_client) = {Head(to_client)} \cup Elems(Tail(to_client))
    BY <1>1, Taken
  <1> QED BY <1>2 DEF Receive, ownervars, endvars, brokervars

\* The wakers of a list are callers.
LEMMA WakersAreCallers ==
    ASSUME TypeOK
    PROVE  Wakers(subs.wakers) \subseteq Callers
  <1>1. subs.wakers \in Seq(Callers \cup {None})
    BY DEF TypeOK, Entry
  <1>2. \A i \in DOMAIN subs.wakers : subs.wakers[i] \in Callers \cup {None}
    BY <1>1
  <1> QED BY <1>2 DEF Wakers

LEMMA ReceiveSubAckKeeps ==
    ASSUME Inv, ReceiveSubAck
    PROVE  Inv'
  <1> DEFINE ack == Head(to_client)
             mine == {s \in pending_subs : s.id = ack.id}
  <1>1. TypeOK /\ Receive("SubAck") /\ pending_packets' = pending_packets /\ pending_subs' \subseteq pending_subs
    BY DEF Inv, ReceiveSubAck
  <1>2. /\ to_client' \in Seq(Answer) /\ ack \in Answer /\ ack.ty = "SubAck"
        /\ Elems(to_client) = {ack} \cup Elems(to_client')
        /\ call' = call /\ waker_index' = waker_index /\ unsubs' = unsubs /\ cmd_queue' = cmd_queue
        /\ next_packet_id' = next_packet_id /\ timeout_queue' = timeout_queue
        /\ task' = task /\ wakers' = wakers /\ to_broker' = to_broker
        /\ b_sub' = b_sub /\ answered' = answered
    BY <1>1, ReceiveKeeps
  <1>3. {s.id : s \in pending_subs'} \subseteq {s.id : s \in pending_subs}
    BY <1>1
  <1>4. pending_packets' \cup {s.id : s \in pending_subs'} \subseteq Elems(timeout_queue')
    BY <1>1, <1>2, <1>3, InElems DEF Inv
  <1>5. RequestsCovered'
    BY <1>4 DEF RequestsCovered, Elems
  <1>6. Wakers(subs.wakers) \subseteq Callers
    BY <1>1, WakersAreCallers
  <1>7. /\ subs \in Entry /\ ready \subseteq Callers
        /\ listeners \subseteq Callers /\ subscribed \in BOOLEAN
    BY <1>1 DEF TypeOK
  <1>8. /\ subs' \in Entry /\ ready' \subseteq Callers
        /\ listeners' \subseteq Callers /\ subscribed' \in BOOLEAN /\ UnsubscribedIsEmpty'
        /\ subs'.st = "Existing" => subs.st = "Existing" \/ "granted" \in answered
    <2>1. CASE UNCHANGED <<subs, ready, objectvars>>
      BY <2>1, <1>7 DEF objectvars, Inv, UnsubscribedIsEmpty
    <2>2. CASE /\ ack.result = "granted"
               /\ subscribed' = TRUE
               /\ listeners' = listeners \cup {s.kind : s \in mine}
               /\ subs' = Existing
               /\ ready' = ready \cup Wakers(subs.wakers)
      <3>1. {s.kind : s \in mine} \subseteq Callers
        BY Zenon, <1>1 DEF TypeOK
      <3>2. "granted" \in answered
        BY <1>2, <2>2 DEF Inv, GrantedFirst
      <3>3. Existing \in Entry
        BY EntryTypes
      <3> QED BY <2>2, <1>6, <1>7, <3>1, <3>2, <3>3 DEF UnsubscribedIsEmpty
    <2>3. CASE subs' = Absent /\ ready' = ready \cup Wakers(subs.wakers) /\ UNCHANGED objectvars
      <3>1. Absent \in Entry /\ Absent.st # "Existing"
        BY EntryTypes
      <3> QED BY <2>3, <1>6, <1>7, <3>1 DEF objectvars, Inv, UnsubscribedIsEmpty
    <2> QED BY Zenon, <2>1, <2>2, <2>3 DEF ReceiveSubAck
  <1>9. TypeOK'
    BY Zenon, <1>1, <1>2, <1>8 DEF TypeOK
  <1>10. GrantedFirst' /\ RemovedByOwner'
    BY <1>2, <1>8, CallersKeep
  <1> QED BY <1>5, <1>8, <1>9, <1>10 DEF Inv

LEMMA ReceiveUnsubAckKeeps ==
    ASSUME Inv, ReceiveUnsubAck
    PROVE  Inv'
  <1>1. /\ TypeOK /\ Receive("UnsubAck") /\ pending_packets' \subseteq pending_packets
        /\ pending_subs' = pending_subs /\ subs' = subs /\ ready' = ready
        /\ subscribed' = subscribed /\ listeners' = listeners
    BY DEF Inv, ReceiveUnsubAck, objectvars
  <1>2. /\ to_client' \in Seq(Answer) /\ Elems(to_client') \subseteq Elems(to_client)
        /\ call' = call /\ waker_index' = waker_index /\ unsubs' = unsubs /\ cmd_queue' = cmd_queue
        /\ next_packet_id' = next_packet_id /\ timeout_queue' = timeout_queue
        /\ task' = task /\ wakers' = wakers /\ to_broker' = to_broker
        /\ b_sub' = b_sub /\ answered' = answered
    BY <1>1, ReceiveKeeps
  <1>3. TypeOK'
    BY <1>1, <1>2 DEF TypeOK
  <1>4. RequestsCovered' /\ UnsubscribedIsEmpty'
    BY Zenon, <1>1, <1>2 DEF Inv, RequestsCovered, UnsubscribedIsEmpty
  <1>5. GrantedFirst' /\ RemovedByOwner'
    BY <1>1, <1>2, CallersKeep
  <1> QED BY <1>3, <1>4, <1>5 DEF Inv

\* The timeout of a request that is not answered goes to the end of the queue.
LEMMA AlarmPopKeeps ==
    ASSUME Inv, AlarmPop
    PROVE  Inv'
  <1> DEFINE id == Head(timeout_queue)
             IsSub == \E s \in pending_subs : s.id = id
             Resend(ty) == /\ to_broker' = Append(to_broker, [ty |-> ty, id |-> id])
                           /\ timeout_queue' = Append(Tail(timeout_queue), id)
             asked == pending_packets \cup {s.id : s \in pending_subs}
  <1>1. /\ TypeOK /\ timeout_queue # <<>>
        /\ subs' = subs /\ call' = call /\ waker_index' = waker_index /\ ready' = ready
        /\ unsubs' = unsubs /\ cmd_queue' = cmd_queue /\ subscribed' = subscribed
        /\ listeners' = listeners /\ next_packet_id' = next_packet_id
        /\ pending_subs' = pending_subs /\ pending_packets' = pending_packets
        /\ task' = task /\ wakers' = wakers /\ to_client' = to_client
        /\ b_sub' = b_sub /\ answered' = answered
    BY DEF Inv, AlarmPop, clientvars, ownervars, objectvars, endvars, brokervars
  <1>2. timeout_queue \in Seq(Nat) /\ to_broker \in Seq(Packet)
    BY <1>1 DEF TypeOK
  <1>3. /\ id \in Nat /\ Tail(timeout_queue) \in Seq(Nat)
        /\ Elems(timeout_queue) = {id} \cup Elems(Tail(timeout_queue))
    BY <1>1, <1>2, Taken
  <1>4. asked \subseteq Elems(timeout_queue)
    BY Zenon, InElems DEF Inv
  <1>5. /\ timeout_queue' \in Seq(Nat) /\ to_broker' \in Seq(Packet)
        /\ asked \subseteq Elems(timeout_queue')
    <2>1. ASSUME NEW ty \in {"Subscribe", "Unsubscribe"}, Resend(ty)
          PROVE  /\ timeout_queue' \in Seq(Nat) /\ to_broker' \in Seq(Packet)
                 /\ asked \subseteq Elems(timeout_queue')
      <3>1. [ty |-> ty, id |-> id] \in Packet
        BY <1>3 DEF Packet
      <3>2. to_broker' \in Seq(Packet)
        BY <1>2, <2>1, <3>1, Added
      <3>3. \A q \in Seq(Nat), y \in Nat :
                Append(q, y) \in Seq(Nat) /\ Elems(Append(q, y)) = Elems(q) \cup {y}
        BY Added
      <3>4. timeout_queue' \in Seq(Nat) /\ Elems(timeout_queue') = Elems(Tail(timeout_queue)) \cup {id}
        BY Zenon, <1>3, <2>1, <3>3
      <3> QED BY <1>3, <1>4, <3>2, <3>4
    <2>2. CASE /\ ~IsSub /\ id \notin pending_packets
               /\ timeout_queue' = Tail(timeout_queue)
               /\ UNCHANGED to_broker
      <3>1. id \notin asked
        BY Zenon, <2>2
      <3> QED BY <1>2, <1>3, <1>4, <2>2, <3>1
    <2> QED BY <2>1, <2>2 DEF AlarmPop
  <1>6. TypeOK'
    BY <1>1, <1>5 DEF TypeOK
  <1>7. RequestsCovered'
    BY Zenon, <1>1, <1>5 DEF RequestsCovered, Elems
  <1>8. UnsubscribedIsEmpty'
    BY <1>1 DEF Inv, UnsubscribedIsEmpty
  <1>9. GrantedFirst' /\ RemovedByOwner'
    BY <1>1, CallersKeep
  <1> QED BY <1>6, <1>7, <1>8, <1>9 DEF Inv

\* The end of the task only takes from the map and the command queue.
LEMMA EndingKeeps ==
    ASSUME Inv, Ending, task' \in Tasks, wakers' \subseteq Callers, ready' \subseteq Callers,
           subs' = subs \/ subs' = Absent, cmd_queue' = cmd_queue \/ cmd_queue' = <<>>
    PROVE  Inv'
  <1>1. /\ TypeOK /\ call' = call /\ waker_index' = waker_index /\ unsubs' = unsubs
        /\ subscribed' = subscribed /\ listeners' = listeners /\ next_packet_id' = next_packet_id
        /\ pending_subs' = pending_subs /\ pending_packets' = pending_packets
        /\ timeout_queue' = timeout_queue /\ to_broker' = to_broker /\ to_client' = to_client
        /\ b_sub' = b_sub /\ answered' = answered
    BY DEF Inv, Ending, objectvars, keptvars, brokervars
  <1>2. /\ subs' \in Entry
        /\ subs'.st = "Existing" => subs.st = "Existing"
    <2>1. Absent \in Entry /\ Absent.st # "Existing"
      BY EntryTypes
    <2> QED BY <1>1, <2>1 DEF TypeOK
  <1>3. cmd_queue' \in Seq(Command) /\ Len(cmd_queue') <= QueueCap
    <2>1. <<>> \in Seq(Command) /\ Len(<<>>) <= QueueCap
      BY SubscribeAssumption
    <2> QED BY Zenon, <1>1, <2>1 DEF TypeOK
  <1>4. Elems(cmd_queue') \subseteq Elems(cmd_queue)
    BY DEF Elems
  <1>5. TypeOK'
    BY Zenon, <1>1, <1>2, <1>3 DEF TypeOK
  <1>6. RequestsCovered' /\ UnsubscribedIsEmpty'
    BY <1>1 DEF Inv, RequestsCovered, UnsubscribedIsEmpty
  <1>7. GrantedFirst' /\ RemovedByOwner'
    BY <1>1, <1>2, <1>4, CallersKeep
  <1> QED BY <1>5, <1>6, <1>7 DEF Inv

LEMMA TaskEndsKeeps ==
    ASSUME Inv, \/ \E how \in {"closed", "stop"} : LoopEnds(how)
                \/ DrainSubs \/ (\E c \in Callers : WakeOne(c)) \/ WakeEnds \/ TransceiverDropped
    PROVE  Inv'
  <1>1. ready \subseteq Callers /\ wakers \subseteq Callers /\ Wakers(subs.wakers) \subseteq Callers
    BY WakersAreCallers DEF Inv, TypeOK
  <1>2. ASSUME NEW how, LoopEnds(how) PROVE Inv'
    BY <1>1, <1>2, EndingKeeps DEF LoopEnds, Tasks
  <1>3. CASE DrainSubs
    BY <1>1, <1>3, EndingKeeps DEF DrainSubs, Tasks
  <1>4. ASSUME NEW c \in Callers, WakeOne(c) PROVE Inv'
    <2>1. task' \in Tasks
      BY <1>4 DEF WakeOne, Tasks
    <2>2. ready' \subseteq Callers /\ wakers' \subseteq Callers
      BY <1>1, <1>4 DEF WakeOne
    <2> QED BY <1>4, <2>1, <2>2, EndingKeeps DEF WakeOne
  <1>5. CASE WakeEnds
    BY <1>1, <1>5, EndingKeeps DEF WakeEnds, Tasks
  <1>6. CASE TransceiverDropped
    BY <1>1, <1>6, EndingKeeps DEF TransceiverDropped, Tasks
  <1> QED BY <1>2, <1>3, <1>4, <1>5, <1>6

-----------------------------------------------------------------------------
(* The broker.                                                             *)

LEMMA BrokerKeeps ==
    ASSUME Inv, BrokerStep
    PROVE  Inv'
  <1>1. PICK ty \in {"Subscribe", "Unsubscribe"} : Read(ty)
    BY DEF BrokerStep, BrokerSubscribe, BrokerUnsubscribe, BrokerIgnores
  <1>2. /\ TypeOK /\ to_broker # <<>> /\ to_broker' = Tail(to_broker)
        /\ subs' = subs /\ call' = call /\ waker_index' = waker_index /\ ready' = ready
        /\ unsubs' = unsubs /\ cmd_queue' = cmd_queue /\ subscribed' = subscribed
        /\ listeners' = listeners /\ next_packet_id' = next_packet_id
        /\ pending_subs' = pending_subs /\ pending_packets' = pending_packets
        /\ timeout_queue' = timeout_queue /\ task' = task /\ wakers' = wakers
    BY <1>1 DEF Inv, Read, clientvars, ownervars, objectvars, keptvars, endvars
  <1>3. to_broker' \in Seq(Packet) /\ Head(to_broker) \in Packet /\ to_client \in Seq(Answer)
    BY <1>2, Taken DEF TypeOK
  <1>4. Head(to_broker).id \in Nat
    BY Zenon, <1>3 DEF Packet
  <1>5. RequestsCovered' /\ UnsubscribedIsEmpty' /\ RemovedByOwner'
    BY <1>2 DEF Inv, RequestsCovered, UnsubscribedIsEmpty, RemovedByOwner
  <1>6. CASE \E result \in {"granted", "refused", "empty"} : BrokerSubscribe(result)
    <2>1. PICK result \in Answers : BrokerSubscribe(result)
      BY <1>6 DEF BrokerSubscribe
    <2>2. PICK m \in Answer : m = [ty |-> "SubAck", id |-> Head(to_broker).id, result |-> result]
      BY Zenon, <1>4 DEF Answer
    <2>3. to_client' = Append(to_client, m) /\ answered' = answered \cup {result}
      BY <2>1, <2>2 DEF BrokerSubscribe
    <2>4. to_client' \in Seq(Answer) /\ Elems(to_client') = Elems(to_client) \cup {m}
      BY <1>3, <2>3, Added
    <2>5. answered' \subseteq Answers /\ b_sub' \in BOOLEAN
      BY Zenon, <1>2, <2>1 DEF TypeOK, BrokerSubscribe
    <2>6. TypeOK'
      BY <1>2, <1>3, <2>4, <2>5 DEF TypeOK
    <2>7. GrantedFirst'
      <3> SUFFICES ASSUME "granted" \notin answered'
                   PROVE  /\ subs.st # "Existing"
                          /\ \A d \in Callers : call[d] \notin {"send", "ok"}
                          /\ \A n \in Elems(to_client') : n.ty = "SubAck" => n.result # "granted"
        BY <1>2 DEF GrantedFirst
      <3>1. "granted" \notin answered /\ result # "granted"
        BY <2>3
      <3>2. m.result # "granted"
        BY <2>2, <3>1
      <3> QED BY <2>4, <3>1, <3>2 DEF Inv, GrantedFirst
    <2> QED BY <1>5, <2>6, <2>7 DEF Inv
  <1>7. CASE BrokerUnsubscribe
    <2>1. PICK m \in Answer : m = [ty |-> "UnsubAck", id |-> Head(to_broker).id]
      BY Zenon, <1>4 DEF Answer
    <2>2. to_client' = Append(to_client, m) /\ answered' = answered /\ b_sub' = FALSE
      BY <1>7, <2>1 DEF BrokerUnsubscribe
    <2>3. to_client' \in Seq(Answer) /\ Elems(to_client') = Elems(to_client) \cup {m}
      BY <1>3, <2>2, Added
    <2>4. TypeOK'
      BY Zenon, <1>2, <1>3, <2>2, <2>3 DEF TypeOK
    <2>5. m.ty # "SubAck"
      BY <2>1
    <2>6. GrantedFirst'
      BY <1>2, <2>2, <2>3, <2>5 DEF Inv, GrantedFirst
    <2> QED BY <1>5, <2>4, <2>6 DEF Inv
  <1>8. CASE BrokerIgnores
    <2>1. to_client' = to_client /\ answered' = answered /\ b_sub' = b_sub
      BY <1>8 DEF BrokerIgnores, brokervars
    <2>2. TypeOK'
      BY <1>2, <1>3, <2>1 DEF TypeOK
    <2>3. GrantedFirst'
      BY <1>2, <2>1 DEF Inv, GrantedFirst
    <2> QED BY <1>5, <2>2, <2>3 DEF Inv
  <1> QED BY <1>6, <1>7, <1>8 DEF BrokerStep

-----------------------------------------------------------------------------
(* The theorems.                                                           *)

\* Inv is an inductive invariant.
LEMMA NextInv == Inv /\ [Next]_vars => Inv'
  <1> SUFFICES ASSUME Inv, [Next]_vars PROVE Inv'
    OBVIOUS
  <1>1. ASSUME NEW c \in Callers, CallerStep(c) PROVE Inv'
    BY <1>1, LookKeeps, SendKeeps, PollKeeps, CancelKeeps, RemoveCallbackKeeps DEF CallerStep
  <1>2. CASE Unsubscribe
    BY <1>2, UnsubscribeKeeps
  <1>3. CASE TaskStep
    BY <1>3, CommandSubscribeKeeps, CommandUnsubKeeps, CommandRemoveCallbackKeeps,
       ReceiveSubAckKeeps, ReceiveUnsubAckKeeps, AlarmPopKeeps, TaskEndsKeeps DEF TaskStep
  <1>4. CASE BrokerStep
    BY <1>4, BrokerKeeps
  <1>5. CASE UNCHANGED vars
    <2>1. /\ subs' = subs /\ call' = call /\ waker_index' = waker_index /\ ready' = ready
          /\ unsubs' = unsubs /\ cmd_queue' = cmd_queue /\ subscribed' = subscribed
          /\ listeners' = listeners /\ next_packet_id' = next_packet_id
          /\ pending_subs' = pending_subs /\ pending_packets' = pending_packets
          /\ timeout_queue' = timeout_queue /\ task' = task /\ wakers' = wakers
          /\ to_broker' = to_broker /\ to_client' = to_client /\ b_sub' = b_sub /\ answered' = answered
      BY Zenon, <1>5 DEF vars, clientvars, ownervars, objectvars, keptvars, endvars, brokervars
    <2>2. TypeOK'
      BY Zenon, <2>1 DEF Inv, TypeOK
    <2>3. RequestsCovered' /\ UnsubscribedIsEmpty'
      BY <2>1 DEF Inv, RequestsCovered, UnsubscribedIsEmpty
    <2>4. GrantedFirst' /\ RemovedByOwner'
      BY <2>1, CallersKeep
    <2> QED BY <2>2, <2>3, <2>4 DEF Inv
  <1> QED BY <1>1, <1>2, <1>3, <1>4, <1>5 DEF Next

\* The invariant holds in every state.
THEOREM InvHolds == Spec => []Inv
  BY InitInv, NextInv, PTL DEF Spec

\* The command queue never holds more than its capacity, and every variable
\* has its type.
THEOREM TypeCorrect == Spec => []TypeOK
  <1>1. Inv => TypeOK
    BY DEF Inv
  <1> QED BY <1>1, InvHolds, PTL

\* A SUBSCRIBE or UNSUBSCRIBE that is not answered always has its timeout in
\* timeout_queue, whatever the callers and the broker do.
THEOREM RequestsCoveredHolds == Spec => []RequestsCovered
  <1>1. Inv => RequestsCovered
    BY DEF Inv
  <1> QED BY <1>1, InvHolds, PTL

\* A Subscription object that is not subscribed is empty.
THEOREM UnsubscribedIsEmptyHolds == Spec => []UnsubscribedIsEmpty
  <1>1. Inv => UnsubscribedIsEmpty
    BY DEF Inv
  <1> QED BY <1>1, InvHolds, PTL

\* Client::subscribe returns Ok only if the broker has granted the topic.
THEOREM OkMeansGrantedHolds == Spec => []OkMeansGranted
  <1>1. Inv => OkMeansGranted
    BY DEF Inv, GrantedFirst, OkMeansGranted
  <1> QED BY <1>1, InvHolds, PTL

-----------------------------------------------------------------------------
(* KindKept.                                                               *)

Kept(c) == Queued(c) \/ Requested(c) \/ c \in listeners

\* The reasons for which the queue or callback of a caller may go.
Excused(c) ==
    \/ subs'.st = "Absent" \/ task' = "dropped" \/ call[c] = "removed"
    \/ to_client # <<>> /\ Head(to_client).ty = "SubAck" /\ Head(to_client).result = "empty"

\* A step that takes nothing away keeps it.
LEMMA NothingTaken ==
    ASSUME NEW c \in Callers, Kept(c), Elems(cmd_queue) \subseteq Elems(cmd_queue'),
           pending_subs \subseteq pending_subs', listeners \subseteq listeners'
    PROVE  Kept(c)'
  <1>1. CASE Queued(c)
    <2>1. [ty |-> "Subscribe", who |-> c] \in Elems(cmd_queue')
      BY <1>1, InElems
    <2> QED BY Zenon, <2>1 DEF Kept, Queued, Elems
  <1>2. CASE Requested(c)
    BY <1>2 DEF Kept, Requested
  <1>3. CASE c \in listeners
    BY Zenon, <1>3 DEF Kept
  <1> QED BY Zenon, <1>1, <1>2, <1>3 DEF Kept

\* A command that is taken from the queue leaves the other ones there.
LEMMA OthersQueued ==
    ASSUME Inv, NEW ty, Take(ty), NEW c \in Callers, Queued(c),
           Head(cmd_queue) # [ty |-> "Subscribe", who |-> c]
    PROVE  Kept(c)'
  <1>1. Elems(cmd_queue) = {Head(cmd_queue)} \cup Elems(cmd_queue')
    BY Zenon, TakeKeeps DEF Inv
  <1>2. [ty |-> "Subscribe", who |-> c] \in Elems(cmd_queue')
    BY <1>1, InElems
  <1> QED BY Zenon, <1>2 DEF Kept, Queued, Elems

LEMMA CommandSubscribeKept ==
    ASSUME Inv, CommandSubscribe, NEW c \in Callers, Kept(c)
    PROVE  Kept(c)'
  <1>1. Take("Subscribe")
    BY DEF CommandSubscribe
  <1>2. CASE Queued(c) /\ Head(cmd_queue) # [ty |-> "Subscribe", who |-> c]
    BY Zenon, <1>1, <1>2, OthersQueued
  <1>3. CASE Head(cmd_queue) = [ty |-> "Subscribe", who |-> c]
    <2>1. Head(cmd_queue).who = c
      BY <1>3
    <2>2. CASE listeners' = listeners \cup {Head(cmd_queue).who}
      BY <2>1, <2>2 DEF Kept
    <2>3. CASE pending_subs' = pending_subs \cup {[id |-> next_packet_id, kind |-> Head(cmd_queue).who]}
      <3>1. [id |-> next_packet_id, kind |-> c] \in pending_subs'
        BY <2>1, <2>3
      <3>2. [id |-> next_packet_id, kind |-> c].kind = c
        OBVIOUS
      <3> QED BY Zenon, <3>1, <3>2 DEF Kept, Requested
    <2> QED BY <2>2, <2>3 DEF CommandSubscribe
  <1>4. CASE Requested(c) \/ c \in listeners
    <2>1. pending_subs \subseteq pending_subs' /\ listeners \subseteq listeners'
      BY DEF CommandSubscribe, keptvars
    <2> QED BY Zenon, <1>4, <2>1 DEF Kept, Requested
  <1> QED BY <1>2, <1>3, <1>4 DEF Kept

LEMMA CommandUnsubKept ==
    ASSUME Inv, CommandUnsub, NEW c \in Callers, Kept(c)
    PROVE  Kept(c)' \/ Excused(c)
  <1>1. CASE subscribed
    <2>1. subs' = Absent
      BY <1>1 DEF CommandUnsub
    <2> QED BY <2>1 DEF Excused, Absent
  <1>2. CASE ~subscribed
    <2>1. Take("Immediate") /\ pending_subs' = pending_subs /\ listeners' = listeners
      BY <1>2 DEF CommandUnsub, objectvars, keptvars
    <2>2. CASE Queued(c)
      <3>1. Head(cmd_queue).ty = "Immediate"
        BY <2>1 DEF Take
      <3>2. Head(cmd_queue) # [ty |-> "Subscribe", who |-> c]
        BY <3>1
      <3> QED BY <2>1, <2>2, <3>2, OthersQueued
    <2>3. CASE Requested(c) \/ c \in listeners
      BY <2>1, <2>3 DEF Kept, Requested
    <2> QED BY <2>2, <2>3 DEF Kept
  <1> QED BY <1>1, <1>2

LEMMA CommandRemoveCallbackKept ==
    ASSUME Inv, CommandRemoveCallback, NEW c \in Callers, Kept(c)
    PROVE  Kept(c)' \/ Excused(c)
  <1>1. /\ Take("FastCallback") /\ pending_subs' = pending_subs
        /\ listeners' = listeners \ {Head(cmd_queue).who}
    BY DEF CommandRemoveCallback, keptvars
  <1>2. CASE Queued(c)
    <2>1. Head(cmd_queue).ty = "FastCallback"
      BY <1>1 DEF Take
    <2>2. Head(cmd_queue) # [ty |-> "Subscribe", who |-> c]
      BY <2>1
    <2> QED BY <1>1, <1>2, <2>2, OthersQueued
  <1>3. CASE Requested(c)
    BY Zenon, <1>1, <1>3 DEF Kept, Requested
  <1>4. CASE c \in listeners
    <2>1. CASE Head(cmd_queue).who = c
      <3>1. /\ Head(cmd_queue) \in Command /\ Head(cmd_queue).ty = "FastCallback"
            /\ Head(cmd_queue) \in Elems(cmd_queue)
        BY Zenon, <1>1, TakeKeeps DEF Inv
      <3>2. Head(cmd_queue) = [ty |-> "FastCallback", who |-> c]
        BY <2>1, <3>1 DEF Command
      <3>3. call[c] = "removed"
        BY Zenon, <3>1, <3>2 DEF Inv, RemovedByOwner
      <3> QED BY <3>3 DEF Excused
    <2>2. CASE Head(cmd_queue).who # c
      BY Zenon, <1>1, <1>4, <2>2 DEF Kept
    <2> QED BY <2>1, <2>2
  <1> QED BY Zenon, <1>2, <1>3, <1>4 DEF Kept

LEMMA ReceiveSubAckKept ==
    ASSUME Inv, ReceiveSubAck, NEW c \in Callers, Kept(c)
    PROVE  Kept(c)' \/ Excused(c)
  <1> DEFINE ack == Head(to_client)
             mine == {s \in pending_subs : s.id = ack.id}
  <1>1. /\ Receive("SubAck") /\ pending_subs' = pending_subs \ mine
        /\ cmd_queue' = cmd_queue
    BY DEF ReceiveSubAck, Receive, ownervars
  <1>2. CASE mine = {} /\ UNCHANGED objectvars
    <2>1. pending_subs \subseteq pending_subs' /\ listeners' = listeners
      BY Zenon, <1>1, <1>2 DEF objectvars
    <2> QED BY <1>1, <2>1, NothingTaken
  <1>3. CASE ack.result = "empty"
    BY <1>1, <1>3 DEF Receive, Excused
  <1>4. CASE listeners' = listeners \cup {s.kind : s \in mine}
    <2>1. CASE Queued(c)
      BY <1>1, <2>1 DEF Kept, Queued
    <2>2. CASE Requested(c)
      <3>1. PICK s \in pending_subs : s.kind = c
        BY Zenon, <2>2 DEF Requested
      <3>2. CASE s \in mine
        BY Zenon, <1>4, <3>1, <3>2 DEF Kept
      <3>3. CASE s \notin mine
        BY Zenon, <1>1, <3>1, <3>3 DEF Kept, Requested
      <3> QED BY <3>2, <3>3
    <2>3. CASE c \in listeners
      BY <1>4, <2>3 DEF Kept
    <2> QED BY Zenon, <2>1, <2>2, <2>3 DEF Kept
  <1>5. CASE subs' = Absent
    BY <1>5 DEF Excused, Absent
  <1> QED BY Zenon, <1>2, <1>3, <1>4, <1>5 DEF ReceiveSubAck

LEMMA KindStep ==
    ASSUME Inv, [Next]_vars, NEW c \in Callers, Kept(c)
    PROVE  Kept(c)' \/ Excused(c)
  <1> USE DEF clientvars, ownervars, objectvars, keptvars, endvars, brokervars
  <1>1. ASSUME NEW d \in Callers, CallerStep(d) PROVE Kept(c)'
    <2>1. pending_subs' = pending_subs /\ listeners' = listeners
      BY Zenon, <1>1 DEF CallerStep, Look, Send, SendFails, Poll, Cancel, RemoveCallback
    <2>2. Elems(cmd_queue) \subseteq Elems(cmd_queue')
      <3>1. CASE cmd_queue' = cmd_queue
        BY <3>1
      <3>2. CASE \E ty \in {"Subscribe", "FastCallback"} : Enqueue(ty, d)
        <4>1. PICK ty \in {"Subscribe", "FastCallback"} : Enqueue(ty, d)
          BY Zenon, <3>2
        <4>2. [ty |-> ty, who |-> d] \in Command
          BY DEF Command
        <4> QED BY <4>1, <4>2, EnqueueKeeps DEF Inv
      <3> QED BY <1>1, <3>1, <3>2 DEF CallerStep, Look, Send, SendFails, Poll, Cancel, RemoveCallback
    <2> QED BY Zenon, <2>1, <2>2, NothingTaken
  <1>2. CASE Unsubscribe
    <2>1. pending_subs' = pending_subs /\ listeners' = listeners /\ Enqueue("Immediate", None)
      BY Zenon, <1>2 DEF Unsubscribe
    <2>2. [ty |-> "Immediate", who |-> None] \in Command
      BY Zenon DEF Command
    <2>3. Elems(cmd_queue) \subseteq Elems(cmd_queue')
      BY <2>1, <2>2, EnqueueKeeps DEF Inv
    <2> QED BY <2>1, <2>3, NothingTaken
  <1>3. CASE TransceiverDropped
    BY <1>3 DEF TransceiverDropped, Excused
  <1>4. CASE \/ ReceiveUnsubAck \/ AlarmPop \/ (\E how \in {"closed", "stop"} : LoopEnds(how))
             \/ DrainSubs \/ (\E d \in Callers : WakeOne(d)) \/ WakeEnds
    <2>1. cmd_queue' = cmd_queue /\ pending_subs' = pending_subs /\ listeners' = listeners
      BY <1>4 DEF ReceiveUnsubAck, Receive, AlarmPop, LoopEnds, DrainSubs, WakeOne, WakeEnds, Ending
    <2> QED BY Zenon, <2>1, NothingTaken
  <1>5. CASE BrokerStep
    <2>1. cmd_queue' = cmd_queue /\ pending_subs' = pending_subs /\ listeners' = listeners
      BY <1>5 DEF BrokerStep, BrokerSubscribe, BrokerUnsubscribe, BrokerIgnores, Read
    <2> QED BY Zenon, <2>1, NothingTaken
  <1>6. CASE UNCHANGED vars
    <2>1. cmd_queue' = cmd_queue /\ pending_subs' = pending_subs /\ listeners' = listeners
      BY <1>6 DEF vars
    <2> QED BY <2>1, NothingTaken
  <1>7. CASE TaskStep
    BY <1>3, <1>4, <1>7, CommandSubscribeKept, CommandUnsubKept, CommandRemoveCallbackKept,
       ReceiveSubAckKept DEF TaskStep
  <1> QED BY <1>1, <1>2, <1>5, <1>6, <1>7 DEF Next

\* No interleaving of commands, SUBACKs and unsubscriptions loses the queue or
\* callback of a caller without one of the reasons named in KindKept.
THEOREM KindKeptHolds == Spec => KindKept
  <1>1. Inv /\ [Next]_vars =>
          [\A c \in Callers :
              /\ Queued(c) \/ Requested(c) \/ c \in listeners
              /\ ~(Queued(c) \/ Requested(c) \/ c \in listeners)'
              => \/ subs'.st = "Absent" \/ task' = "dropped" \/ call[c] = "removed"
                 \/ to_client # <<>> /\ Head(to_client).ty = "SubAck"
                                     /\ Head(to_client).result = "empty"]_vars
    BY Zenon, KindStep DEF Kept, Excused
  <1> QED BY <1>1, InvHolds, PTL DEF Spec, KindKept


-----------------------------------------------------------------------------
(* What holds until something disturbs the callers: an unsubscription, a   *)
(* refusal, a SUBACK without result, a cancelled call or the end of the    *)
(* task.  Each of the properties that follow fails after one of these.     *)

\* What PendingMeansEstablishing needs.
Steady ==
    /\ unsubs = 0 \/ "refused" \notin answered
    /\ "empty" \notin answered
    /\ \A c \in Callers : call[c] # "cancelled"

\* The history records the results under way, a command to unsubscribe is
\* counted, and only a stop sends the task to drain the map.
Recorded ==
    /\ \A m \in Elems(to_client) : m.ty = "SubAck" => m.result \in answered
    /\ unsubs = 0 => \A m \in Elems(cmd_queue) : m.ty # "Immediate"
    /\ "stop" \notin Ends => task \in {"running", "returned", "dropped"}

NoneAsks == \A c \in Callers : call[c] # "ask"
NoneQueued == \A i \in DOMAIN cmd_queue : cmd_queue[i].ty # "Subscribe"
OneAsks == \A c, d \in Callers : call[c] = "ask" /\ call[d] = "ask" => c = d
OneQueued ==
    \A i, j \in DOMAIN cmd_queue : cmd_queue[i].ty = "Subscribe" /\ cmd_queue[j].ty = "Subscribe" => i = j
OneRequested == \A s, t \in pending_subs : s = t

\* Until the subscription is established there is at most one caller about to
\* ask for it, command to ask for it or SUBSCRIBE that is kept, and none when
\* the map has no entry.
Asking ==
    /\ subs.st # "Existing"
    /\ \A c \in Callers : call[c] # "send"
    /\ OneAsks /\ OneQueued /\ OneRequested
    /\ NoneAsks \/ (NoneQueued /\ pending_subs = {})
    /\ NoneQueued \/ pending_subs = {}
    /\ subs.st = "Absent" => NoneAsks /\ NoneQueued /\ pending_subs = {}

Asked == subs.st = "Existing" /\ pending_subs = {}

OneRequest == task = "running" /\ unsubs = 0 => IF subscribed THEN Asked ELSE Asking

\* The map and the Subscription object agree.
Agree == task = "running" /\ "refused" \notin answered => (subscribed <=> subs.st = "Existing")

Established == Steady => PendingMeansEstablishing

\* The entry of a topic that was asked for stays in the map.
EntryStays ==
    Undisturbed /\ "refused" \notin answered =>
        \A c \in Callers :
            /\ call[c] # "refused"
            /\ call[c] \in Waiting \cup {"ask"} => subs.st # "Absent"

\* Nobody has another caller's place in the list of wakers, and a future that
\* sleeps is where its index says.
Listed ==
    Undisturbed /\ "refused" \notin answered =>
        \A c \in Callers :
            /\ call[c] # "panicked"
            /\ waker_index[c] # 0 =>
                /\ subs.st # "Absent"
                /\ subs.st = "Pending" => InList(c)
                /\ \A d \in Callers : waker_index[d] = waker_index[c] => d = c
            /\ call[c] \in Waiting /\ c \notin ready =>
                subs.st = "Pending" /\ InList(c) /\ subs.wakers[waker_index[c]] = c

-----------------------------------------------------------------------------
(* The kinds of steps.                                                     *)

\* A step that only adds to the answers of the broker.
Aside ==
    /\ subs' = subs /\ call' = call /\ waker_index' = waker_index /\ ready' = ready
    /\ cmd_queue' = cmd_queue /\ subscribed' = subscribed /\ pending_subs' = pending_subs
    /\ unsubs' = unsubs /\ task' = task /\ answered \subseteq answered'

\* A step of the task's end.
Leaves ==
    /\ task' # "running" /\ call' = call /\ waker_index' = waker_index
    /\ unsubs' = unsubs /\ answered' = answered
    /\ "stop" \notin Ends => subs' = subs /\ ready' = ready

\* The answer to a SUBSCRIBE that is kept.
Acknowledged(mine, result) ==
    /\ mine # {} /\ mine = {s \in pending_subs : \E t \in mine : s.id = t.id}
    /\ pending_subs' = pending_subs \ mine
    /\ result \in answered
    /\ task = "running"
    /\ call' = call /\ waker_index' = waker_index /\ cmd_queue' = cmd_queue
    /\ unsubs' = unsubs /\ task' = task /\ answered' = answered
    /\ \/ result = "empty" /\ subs' = subs /\ ready' = ready /\ subscribed' = subscribed
       \/ /\ result = "granted" /\ subs' = Existing /\ subscribed' = TRUE
          /\ ready' = ready \cup Wakers(subs.wakers)
       \/ /\ result = "refused" /\ subs' = Absent /\ subscribed' = subscribed
          /\ ready' = ready \cup Wakers(subs.wakers)

\* Every step is of one of these kinds or one of the actions named.
LEMMA StepKinds ==
    ASSUME Inv, Recorded, [Next]_vars
    PROVE  \/ Aside
           \/ Leaves
           \/ \E mine, result : Acknowledged(mine, result)
           \/ \E c \in Callers : Look(c) \/ Send(c) \/ SendFails(c) \/ Poll(c) \/ Cancel(c) \/ RemoveCallback(c)
           \/ Unsubscribe \/ CommandSubscribe \/ CommandUnsub \/ CommandRemoveCallback
  <1>1. CASE UNCHANGED vars \/ AlarmPop \/ BrokerStep \/ ReceiveUnsubAck
    <2>1. Aside
      BY Zenon, <1>1 DEF Aside, vars, clientvars, ownervars, objectvars, keptvars, endvars, brokervars,
         AlarmPop, BrokerStep, BrokerSubscribe, BrokerUnsubscribe, BrokerIgnores, Read,
         ReceiveUnsubAck, Receive
    <2> QED BY <2>1
  <1>2. CASE \/ \E how \in {"closed", "stop"} : LoopEnds(how)
             \/ DrainSubs \/ (\E c \in Callers : WakeOne(c)) \/ WakeEnds \/ TransceiverDropped
    <2>1. "stop" \notin Ends => task \in {"running", "returned", "dropped"}
      BY Zenon DEF Recorded
    <2>2. Leaves
      BY <1>2, <2>1 DEF Leaves, LoopEnds, DrainSubs, WakeOne, WakeEnds, TransceiverDropped, Ending,
         brokervars
    <2> QED BY <2>2
  <1>3. CASE ReceiveSubAck
    <2> DEFINE ack == Head(to_client)
               mine == {s \in pending_subs : s.id = ack.id}
    <2>1. /\ Receive("SubAck") /\ pending_subs' = pending_subs \ mine
          /\ \/ (mine = {} \/ ack.result = "empty") /\ UNCHANGED <<subs, ready, objectvars>>
             \/ /\ mine # {} /\ ack.result = "granted" /\ subscribed' = TRUE
                /\ subs' = Existing /\ ready' = ready \cup Wakers(subs.wakers)
             \/ /\ mine # {} /\ ack.result = "refused" /\ subs' = Absent
                /\ ready' = ready \cup Wakers(subs.wakers) /\ UNCHANGED objectvars
      BY Zenon, <1>3 DEF ReceiveSubAck
    <2>2. /\ task = "running" /\ to_client # <<>> /\ ack.ty = "SubAck"
          /\ call' = call /\ waker_index' = waker_index /\ cmd_queue' = cmd_queue
          /\ unsubs' = unsubs /\ task' = task /\ answered' = answered
      BY Zenon, <2>1 DEF Receive, ownervars, endvars, brokervars
    <2>3. ack \in Elems(to_client)
      <3>1. to_client \in Seq(Answer)
        BY DEF Inv, TypeOK
      <3>2. Elems(to_client) = {Head(to_client)} \cup Elems(Tail(to_client))
        BY Zenon, <2>2, <3>1, Taken
      <3> QED BY <3>2
    <2>4. ack.result \in answered
      BY Zenon, <2>2, <2>3 DEF Recorded
    <2>5. CASE mine = {}
      <3>1. pending_subs' = pending_subs /\ subs' = subs /\ ready' = ready /\ subscribed' = subscribed
        BY <2>1, <2>5 DEF objectvars
      <3> QED BY Zenon, <2>2, <3>1 DEF Aside
    <2>6. CASE mine # {}
      <3>1. mine = {s \in pending_subs : \E t \in mine : s.id = t.id}
        BY Zenon, <2>6
      <3>2. \/ ack.result = "empty" /\ subs' = subs /\ ready' = ready /\ subscribed' = subscribed
            \/ /\ ack.result = "granted" /\ subs' = Existing /\ subscribed' = TRUE
               /\ ready' = ready \cup Wakers(subs.wakers)
            \/ /\ ack.result = "refused" /\ subs' = Absent /\ subscribed' = subscribed
               /\ ready' = ready \cup Wakers(subs.wakers)
        BY <2>1, <2>6 DEF objectvars
      <3>3. Acknowledged(mine, ack.result)
        BY Zenon, <2>1, <2>2, <2>4, <2>6, <3>1, <3>2 DEF Acknowledged
      <3> QED BY Zenon, <3>3
    <2> QED BY Zenon, <2>5, <2>6
  <1> QED BY <1>1, <1>2, <1>3 DEF Next, CallerStep, TaskStep

\* What the callers' steps leave alone.
LEMMA CallerFrame ==
    ASSUME NEW c \in Callers,
           Look(c) \/ Send(c) \/ SendFails(c) \/ Poll(c) \/ Cancel(c) \/ RemoveCallback(c)
    PROVE  /\ subscribed' = subscribed /\ pending_subs' = pending_subs /\ to_client' = to_client
           /\ unsubs' = unsubs /\ task' = task /\ answered' = answered
  BY Zenon DEF Look, Send, SendFails, Poll, Cancel, RemoveCallback, ownervars, objectvars, keptvars,
     endvars, brokervars

\* A caller that has gone somewhere.
LEMMA Gone ==
    ASSUME Inv, NEW c \in Callers, NEW p, Goto(c, p)
    PROVE  call'[c] = p /\ \A d \in Callers \ {c} : call'[d] = call[d]
  BY Zenon DEF Inv, TypeOK, Goto

\* A caller step moves one caller, and not one that is done, except that an
\* owner may remove its callback.
LEMMA OneMoves ==
    ASSUME Inv, NEW c \in Callers,
           Look(c) \/ Send(c) \/ SendFails(c) \/ Poll(c) \/ Cancel(c) \/ RemoveCallback(c)
    PROVE  /\ \A d \in Callers \ {c} : call'[d] = call[d]
           /\ call[c] \notin {"cancelled", "refused", "panicked"}
  <1>1. call' = call \/ \E p : Goto(c, p)
    BY DEF Look, Send, SendFails, Poll, Cancel, RemoveCallback
  <1>2. call[c] \notin {"cancelled", "refused", "panicked"}
    BY Zenon DEF Look, Send, SendFails, Poll, Cancel, RemoveCallback, Sending, Waiting
  <1> QED BY <1>1, <1>2, Gone

\* A command that is taken.
LEMMA TakeFrame ==
    ASSUME Inv, NEW ty, Take(ty)
    PROVE  /\ task = "running" /\ task' = task /\ call' = call /\ waker_index' = waker_index
           /\ ready' = ready /\ unsubs' = unsubs /\ answered' = answered /\ to_client' = to_client
           /\ cmd_queue \in Seq(Command) /\ cmd_queue # <<>> /\ cmd_queue' = Tail(cmd_queue)
           /\ Head(cmd_queue).ty = ty
           /\ Elems(cmd_queue) = {Head(cmd_queue)} \cup Elems(cmd_queue')
  BY Zenon, TakeKeeps DEF Take, Inv, TypeOK

\* What has disturbed the callers is not forgotten.
LEMMA NotForgotten ==
    ASSUME Inv, Recorded, [Next]_vars
    PROVE  /\ unsubs' = 0 => unsubs = 0 /\ UNCHANGED unsubs
           /\ task' = "running" => task = "running"
           /\ answered \subseteq answered'
           /\ Undisturbed' => Undisturbed
           /\ Steady' => Steady
  <1> DEFINE Remain == /\ unsubs' = 0 => unsubs = 0 /\ UNCHANGED unsubs
                       /\ task' = "running" => task = "running"
                       /\ answered \subseteq answered'
                       /\ \A c \in Callers : call[c] = "cancelled" => call'[c] = "cancelled"
                       /\ unsubs' # unsubs => unsubs' # 0
                       /\ "stop" \notin Ends \/ (task' = "running" => task = "running")
  <1>1. CASE Aside \/ Leaves \/ \E mine, result : Acknowledged(mine, result)
    <2>1. Remain
      BY <1>1 DEF Aside, Leaves, Acknowledged
    <2> QED BY Zenon, <2>1 DEF Undisturbed, Steady
  <1>2. ASSUME NEW c \in Callers,
               Look(c) \/ Send(c) \/ SendFails(c) \/ Poll(c) \/ Cancel(c) \/ RemoveCallback(c)
        PROVE  Remain
    BY Zenon, <1>2, CallerFrame, OneMoves
  <1>3. CASE Unsubscribe
    <2>1. unsubs \in Nat
      BY SubscribeAssumption DEF Inv, TypeOK
    <2>2. unsubs' # 0 /\ unsubs' # unsubs /\ task' = task /\ answered' = answered /\ call' = call
      BY <1>3, <2>1 DEF Unsubscribe, endvars, brokervars, clientvars
    <2> QED BY Zenon, <2>2 DEF Undisturbed, Steady
  <1>4. CASE CommandSubscribe \/ CommandUnsub \/ CommandRemoveCallback
    <2>1. Remain
      BY Zenon, <1>4, TakeFrame DEF CommandSubscribe, CommandUnsub, CommandRemoveCallback
    <2> QED BY Zenon, <2>1 DEF Undisturbed, Steady
  <1>5. ASSUME Remain PROVE (Undisturbed' => Undisturbed) /\ (Steady' => Steady)
    BY Zenon, <1>5 DEF Undisturbed, Steady
  <1> QED BY Zenon, <1>1, <1>2, <1>3, <1>4, <1>5, StepKinds

\* Recorded is inductive.
LEMMA RecordedStep ==
    ASSUME Inv, Recorded, [Next]_vars
    PROVE  Recorded'
  <1>1. \A m \in Elems(to_client') : m.ty = "SubAck" => m.result \in answered'
    <2>1. to_client \in Seq(Answer) /\ to_broker \in Seq(Packet)
      BY Zenon DEF Inv, TypeOK
    <2>2. CASE UNCHANGED <<to_client>>
      BY <2>2, NotForgotten DEF Recorded
    <2>3. CASE ReceiveSubAck \/ ReceiveUnsubAck
      <3>1. to_client # <<>> /\ to_client' = Tail(to_client) /\ answered' = answered
        BY Zenon, <2>3 DEF ReceiveSubAck, ReceiveUnsubAck, Receive, brokervars
      <3>2. Elems(to_client') \subseteq Elems(to_client)
        BY Zenon, <2>1, <3>1, Taken
      <3> QED BY <3>1, <3>2 DEF Recorded
    <2>4. ASSUME NEW result, BrokerSubscribe(result)
          PROVE  \A m \in Elems(to_client') : m.ty = "SubAck" => m.result \in answered'
      <3> DEFINE m0 == [ty |-> "SubAck", id |-> Head(to_broker).id, result |-> result]
      <3>1. /\ to_client' = Append(to_client, m0) /\ answered' = answered \cup {result}
            /\ to_broker # <<>> /\ result \in Answers
        BY Zenon, <2>4 DEF BrokerSubscribe, Read
      <3>2. Head(to_broker) \in Packet
        BY Zenon, <2>1, <3>1, Taken
      <3>3. m0 \in Answer /\ m0.result = result
        BY Zenon, <3>1, <3>2 DEF Answer, Packet
      <3>4. Elems(to_client') = Elems(to_client) \cup {m0}
        BY <2>1, <3>1, <3>3, Added
      <3> QED BY Zenon, <3>1, <3>3, <3>4 DEF Recorded
    <2>5. CASE BrokerUnsubscribe
      <3> DEFINE m0 == [ty |-> "UnsubAck", id |-> Head(to_broker).id]
      <3>1. to_client' = Append(to_client, m0) /\ answered' = answered /\ to_broker # <<>>
        BY Zenon, <2>5 DEF BrokerUnsubscribe, Read
      <3>2. Head(to_broker) \in Packet
        BY Zenon, <2>1, <3>1, Taken
      <3>3. m0 \in Answer /\ m0.ty # "SubAck"
        BY Zenon, <3>2 DEF Answer, Packet
      <3>4. Elems(to_client') = Elems(to_client) \cup {m0}
        BY <2>1, <3>1, <3>3, Added
      <3> QED BY Zenon, <3>1, <3>3, <3>4 DEF Recorded
    <2>6. ASSUME NEW c \in Callers, CallerStep(c) PROVE UNCHANGED <<to_client>>
      BY <2>6, CallerFrame DEF CallerStep
    <2>7. CASE \/ Unsubscribe \/ CommandSubscribe \/ CommandUnsub \/ CommandRemoveCallback \/ AlarmPop
               \/ (\E how \in {"closed", "stop"} : LoopEnds(how)) \/ DrainSubs
               \/ (\E c \in Callers : WakeOne(c)) \/ WakeEnds \/ TransceiverDropped
               \/ BrokerIgnores \/ UNCHANGED vars
      <3>1. UNCHANGED <<to_client>>
        BY Zenon, <2>7 DEF Unsubscribe, CommandSubscribe, CommandUnsub, CommandRemoveCallback, Take, AlarmPop,
           LoopEnds, DrainSubs, WakeOne, WakeEnds, TransceiverDropped, Ending, BrokerIgnores, vars
      <3> QED BY <3>1, <2>2
    <2> QED BY Zenon, <2>2, <2>3, <2>4, <2>5, <2>6, <2>7 DEF Next, TaskStep, BrokerStep
  <1>2. ASSUME unsubs' = 0 PROVE \A m \in Elems(cmd_queue') : m.ty # "Immediate"
    <2>1. unsubs = 0 /\ unsubs' = unsubs /\ \A m \in Elems(cmd_queue) : m.ty # "Immediate"
      BY <1>2, NotForgotten DEF Recorded
    <2>2. CASE cmd_queue' = cmd_queue \/ cmd_queue' = <<>>
      BY <2>1, <2>2 DEF Elems
    <2>3. ASSUME NEW c \in Callers, NEW ty \in {"Subscribe", "FastCallback"}, Enqueue(ty, c)
          PROVE  \A m \in Elems(cmd_queue') : m.ty # "Immediate"
      <3>1. [ty |-> ty, who |-> c] \in Command
        BY Zenon DEF Command
      <3>2. Elems(cmd_queue') = Elems(cmd_queue) \cup {[ty |-> ty, who |-> c]}
        BY <2>3, <3>1, EnqueueKeeps DEF Inv
      <3> QED BY <2>1, <3>2
    <2>4. ASSUME NEW ty, Take(ty) PROVE \A m \in Elems(cmd_queue') : m.ty # "Immediate"
      BY Zenon, <2>1, <2>4, TakeFrame
    <2>5. ASSUME NEW c \in Callers, CallerStep(c)
          PROVE  cmd_queue' = cmd_queue \/ \E ty \in {"Subscribe", "FastCallback"} : Enqueue(ty, c)
      BY <2>5 DEF CallerStep, Look, Send, SendFails, Poll, Cancel, RemoveCallback, ownervars
    <2>6. ~Unsubscribe
      <3>1. unsubs \in Nat
        BY SubscribeAssumption DEF Inv, TypeOK
      <3> QED BY <2>1, <3>1 DEF Unsubscribe
    <2>7. CASE CommandSubscribe \/ CommandUnsub \/ CommandRemoveCallback
      BY <2>4, <2>7 DEF CommandSubscribe, CommandUnsub, CommandRemoveCallback
    <2>8. CASE \/ ReceiveSubAck \/ ReceiveUnsubAck \/ AlarmPop
               \/ (\E how \in {"closed", "stop"} : LoopEnds(how)) \/ DrainSubs
               \/ (\E c \in Callers : WakeOne(c)) \/ WakeEnds \/ TransceiverDropped
               \/ BrokerStep \/ UNCHANGED vars
      <3>1. cmd_queue' = cmd_queue \/ cmd_queue' = <<>>
        BY Zenon, <2>8 DEF ReceiveSubAck, ReceiveUnsubAck, Receive, AlarmPop, LoopEnds, DrainSubs, WakeOne,
           WakeEnds, TransceiverDropped, BrokerStep, BrokerSubscribe, BrokerUnsubscribe, BrokerIgnores,
           Read, vars, ownervars
      <3> QED BY <3>1, <2>2
    <2> QED BY Zenon, <2>2, <2>3, <2>5, <2>6, <2>7, <2>8 DEF Next, TaskStep
  <1>3. ASSUME "stop" \notin Ends PROVE task' \in {"running", "returned", "dropped"}
    <2>1. task \in {"running", "returned", "dropped"}
      BY <1>3 DEF Recorded
    <2>2. ASSUME NEW c \in Callers, CallerStep(c) PROVE task' = task
      BY <2>2, CallerFrame DEF CallerStep
    <2>3. CASE \/ Unsubscribe \/ CommandSubscribe \/ CommandUnsub \/ CommandRemoveCallback
               \/ ReceiveSubAck \/ ReceiveUnsubAck \/ AlarmPop \/ BrokerStep \/ UNCHANGED vars
      <3>1. task' = task
        BY Zenon, <2>3 DEF Unsubscribe, CommandSubscribe, CommandUnsub, CommandRemoveCallback, Take,
           ReceiveSubAck, ReceiveUnsubAck, Receive, AlarmPop, BrokerStep, BrokerSubscribe,
           BrokerUnsubscribe, BrokerIgnores, Read, vars, endvars
      <3> QED BY <3>1, <2>1
    <2>4. CASE \/ (\E how \in {"closed", "stop"} : LoopEnds(how)) \/ DrainSubs
               \/ (\E c \in Callers : WakeOne(c)) \/ WakeEnds \/ TransceiverDropped
      BY Zenon, <1>3, <2>1, <2>4 DEF LoopEnds, DrainSubs, WakeOne, WakeEnds, TransceiverDropped
    <2> QED BY <2>1, <2>2, <2>3, <2>4 DEF Next, TaskStep
  <1> QED BY Zenon, <1>1, <1>2, <1>3 DEF Recorded

-----------------------------------------------------------------------------
(* At most one request.                                                    *)

\* The commands in the queue after another one is added, or one is taken.
LEMMA OtherQueued ==
    ASSUME Inv, NEW ty, NEW c, Enqueue(ty, c), ty # "Subscribe"
    PROVE  (NoneQueued => NoneQueued') /\ (OneQueued => OneQueued')
  <1>1. cmd_queue \in Seq(Command) /\ cmd_queue' = Append(cmd_queue, [ty |-> ty, who |-> c])
    BY Zenon DEF Inv, TypeOK, Enqueue
  <1>2. /\ DOMAIN cmd_queue' = 1..(Len(cmd_queue) + 1) /\ DOMAIN cmd_queue = 1..Len(cmd_queue)
        /\ cmd_queue'[Len(cmd_queue) + 1] = [ty |-> ty, who |-> c]
        /\ \A i \in DOMAIN cmd_queue : cmd_queue'[i] = cmd_queue[i]
        /\ Len(cmd_queue) \in Nat
    BY <1>1
  <1>3. \A i \in DOMAIN cmd_queue' :
          cmd_queue'[i].ty = "Subscribe" => i \in DOMAIN cmd_queue /\ cmd_queue[i].ty = "Subscribe"
    BY <1>2
  <1> QED BY Zenon, <1>3 DEF NoneQueued, OneQueued

LEMMA FirstQueued ==
    ASSUME Inv, NEW c, Enqueue("Subscribe", c), NoneQueued
    PROVE  OneQueued'
  <1>1. cmd_queue \in Seq(Command) /\ cmd_queue' = Append(cmd_queue, [ty |-> "Subscribe", who |-> c])
    BY Zenon DEF Inv, TypeOK, Enqueue
  <1>2. /\ DOMAIN cmd_queue' = 1..(Len(cmd_queue) + 1) /\ DOMAIN cmd_queue = 1..Len(cmd_queue)
        /\ \A i \in DOMAIN cmd_queue : cmd_queue'[i] = cmd_queue[i]
        /\ Len(cmd_queue) \in Nat
    BY <1>1
  <1>3. \A i \in DOMAIN cmd_queue' : cmd_queue'[i].ty = "Subscribe" => i = Len(cmd_queue) + 1
    BY <1>2 DEF NoneQueued
  <1> QED BY Zenon, <1>3 DEF OneQueued

LEMMA TakenQueued ==
    ASSUME Inv, NEW ty, Take(ty)
    PROVE  /\ NoneQueued => NoneQueued' /\ ty # "Subscribe"
           /\ OneQueued => OneQueued'
           /\ OneQueued /\ ty = "Subscribe" => NoneQueued'
  <1>1. /\ cmd_queue \in Seq(Command) /\ cmd_queue # <<>> /\ cmd_queue' = Tail(cmd_queue)
        /\ Head(cmd_queue).ty = ty
    BY TakeFrame
  <1>2. /\ DOMAIN cmd_queue = 1..Len(cmd_queue) /\ DOMAIN cmd_queue' = 1..(Len(cmd_queue) - 1)
        /\ \A i \in DOMAIN cmd_queue' : cmd_queue'[i] = cmd_queue[i + 1]
        /\ Len(cmd_queue) \in Nat \ {0} /\ cmd_queue[1].ty = ty
    BY <1>1
  <1>3. \A i \in DOMAIN cmd_queue' : i + 1 \in DOMAIN cmd_queue /\ i + 1 # 1 /\ i \in Int
    BY <1>2
  <1>4. 1 \in DOMAIN cmd_queue
    BY <1>2
  <1>5. NoneQueued => NoneQueued' /\ ty # "Subscribe"
    BY Zenon, <1>2, <1>3, <1>4 DEF NoneQueued
  <1>6. OneQueued => OneQueued'
    <2> SUFFICES ASSUME OneQueued,
                        NEW i \in DOMAIN cmd_queue', cmd_queue'[i].ty = "Subscribe",
                        NEW j \in DOMAIN cmd_queue', cmd_queue'[j].ty = "Subscribe"
                 PROVE  i = j
      BY Zenon DEF OneQueued
    <2>1. i + 1 = j + 1
      BY Zenon, <1>2, <1>3 DEF OneQueued
    <2> QED BY <2>1, <1>3
  <1>7. OneQueued /\ ty = "Subscribe" => NoneQueued'
    BY Zenon, <1>2, <1>3, <1>4 DEF OneQueued, NoneQueued
  <1> QED BY Zenon, <1>5, <1>6, <1>7

\* A step after which nobody more asks.
LEMMA NobodyMore ==
    ASSUME Asking,
           \A c \in Callers : call'[c] \in {"send", "ask"} => call'[c] = call[c],
           NoneQueued => NoneQueued', OneQueued => OneQueued',
           pending_subs' \subseteq pending_subs, subs'.st = subs.st
    PROVE  Asking'
  <1>1. /\ NoneAsks => NoneAsks'
        /\ OneAsks => OneAsks'
        /\ \A c \in Callers : call'[c] # "send"
    BY Zenon DEF NoneAsks, OneAsks, Asking
  <1>2. /\ OneRequested => OneRequested'
        /\ pending_subs = {} => pending_subs' = {}
    BY DEF OneRequested
  <1> QED BY Zenon, <1>1, <1>2 DEF Asking

LEMMA QueueStays ==
    ASSUME cmd_queue' = cmd_queue
    PROVE  (NoneQueued => NoneQueued') /\ (OneQueued => OneQueued')
  BY DEF NoneQueued, OneQueued

\* The steps of a caller.
LEMMA CallerAsks ==
    ASSUME Inv, OneRequest, task = "running", unsubs = 0, NEW c \in Callers,
           Look(c) \/ Send(c) \/ SendFails(c) \/ Poll(c) \/ Cancel(c) \/ RemoveCallback(c)
    PROVE  IF subscribed THEN Asked' ELSE Asking'
  <1>1. IF subscribed THEN Asked ELSE Asking
    BY Zenon DEF OneRequest
  <1>2. subscribed' = subscribed /\ pending_subs' = pending_subs /\ \A d \in Callers \ {c} : call'[d] = call[d]
    BY Zenon, CallerFrame, OneMoves
  <1>3. CASE subscribed
    <2>1. subs.st = "Existing"
      BY <1>1, <1>3 DEF Asked
    <2>2. subs' = subs
      BY Zenon, <2>1 DEF Look, Send, SendFails, Poll, Cancel, RemoveCallback
    <2> QED BY <1>1, <1>2, <1>3, <2>2 DEF Asked
  <1>4. CASE ~subscribed
    <2>1. Asking
      BY <1>1, <1>4
    <2>2. subs.st # "Existing" /\ \A d \in Callers : call[d] # "send"
      BY <2>1 DEF Asking
    <2>3. CASE Look(c) /\ subs.st = "Absent"
      <3>1. Goto(c, "ask") /\ subs' = Pending(<<>>) /\ cmd_queue' = cmd_queue
        BY Zenon, <2>3 DEF Look, ownervars
      <3>2. NoneAsks /\ NoneQueued /\ pending_subs = {}
        BY Zenon, <2>1, <2>3 DEF Asking
      <3>3. /\ \A d \in Callers : call'[d] = "ask" => d = c
            /\ \A d \in Callers : call'[d] # "send"
        BY Zenon, <3>1, <3>2, <2>2, Gone DEF NoneAsks
      <3>4. NoneQueued' /\ pending_subs' = {}
        BY <3>1, <3>2, <1>2 DEF NoneQueued
      <3>5. OneAsks' /\ OneQueued' /\ OneRequested'
        BY Zenon, <3>3, <3>4 DEF OneAsks, OneQueued, OneRequested, NoneQueued
      <3>6. subs'.st = "Pending"
        BY Zenon, <3>1 DEF Pending
      <3>7. Asking'
        BY <3>3, <3>4, <3>5, <3>6 DEF Asking
      <3> QED BY Zenon, <3>7, <1>4
    <2>4. CASE Look(c) /\ subs.st # "Absent"
      <3>1. Goto(c, "before") /\ subs' = subs /\ cmd_queue' = cmd_queue
        BY Zenon, <2>2, <2>4 DEF Look, ownervars
      <3>2. \A d \in Callers : call'[d] \in {"send", "ask"} => call'[d] = call[d]
        BY Zenon, <3>1, Gone
      <3>3. Asking'
        BY <1>2, <2>1, <3>1, <3>2, NobodyMore, QueueStays
      <3> QED BY Zenon, <3>3, <1>4
    <2>5. CASE Send(c)
      <3>1. call[c] = "ask" /\ Goto(c, "after") /\ Enqueue("Subscribe", c) /\ subs' = subs
        BY Zenon, <2>2, <2>5 DEF Send
      <3>2. NoneQueued /\ pending_subs = {} /\ OneAsks /\ subs.st # "Absent"
        BY <2>1, <3>1 DEF Asking, NoneAsks
      <3>3. \A d \in Callers : call'[d] # "ask" /\ call'[d] # "send"
        BY Zenon, <2>2, <3>1, <3>2, Gone DEF OneAsks
      <3>4. NoneAsks' /\ OneAsks' /\ OneQueued' /\ pending_subs' = {} /\ OneRequested'
        BY Zenon, <1>2, <3>1, <3>2, <3>3, FirstQueued DEF NoneAsks, OneAsks, OneRequested
      <3>5. Asking'
        BY Zenon, <2>2, <3>1, <3>2, <3>3, <3>4 DEF Asking
      <3> QED BY Zenon, <3>5, <1>4
    <2>6. CASE Poll(c)
      <3>1. /\ subs'.st = subs.st /\ cmd_queue' = cmd_queue
            /\ call' = call \/ Goto(c, "refused") \/ Goto(c, "panicked")
        BY <2>2, <2>6 DEF Poll, Pending, ownervars, Inv, TypeOK, Entry
      <3>2. \A d \in Callers : call'[d] \in {"send", "ask"} => call'[d] = call[d]
        BY <3>1, Gone
      <3>3. Asking'
        BY <1>2, <2>1, <3>1, <3>2, NobodyMore, QueueStays
      <3> QED BY Zenon, <3>3, <1>4
    <2>7. CASE Cancel(c) \/ SendFails(c)
      <3>1. /\ subs'.st = subs.st /\ cmd_queue' = cmd_queue
            /\ Goto(c, "cancelled") \/ Goto(c, "panicked") \/ Goto(c, "terminated")
        BY Zenon, <2>7 DEF Cancel, SendFails, ownervars, Inv, TypeOK, Entry
      <3>2. \A d \in Callers : call'[d] \in {"send", "ask"} => call'[d] = call[d]
        BY Zenon, <3>1, Gone
      <3>3. Asking'
        BY <1>2, <2>1, <3>1, <3>2, NobodyMore, QueueStays
      <3> QED BY Zenon, <3>3, <1>4
    <2>8. CASE RemoveCallback(c)
      <3>1. Enqueue("FastCallback", c) /\ Goto(c, "removed") /\ subs' = subs
        BY <2>8 DEF RemoveCallback
      <3>2. \A d \in Callers : call'[d] \in {"send", "ask"} => call'[d] = call[d]
        BY Zenon, <3>1, Gone
      <3>3. Asking'
        BY Zenon, <1>2, <2>1, <3>1, <3>2, NobodyMore, OtherQueued
      <3> QED BY Zenon, <3>3, <1>4
    <2> QED BY <2>3, <2>4, <2>5, <2>6, <2>7, <2>8
  <1> QED BY <1>3, <1>4

\* The answer to the only SUBSCRIBE.
LEMMA OnlyOne ==
    ASSUME NEW mine, NEW result, Acknowledged(mine, result), OneRequested
    PROVE  pending_subs' = {}
  BY DEF Acknowledged, OneRequested

LEMMA OneRequestStep ==
    ASSUME Inv, Recorded, OneRequest, [Next]_vars
    PROVE  OneRequest'
  <1> SUFFICES ASSUME task' = "running", unsubs' = 0
               PROVE  IF subscribed' THEN Asked' ELSE Asking'
    BY DEF OneRequest
  <1>1. /\ task = "running" /\ unsubs = 0 /\ unsubs' = unsubs
        /\ IF subscribed THEN Asked ELSE Asking
    BY Zenon, NotForgotten DEF OneRequest
  <1>2. CASE Aside
    <2>1. Asked => Asked'
      BY Zenon, <1>2 DEF Aside, Asked
    <2>2. Asking => Asking'
      BY <1>2, NobodyMore, QueueStays DEF Aside
    <2> QED BY <1>1, <1>2, <2>1, <2>2 DEF Aside
  <1>3. CASE Leaves
    BY <1>3 DEF Leaves
  <1>4. ASSUME NEW mine, NEW result, Acknowledged(mine, result)
        PROVE  IF subscribed' THEN Asked' ELSE Asking'
    <2>1. pending_subs # {}
      BY <1>4 DEF Acknowledged
    <2>2. ~subscribed /\ Asking
      BY <1>1, <2>1 DEF Asked
    <2>3. NoneAsks /\ NoneQueued /\ OneRequested /\ \A c \in Callers : call[c] # "send"
      BY <2>1, <2>2 DEF Asking
    <2>4. call' = call /\ cmd_queue' = cmd_queue /\ pending_subs' = {}
      BY Zenon, <1>4, <2>3, OnlyOne DEF Acknowledged
    <2>5. CASE subs' = Existing /\ subscribed' = TRUE
      BY Zenon, <2>4, <2>5 DEF Asked, Existing
    <2>6. CASE subs' = Absent /\ subscribed' = subscribed
      <3>1. NoneAsks' /\ NoneQueued' /\ OneAsks' /\ OneQueued' /\ OneRequested'
        BY Zenon, <2>3, <2>4 DEF NoneAsks, NoneQueued, OneAsks, OneQueued, OneRequested
      <3>2. subs'.st # "Existing" /\ \A c \in Callers : call'[c] # "send"
        BY <2>3, <2>4, <2>6 DEF Absent
      <3> QED BY Zenon, <2>2, <2>4, <2>6, <3>1, <3>2 DEF Asking
    <2>7. CASE subs' = subs /\ subscribed' = subscribed
      <3>1. Asking'
        BY Zenon, <2>2, <2>4, <2>7, NobodyMore, QueueStays
      <3> QED BY Zenon, <2>2, <2>7, <3>1
    <2> QED BY Zenon, <1>4, <2>5, <2>6, <2>7 DEF Acknowledged
  <1>5. ASSUME NEW c \in Callers,
               Look(c) \/ Send(c) \/ SendFails(c) \/ Poll(c) \/ Cancel(c) \/ RemoveCallback(c)
        PROVE  IF subscribed' THEN Asked' ELSE Asking'
    <2>1. subscribed' = subscribed
      BY Zenon, <1>5, CallerFrame
    <2>2. IF subscribed THEN Asked' ELSE Asking'
      BY Zenon, <1>1, <1>5, CallerAsks
    <2> QED BY Zenon, <2>1, <2>2
  <1>6. ~Unsubscribe
    <2>1. unsubs \in Nat
      BY Zenon, <1>1
    <2> QED BY <1>1, <2>1 DEF Unsubscribe
  <1>7. CASE CommandSubscribe
    <2>1. Take("Subscribe") /\ subs' = subs /\ subscribed' = subscribed
      BY Zenon, <1>7 DEF CommandSubscribe
    <2>2. CASE subscribed
      <3>1. pending_subs' = pending_subs
        BY <1>7, <2>2 DEF CommandSubscribe, keptvars
      <3> QED BY Zenon, <1>1, <2>1, <2>2, <3>1 DEF Asked
    <2>3. CASE ~subscribed
      <3>1. PICK s : pending_subs' = pending_subs \cup {s}
        BY Zenon, <1>7, <2>3 DEF CommandSubscribe
      <3>2. Asking /\ call' = call
        BY <1>1, <2>1, <2>3, TakeFrame
      <3>3. ~NoneQueued
        BY <2>1, TakenQueued
      <3>4. NoneAsks /\ pending_subs = {} /\ OneQueued /\ subs.st # "Absent"
        BY Zenon, <3>2, <3>3 DEF Asking
      <3>5. NoneQueued' /\ OneQueued' /\ NoneAsks' /\ OneAsks' /\ OneRequested'
        BY Zenon, <2>1, <3>1, <3>2, <3>4, TakenQueued DEF NoneAsks, OneAsks, OneRequested
      <3>6. Asking'
        BY <2>1, <3>2, <3>4, <3>5 DEF Asking
      <3> QED BY <2>1, <2>3, <3>6
    <2> QED BY Zenon, <2>2, <2>3
  <1>8. ~CommandUnsub
    <2>1. ASSUME Take("Immediate") PROVE FALSE
      BY <1>1, <2>1, TakeFrame DEF Recorded
    <2> QED BY Zenon, <2>1 DEF CommandUnsub
  <1>9. CASE CommandRemoveCallback
    <2>1. Take("FastCallback") /\ subs' = subs /\ subscribed' = subscribed /\ pending_subs' = pending_subs
      BY Zenon, <1>9 DEF CommandRemoveCallback, keptvars
    <2>2. call' = call
      BY <2>1, TakeFrame
    <2>3. Asked => Asked'
      BY Zenon, <2>1 DEF Asked
    <2>4. Asking => Asking'
      BY Zenon, <2>1, <2>2, NobodyMore, TakenQueued
    <2> QED BY <1>1, <2>1, <2>3, <2>4
  <1> QED BY <1>2, <1>3, <1>4, <1>5, <1>6, <1>7, <1>8, <1>9, StepKinds

\* The map and the object agree.
LEMMA AgreeStep ==
    ASSUME Inv, Recorded, Agree, [Next]_vars
    PROVE  Agree'
  <1> SUFFICES ASSUME task' = "running", "refused" \notin answered'
               PROVE  subscribed' <=> subs'.st = "Existing"
    BY Zenon DEF Agree
  <1>1. task = "running" /\ "refused" \notin answered /\ (subscribed <=> subs.st = "Existing")
    BY Zenon, NotForgotten DEF Agree
  <1>2. CASE Aside \/ Leaves
    BY <1>1, <1>2 DEF Aside, Leaves
  <1>3. ASSUME NEW mine, NEW result, Acknowledged(mine, result)
        PROVE  subscribed' <=> subs'.st = "Existing"
    BY <1>1, <1>3 DEF Acknowledged, Existing
  <1>4. ASSUME NEW c \in Callers,
               Look(c) \/ Send(c) \/ SendFails(c) \/ Poll(c) \/ Cancel(c) \/ RemoveCallback(c)
        PROVE  subscribed' <=> subs'.st = "Existing"
    <2>1. subscribed' = subscribed
      BY Zenon, <1>4, CallerFrame
    <2>2. subs'.st = subs.st \/ (subs.st = "Absent" /\ subs'.st = "Pending")
      BY <1>4 DEF Look, Send, SendFails, Poll, Cancel, RemoveCallback, Pending, Inv, TypeOK, Entry
    <2> QED BY Zenon, <1>1, <2>1, <2>2
  <1>5. CASE Unsubscribe \/ CommandSubscribe \/ CommandRemoveCallback
    <2>1. subs' = subs /\ subscribed' = subscribed
      <3>1. CASE Unsubscribe
        BY Zenon, <3>1 DEF Unsubscribe, objectvars
      <3>2. CASE CommandSubscribe
        BY <3>2 DEF CommandSubscribe
      <3>3. CASE CommandRemoveCallback
        BY Zenon, <3>3 DEF CommandRemoveCallback
      <3> QED BY Zenon, <1>5, <3>1, <3>2, <3>3
    <2> QED BY <1>1, <2>1
  <1>6. CASE CommandUnsub
    <2>1. \/ subscribed' = FALSE /\ subs' = Absent
          \/ subscribed' = subscribed /\ subs' = subs
      BY Zenon, <1>6 DEF CommandUnsub, objectvars
    <2> QED BY <1>1, <2>1 DEF Absent
  <1> QED BY <1>2, <1>3, <1>4, <1>5, <1>6, StepKinds

-----------------------------------------------------------------------------
(* A pending subscription is being established.                            *)

\* The commands in the queue after a step.
LEMMA InElemsNext == \A c : Queued(c)' <=> [ty |-> "Subscribe", who |-> c] \in Elems(cmd_queue')
  BY Zenon DEF Queued, Elems

Establishes(c) == call[c] = "ask" \/ Queued(c) \/ Requested(c)

\* A caller that asks goes on asking.
LEMMA GoesOn ==
    ASSUME Inv, NEW c \in Callers, Establishes(c),
           call[c] = "ask" => call'[c] = "ask" \/ Queued(c)',
           Elems(cmd_queue) \subseteq Elems(cmd_queue'), pending_subs \subseteq pending_subs'
    PROVE  Establishes(c)'
  <1>1. Queued(c) => Queued(c)'
    BY Zenon, InElems, InElemsNext
  <1>2. Requested(c) => Requested(c)'
    BY Zenon DEF Requested
  <1> QED BY <1>1, <1>2 DEF Establishes

LEMMA EstablishedStep ==
    ASSUME Inv, Recorded, OneRequest, Agree, Established, [Next]_vars
    PROVE  Established'
  <1> SUFFICES ASSUME Steady', subs'.st = "Pending", task' = "running"
               PROVE  \E c \in Callers : Establishes(c)'
    BY Zenon DEF Established, PendingMeansEstablishing, Establishes
  <1>1. /\ task = "running" /\ Steady
        /\ subs.st = "Pending" => \E c \in Callers : Establishes(c)
    BY Zenon, NotForgotten DEF Established, PendingMeansEstablishing, Establishes
  <1>2. subs.st = "Pending" => ~subscribed
    BY <1>1 DEF Steady, OneRequest, Agree, Asked
  <1>3. CASE Aside
    <2>1. PICK c \in Callers : Establishes(c)
      BY Zenon, <1>1, <1>3 DEF Aside
    <2>2. Establishes(c)'
      BY <1>3, <2>1, GoesOn DEF Aside
    <2> QED BY Zenon, <2>2
  <1>4. CASE Leaves
    BY Zenon, <1>4 DEF Leaves
  <1>5. ASSUME NEW mine, NEW result, Acknowledged(mine, result) PROVE FALSE
    <2>1. result # "empty"
      BY <1>1, <1>5 DEF Acknowledged, Steady
    <2> QED BY <1>5, <2>1 DEF Acknowledged, Existing, Absent
  <1>6. ASSUME NEW c \in Callers,
               Look(c) \/ Send(c) \/ SendFails(c) \/ Poll(c) \/ Cancel(c) \/ RemoveCallback(c)
        PROVE  \E d \in Callers : Establishes(d)'
    <2>1. pending_subs' = pending_subs /\ \A d \in Callers \ {c} : call'[d] = call[d]
      BY <1>6, CallerFrame, OneMoves
    <2>2. Elems(cmd_queue) \subseteq Elems(cmd_queue')
      <3>1. ASSUME NEW ty \in {"Subscribe", "FastCallback"}, Enqueue(ty, c)
            PROVE  Elems(cmd_queue) \subseteq Elems(cmd_queue')
        <4>1. [ty |-> ty, who |-> c] \in Command
          BY Zenon DEF Command
        <4> QED BY Zenon, <3>1, <4>1, EnqueueKeeps DEF Inv
      <3>2. cmd_queue' = cmd_queue \/ \E ty \in {"Subscribe", "FastCallback"} : Enqueue(ty, c)
        BY Zenon, <1>6 DEF Look, Send, SendFails, Poll, Cancel, RemoveCallback, ownervars
      <3> QED BY Zenon, <3>1, <3>2
    <2>3. CASE Look(c) /\ subs.st # "Pending"
      <3>1. Goto(c, "ask")
        BY Zenon, <1>6, <2>3 DEF Look
      <3>2. call'[c] = "ask"
        BY Zenon, <3>1, Gone
      <3> QED BY Zenon, <3>2 DEF Establishes
    <2>4. subs.st # "Pending" => Look(c)
      BY Zenon, <1>6 DEF Send, SendFails, Poll, Cancel, RemoveCallback
    <2>5. call[c] = "ask" => call'[c] = "ask" \/ Queued(c)'
      <3>1. CASE Send(c)
        <4>1. Enqueue("Subscribe", c) /\ [ty |-> "Subscribe", who |-> c] \in Command
          BY Zenon, <3>1 DEF Send, Command
        <4>2. [ty |-> "Subscribe", who |-> c] \in Elems(cmd_queue')
          BY <4>1, EnqueueKeeps DEF Inv
        <4> QED BY Zenon, <4>2, InElemsNext
      <3>2. CASE SendFails(c)
        BY Zenon, <1>1, <3>2 DEF SendFails, closed
      <3>3. CASE Cancel(c) /\ call[c] = "ask"
        <4>1. Goto(c, "cancelled")
          BY <3>3 DEF Cancel, Waiting
        <4>2. call'[c] = "cancelled"
          BY Zenon, <4>1, Gone
        <4> QED BY <4>2 DEF Steady
      <3>4. call[c] = "ask" => ~Look(c) /\ ~Poll(c) /\ ~RemoveCallback(c)
        BY DEF Look, Poll, RemoveCallback, Waiting
      <3> QED BY Zenon, <1>6, <3>1, <3>2, <3>3, <3>4
    <2>6. CASE subs.st = "Pending"
      <3>1. PICK d \in Callers : Establishes(d)
        BY Zenon, <1>1, <2>6
      <3>2. Establishes(d)'
        BY <2>1, <2>2, <2>5, <3>1, GoesOn
      <3> QED BY <3>2
    <2> QED BY <2>3, <2>4, <2>6
  <1>7. CASE Unsubscribe
    <2>1. subs' = subs /\ call' = call /\ pending_subs' = pending_subs /\ Enqueue("Immediate", None)
      BY Zenon, <1>7 DEF Unsubscribe, clientvars, keptvars
    <2>2. [ty |-> "Immediate", who |-> None] \in Command
      BY Zenon DEF Command
    <2>3. Elems(cmd_queue) \subseteq Elems(cmd_queue')
      BY Zenon, <2>1, <2>2, EnqueueKeeps DEF Inv
    <2>4. PICK c \in Callers : Establishes(c)
      BY Zenon, <1>1, <2>1
    <2>5. Establishes(c)'
      BY Zenon, <2>1, <2>3, <2>4, GoesOn
    <2> QED BY Zenon, <2>5
  <1>8. CASE CommandSubscribe
    <2>1. Take("Subscribe") /\ subs' = subs
      BY Zenon, <1>8 DEF CommandSubscribe
    <2>2. PICK c \in Callers : c = Head(cmd_queue).who
      BY <2>1, TakeKeeps DEF Inv, Command
    <2>3. pending_subs' = pending_subs \cup {[id |-> next_packet_id, kind |-> c]}
      BY Zenon, <1>2, <1>8, <2>1, <2>2 DEF CommandSubscribe
    <2>4. Requested(c)'
      <3> DEFINE s == [id |-> next_packet_id, kind |-> c]
      <3>1. s \in pending_subs' /\ s.kind = c
        BY <2>3
      <3> QED BY Zenon, <3>1 DEF Requested
    <2> QED BY Zenon, <2>2, <2>4 DEF Establishes
  <1>9. CASE CommandUnsub \/ CommandRemoveCallback
    <2>1. PICK ty \in {"Immediate", "FastCallback"} : Take(ty)
      BY Zenon, <1>9 DEF CommandUnsub, CommandRemoveCallback
    <2>2. /\ Elems(cmd_queue) = {Head(cmd_queue)} \cup Elems(cmd_queue')
          /\ Head(cmd_queue).ty # "Subscribe" /\ call' = call
      BY Zenon, <2>1, TakeFrame
    <2>3. subs' = subs /\ pending_subs' = pending_subs
      BY <1>9 DEF CommandUnsub, CommandRemoveCallback, keptvars, Absent
    <2>4. PICK c \in Callers : Establishes(c)
      BY <1>1, <2>3
    <2>5. Queued(c) => Queued(c)'
      <3>1. [ty |-> "Subscribe", who |-> c] # Head(cmd_queue)
        BY <2>2
      <3>2. \A x : x # Head(cmd_queue) /\ x \in Elems(cmd_queue) => x \in Elems(cmd_queue')
        BY Zenon, <2>2
      <3> QED BY Zenon, <3>1, <3>2, InElems, InElemsNext
    <2>6. Establishes(c)'
      BY Zenon, <2>2, <2>3, <2>4, <2>5 DEF Establishes, Requested
    <2> QED BY Zenon, <2>6
  <1> QED BY Zenon, <1>3, <1>4, <1>5, <1>6, <1>7, <1>8, <1>9, StepKinds

-----------------------------------------------------------------------------
(* The entry stays in the map, and the futures that sleep in its list.     *)

Calm == Undisturbed /\ "refused" \notin answered

\* What a step can do to the entry as long as the callers are not disturbed.
LEMMA CalmStep ==
    ASSUME Inv, Recorded, [Next]_vars, Calm'
    PROVE  /\ Calm
           /\ \/ subs' = subs /\ call' = call /\ waker_index' = waker_index /\ ready' = ready
              \/ /\ subs' = Existing /\ ready' = ready \cup Wakers(subs.wakers)
                 /\ call' = call /\ waker_index' = waker_index
              \/ \E c \in Callers : Look(c) \/ Send(c) \/ SendFails(c) \/ Poll(c) \/ Cancel(c) \/ RemoveCallback(c)
  <1>1. Calm /\ unsubs = 0 /\ unsubs' = unsubs /\ (task' = "running" \/ "stop" \notin Ends)
    BY Zenon, NotForgotten DEF Calm, Undisturbed
  <1>2. CASE Aside \/ Leaves
    BY Zenon, <1>1, <1>2 DEF Aside, Leaves
  <1>3. ASSUME NEW mine, NEW result, Acknowledged(mine, result)
        PROVE  \/ subs' = subs /\ call' = call /\ waker_index' = waker_index /\ ready' = ready
               \/ /\ subs' = Existing /\ ready' = ready \cup Wakers(subs.wakers)
                  /\ call' = call /\ waker_index' = waker_index
    BY <1>1, <1>3 DEF Acknowledged, Calm
  <1>4. ~Unsubscribe
    BY <1>1 DEF Unsubscribe
  <1>5. ~CommandUnsub
    <2>1. ASSUME Take("Immediate") PROVE FALSE
      BY <1>1, <2>1, TakeFrame DEF Recorded
    <2> QED BY Zenon, <2>1 DEF CommandUnsub
  <1>6. CASE CommandSubscribe \/ CommandRemoveCallback
    <2>1. subs' = subs /\ \E ty : Take(ty)
      BY Zenon, <1>6 DEF CommandSubscribe, CommandRemoveCallback
    <2> QED BY Zenon, <1>1, <2>1, TakeFrame
  <1> QED BY Zenon, <1>1, <1>2, <1>3, <1>4, <1>5, <1>6, StepKinds

Asks(c) == call[c] \in Waiting \cup {"ask"}

LEMMA EntryStaysStep ==
    ASSUME Inv, Recorded, EntryStays, [Next]_vars
    PROVE  EntryStays'
  <1> SUFFICES ASSUME Calm'
               PROVE  \A c \in Callers : call'[c] # "refused" /\ (Asks(c)' => subs'.st # "Absent")
    BY Zenon DEF EntryStays, Calm, Asks
  <1>1. Calm /\ \A c \in Callers : call[c] # "refused" /\ (Asks(c) => subs.st # "Absent")
    BY Zenon, CalmStep DEF EntryStays, Calm, Asks
  <1>2. CASE call' = call /\ (subs' = subs \/ subs' = Existing)
    BY <1>1, <1>2 DEF Existing, Asks
  <1>3. ASSUME NEW c \in Callers,
               Look(c) \/ Send(c) \/ SendFails(c) \/ Poll(c) \/ Cancel(c) \/ RemoveCallback(c)
        PROVE  \A d \in Callers : call'[d] # "refused" /\ (Asks(d)' => subs'.st # "Absent")
    <2>1. \A d \in Callers \ {c} : call'[d] = call[d]
      BY Zenon, <1>3, OneMoves
    <2>2. subs'.st = subs.st \/ subs'.st = "Pending"
      BY <1>3 DEF Look, Send, SendFails, Poll, Cancel, RemoveCallback, Pending, Inv, TypeOK, Entry
    <2>3. ASSUME NEW d \in Callers \ {c} PROVE call'[d] # "refused" /\ (Asks(d)' => subs'.st # "Absent")
      BY Zenon, <1>1, <2>1, <2>2 DEF Asks
    <2>4. CASE Look(c)
      <3>1. subs'.st # "Absent" /\ (Goto(c, "send") \/ Goto(c, "before") \/ Goto(c, "ask"))
        BY <2>4 DEF Look, Pending
      <3>2. call'[c] # "refused"
        BY <3>1, Gone
      <3> QED BY Zenon, <2>3, <3>1, <3>2
    <2>5. CASE Send(c)
      <3>1. subs' = subs /\ ((call[c] = "send" /\ Goto(c, "ok")) \/ (call[c] = "ask" /\ Goto(c, "after")))
        BY Zenon, <2>5 DEF Send
      <3>2. call'[c] # "refused" /\ (Asks(c)' => call[c] = "ask")
        BY <3>1, Gone DEF Asks, Waiting
      <3> QED BY Zenon, <1>1, <2>3, <3>1, <3>2 DEF Asks
    <2>6. CASE SendFails(c) \/ Cancel(c) \/ RemoveCallback(c)
      <3>1. Goto(c, "terminated") \/ Goto(c, "cancelled") \/ Goto(c, "panicked") \/ Goto(c, "removed")
        BY Zenon, <2>6 DEF SendFails, Cancel, RemoveCallback
      <3>2. call'[c] # "refused" /\ ~Asks(c)'
        BY <3>1, Gone DEF Asks, Waiting
      <3> QED BY <2>3, <3>2
    <2>7. CASE Poll(c)
      <3>1. subs.st # "Absent"
        BY <1>1, <2>7 DEF Poll, Asks
      <3>2. call' = call \/ Goto(c, "send") \/ Goto(c, "ok") \/ Goto(c, "panicked")
        BY <2>7, <3>1 DEF Poll
      <3>3. call'[c] # "refused"
        BY <1>1, <3>2, Gone
      <3> QED BY <2>2, <2>3, <3>1, <3>3
    <2> QED BY Zenon, <1>3, <2>4, <2>5, <2>6, <2>7
  <1> QED BY Zenon, <1>2, <1>3, CalmStep

\* A future that is known by its place in the list.
Placed(c) ==
    /\ call[c] # "panicked"
    /\ waker_index[c] # 0 => subs.st # "Absent" /\ (subs.st = "Pending" => InList(c))
    /\ call[c] \in Waiting /\ c \notin ready =>
           subs.st = "Pending" /\ InList(c) /\ subs.wakers[waker_index[c]] = c

Apart == \A c, d \in Callers : waker_index[c] # 0 /\ waker_index[d] = waker_index[c] => d = c

LEMMA ListedParts == Listed <=> (Calm => Apart /\ \A c \in Callers : Placed(c))
  BY DEF Listed, Calm, Apart, Placed

\* The steps of a caller that leave the entry and the lists alone.
LEMMA PlacedMoves ==
    ASSUME Inv, Apart, \A d \in Callers : Placed(d), NEW c \in Callers, NEW p, Goto(c, p),
           subs' = subs, waker_index' = waker_index, ready \subseteq ready' \cup {c},
           p # "panicked", p \in Waiting => c \in ready'
    PROVE  Apart' /\ \A d \in Callers : Placed(d)'
  <1>1. Apart'
    BY Zenon DEF Apart
  <1>2. call'[c] = p /\ \A d \in Callers \ {c} : call'[d] = call[d]
    BY Gone
  <1>3. ASSUME NEW d \in Callers PROVE Placed(d)'
    <2>1. Placed(d)
      BY Zenon
    <2>2. InList(d) => InList(d)'
      BY Zenon DEF InList
    <2>3. call'[d] \in Waiting /\ d \notin ready' => call[d] \in Waiting /\ d \notin ready
      BY <1>2
    <2>4. call'[d] # "panicked"
      BY Zenon, <1>2, <2>1 DEF Placed
    <2> QED BY Zenon, <2>1, <2>2, <2>3, <2>4 DEF Placed
  <1> QED BY Zenon, <1>1, <1>3

\* A future enters its waker, its own place in the list, or clears it.
LEMMA PlacedWrites ==
    ASSUME Inv, Apart, \A d \in Callers : Placed(d), NEW c \in Callers, NEW w \in {c, None},
           subs.st = "Pending", InList(c), subs' = [subs EXCEPT !.wakers[waker_index[c]] = w],
           waker_index' = waker_index, ready' \cup {c} = ready \cup {c},
           call'[c] # "panicked", call'[c] \in Waiting /\ c \notin ready' => w = c,
           \A d \in Callers \ {c} : call'[d] = call[d]
    PROVE  Apart' /\ \A d \in Callers : Placed(d)'
  <1>1. Apart'
    BY DEF Apart
  <1>2. subs \in Entry /\ subs.wakers \in Seq(Callers \cup {None}) /\ waker_index \in [Callers -> Nat]
    BY DEF Inv, TypeOK, Entry
  <1>3. waker_index[c] \in 1..Len(subs.wakers) /\ waker_index[c] # 0
    BY <1>2 DEF InList
  <1>4. /\ subs'.st = "Pending" /\ DOMAIN subs'.wakers = DOMAIN subs.wakers
        /\ subs'.wakers[waker_index[c]] = w
        /\ \A i \in DOMAIN subs.wakers : i # waker_index[c] => subs'.wakers[i] = subs.wakers[i]
    BY <1>2, <1>3 DEF Entry
  <1>5. ASSUME NEW d \in Callers PROVE InList(d) => InList(d)'
    BY <1>4 DEF InList
  <1>6. Placed(c)'
    BY <1>4, <1>5 DEF Placed
  <1>7. ASSUME NEW d \in Callers \ {c} PROVE Placed(d)'
    <2>1. Placed(d) /\ (InList(d) => InList(d)')
      BY <1>5
    <2>2. waker_index[d] # waker_index[c]
      BY <1>3 DEF Apart
    <2>3. InList(d) => subs'.wakers[waker_index[d]] = subs.wakers[waker_index[d]]
      BY Zenon, <1>4, <2>2 DEF InList
    <2> QED BY <1>4, <2>1, <2>3 DEF Placed
  <1> QED BY <1>1, <1>6, <1>7

\* A future enters the list.
LEMMA PlacedEnters ==
    ASSUME Inv, Apart, \A d \in Callers : Placed(d), NEW c \in Callers,
           subs.st = "Pending", waker_index[c] = 0,
           subs' = Pending(Append(subs.wakers, c)), call' = call, ready' = ready \ {c},
           waker_index' = [waker_index EXCEPT ![c] = Len(subs.wakers) + 1]
    PROVE  Apart' /\ \A d \in Callers : Placed(d)'
  <1> DEFINE n == Len(subs.wakers)
  <1>1. subs \in Entry /\ subs.wakers \in Seq(Callers \cup {None}) /\ waker_index \in [Callers -> Nat]
    BY Zenon DEF Inv, TypeOK, Entry
  <1>2. /\ n \in Nat /\ DOMAIN subs.wakers = 1..n /\ c \in Callers \cup {None}
        /\ waker_index'[c] = n + 1 /\ \A d \in Callers \ {c} : waker_index'[d] = waker_index[d]
    BY <1>1
  <1>3. /\ DOMAIN Append(subs.wakers, c) = 1..(n + 1) /\ Append(subs.wakers, c)[n + 1] = c
        /\ \A i \in 1..n : Append(subs.wakers, c)[i] = subs.wakers[i]
    BY <1>1, <1>2
  <1>4. subs'.st = "Pending" /\ subs'.wakers = Append(subs.wakers, c)
    BY Zenon DEF Pending
  <1>5. ASSUME NEW d \in Callers \ {c} PROVE waker_index[d] # 0 => waker_index[d] \in 1..n
    BY Zenon, <1>2 DEF Placed, InList
  <1>6. Apart'
    <2>1. \A d \in Callers \ {c} : waker_index'[d] # 0 => waker_index'[d] # n + 1
      BY <1>2, <1>5
    <2> QED BY <1>2, <2>1 DEF Apart
  <1>7. Placed(c)'
    <2>1. InList(c)' /\ subs'.wakers[waker_index'[c]] = c
      BY <1>2, <1>3, <1>4 DEF InList
    <2>2. call'[c] # "panicked"
      BY DEF Placed
    <2> QED BY Zenon, <1>4, <2>1, <2>2 DEF Placed
  <1>8. ASSUME NEW d \in Callers \ {c} PROVE Placed(d)'
    <2>1. Placed(d) /\ waker_index'[d] = waker_index[d]
      BY Zenon, <1>2
    <2>2. InList(d) => InList(d)' /\ subs'.wakers[waker_index'[d]] = subs.wakers[waker_index[d]]
      BY <1>2, <1>3, <1>4, <2>1 DEF InList
    <2> QED BY Zenon, <1>4, <2>1, <2>2 DEF Placed
  <1> QED BY Zenon, <1>6, <1>7, <1>8

\* A grant wakes everybody in the list.
LEMMA PlacedWoken ==
    ASSUME Inv, Apart, \A d \in Callers : Placed(d),
           subs' = Existing, ready' = ready \cup Wakers(subs.wakers),
           call' = call, waker_index' = waker_index
    PROVE  Apart' /\ \A d \in Callers : Placed(d)'
  <1>1. Apart'
    BY DEF Apart
  <1>2. ASSUME NEW d \in Callers PROVE Placed(d)'
    <2>1. Placed(d) /\ d # None
      BY Zenon, SubscribeAssumption
    <2>2. call[d] \in Waiting => d \in ready'
      BY Zenon, <2>1 DEF Placed, Wakers, InList
    <2>3. subs'.st = "Existing"
      BY Zenon DEF Existing
    <2> QED BY Zenon, <2>1, <2>2, <2>3 DEF Placed
  <1> QED BY <1>1, <1>2

LEMMA ListedStep ==
    ASSUME Inv, Recorded, EntryStays, Listed, [Next]_vars
    PROVE  Listed'
  <1> DEFINE Goal == Apart' /\ \A d \in Callers : Placed(d)'
  <1>1. SUFFICES ASSUME Calm' PROVE Goal
    BY Zenon DEF Listed, Calm, Apart, Placed
  <1>2. Calm /\ Apart /\ \A d \in Callers : Placed(d)
    BY Zenon, <1>1, CalmStep, ListedParts
  <1>3. CASE subs' = subs /\ call' = call /\ waker_index' = waker_index /\ ready' = ready
    BY Zenon, <1>2, <1>3 DEF Apart, Placed, InList
  <1>4. CASE /\ subs' = Existing /\ ready' = ready \cup Wakers(subs.wakers)
             /\ call' = call /\ waker_index' = waker_index
    BY <1>2, <1>4, PlacedWoken
  <1>5. ASSUME NEW c \in Callers, Look(c) PROVE Goal
    <2>1. waker_index' = waker_index
      BY Zenon, <1>5 DEF Look
    <2>2. CASE subs.st = "Absent"
      <3>1. subs' = Pending(<<>>) /\ ready' = ready /\ Goto(c, "ask")
        BY <1>5, <2>2 DEF Look
      <3>2. \A d \in Callers : waker_index[d] = 0 /\ call[d] \notin Waiting /\ call[d] # "panicked"
        BY Zenon, <1>2, <2>2 DEF Placed, EntryStays, Calm
      <3>3. \A d \in Callers : call'[d] \notin Waiting /\ call'[d] # "panicked"
        BY Zenon, <3>1, <3>2, Gone DEF Waiting
      <3>4. Apart'
        BY Zenon, <2>1, <1>2 DEF Apart
      <3> QED BY Zenon, <2>1, <3>2, <3>3, <3>4 DEF Placed
    <2>3. CASE subs.st # "Absent"
      <3>1. /\ subs' = subs
            /\ \/ ready' = ready /\ Goto(c, "send")
               \/ ready' = ready \cup {c} /\ Goto(c, "before")
        BY Zenon, <1>5, <2>3 DEF Look
      <3>2. CASE ready' = ready /\ Goto(c, "send")
        <4>1. "send" # "panicked" /\ "send" \notin Waiting
          BY Zenon DEF Waiting
        <4> QED BY <1>2, <2>1, <3>1, <3>2, <4>1, PlacedMoves
      <3>3. CASE ready' = ready \cup {c} /\ Goto(c, "before")
        BY Zenon, <1>2, <2>1, <3>1, <3>3, PlacedMoves
      <3> QED BY Zenon, <3>1, <3>2, <3>3
    <2> QED BY Zenon, <2>2, <2>3
  <1>6. ASSUME NEW c \in Callers, Send(c) PROVE Goal
    <2>1. subs' = subs /\ waker_index' = waker_index
      BY Zenon, <1>6 DEF Send
    <2>2. CASE Goto(c, "ok") /\ ready' = ready
      <3>1. "ok" # "panicked" /\ "ok" \notin Waiting
        BY Zenon DEF Waiting
      <3> QED BY <1>2, <2>1, <2>2, <3>1, PlacedMoves
    <2>3. CASE Goto(c, "after") /\ ready' = ready \cup {c}
      BY Zenon, <1>2, <2>1, <2>3, PlacedMoves
    <2> QED BY Zenon, <1>6, <2>2, <2>3 DEF Send
  <1>7. ASSUME NEW c \in Callers, SendFails(c) \/ RemoveCallback(c) PROVE Goal
    <2>1. /\ subs' = subs /\ waker_index' = waker_index /\ ready' = ready
          /\ \E p \in {"terminated", "removed"} : Goto(c, p)
      BY <1>7 DEF SendFails, RemoveCallback
    <2>2. \A p \in {"terminated", "removed"} : p # "panicked" /\ p \notin Waiting
      BY Zenon DEF Waiting
    <2> QED BY Zenon, <1>2, <2>1, <2>2, PlacedMoves
  <1>8. ASSUME NEW c \in Callers, Poll(c) PROVE Goal
    <2>1. ready' = ready \ {c} /\ call[c] \in Waiting /\ subs.st # "Absent"
      BY Zenon, <1>2, <1>8 DEF Poll, EntryStays, Calm
    <2>2. CASE subs.st = "Existing"
      <3>1. /\ subs' = subs /\ waker_index' = waker_index
            /\ \E p \in {"send", "ok"} : Goto(c, p)
        BY <1>8, <2>2 DEF Poll
      <3>2. \A p \in {"send", "ok"} : p # "panicked" /\ p \notin Waiting
        BY DEF Waiting
      <3> QED BY <1>2, <2>1, <3>1, <3>2, PlacedMoves
    <2>3. CASE subs.st = "Pending" /\ waker_index[c] = 0
      <3>1. ~InList(c)
        BY <2>3 DEF InList, Inv, TypeOK, Entry
      <3>2. /\ subs' = Pending(Append(subs.wakers, c)) /\ call' = call
            /\ waker_index' = [waker_index EXCEPT ![c] = Len(subs.wakers) + 1]
        BY <1>8, <2>3, <3>1 DEF Poll
      <3> QED BY Zenon, <1>2, <2>1, <2>3, <3>2, PlacedEnters
    <2>4. CASE subs.st = "Pending" /\ waker_index[c] # 0
      <3>1. InList(c)
        BY <1>2, <2>4 DEF Placed
      <3>2. /\ subs' = [subs EXCEPT !.wakers[waker_index[c]] = c] /\ call' = call
            /\ waker_index' = waker_index
        BY <1>8, <2>4, <3>1 DEF Poll
      <3>3. call'[c] # "panicked" /\ c \in {c, None} /\ ready' \cup {c} = ready \cup {c}
        BY Zenon, <1>2, <2>1, <3>2 DEF Placed
      <3> QED BY Zenon, <1>2, <2>4, <3>1, <3>2, <3>3, PlacedWrites
    <2>5. subs.st \in {"Absent", "Existing", "Pending"}
      BY DEF Inv, TypeOK, Entry, Entries
    <2> QED BY <2>1, <2>2, <2>3, <2>4, <2>5
  <1>9. ASSUME NEW c \in Callers, Cancel(c) PROVE Goal
    <2>1. waker_index' = waker_index /\ ready' = ready
      BY Zenon, <1>9 DEF Cancel
    <2>2. subs.st = "Pending" /\ waker_index[c] # 0 => InList(c)
      BY <1>2 DEF Placed
    <2>3. Goto(c, "cancelled")
      BY Zenon, <1>9, <2>2 DEF Cancel
    <2>4. call'[c] = "cancelled" /\ \A d \in Callers \ {c} : call'[d] = call[d]
      BY <2>3, Gone
    <2>5. "cancelled" # "panicked" /\ "cancelled" \notin Waiting
      BY Zenon DEF Waiting
    <2>6. CASE subs' = subs
      BY <1>2, <2>1, <2>3, <2>5, <2>6, PlacedMoves
    <2>7. CASE /\ subs.st = "Pending" /\ InList(c)
               /\ subs' = [subs EXCEPT !.wakers[waker_index[c]] = None]
      BY Zenon, <1>2, <2>1, <2>4, <2>5, <2>7, PlacedWrites
    <2> QED BY <1>9, <2>6, <2>7 DEF Cancel
  <1> QED BY <1>1, <1>3, <1>4, <1>5, <1>6, <1>7, <1>8, <1>9, CalmStep

-----------------------------------------------------------------------------
(* The theorems about callers that are not disturbed.                      *)

CalmInv == Recorded /\ OneRequest /\ Agree /\ Established /\ EntryStays /\ Listed

LEMMA CalmInit == Init => CalmInv
  <1> SUFFICES ASSUME Init PROVE CalmInv
    BY Zenon
  <1>1. Recorded
    BY DEF Init, Recorded, Elems
  <1>2. OneRequest
    <2>1. Asking
      BY DEF Init, Asking, Absent, NoneAsks, NoneQueued, OneAsks, OneQueued, OneRequested
    <2> QED BY Zenon, <2>1 DEF Init, OneRequest
  <1>3. Agree /\ Established
    BY Zenon DEF Init, Agree, Established, PendingMeansEstablishing, Absent
  <1>4. EntryStays
    BY Zenon DEF Init, EntryStays, Waiting
  <1>5. Listed
    BY DEF Init, Listed, Waiting
  <1> QED BY <1>1, <1>2, <1>3, <1>4, <1>5 DEF CalmInv

\* The invariant of the undisturbed callers holds in every state.
THEOREM CalmInvHolds == Spec => []CalmInv
  <1>1. Inv /\ CalmInv /\ [Next]_vars => CalmInv'
    BY RecordedStep, OneRequestStep, AgreeStep, EstablishedStep, EntryStaysStep, ListedStep DEF CalmInv
  <1> QED BY <1>1, CalmInit, InvHolds, PTL DEF Spec

\* Until unsubscribe is called, no SUBSCRIBE command is processed while the
\* subscription is pending, whatever the broker answers and whichever calls
\* are cancelled: the comment in transceiver/mod.rs is right that far.
THEOREM NeverWhilePendingHolds == Spec => [](unsubs = 0 => NeverWhilePending)
  <1>1. Inv /\ CalmInv => (unsubs = 0 => NeverWhilePending)
    <2> SUFFICES ASSUME Inv, OneRequest, unsubs = 0, task = "running", cmd_queue # <<>>,
                        Head(cmd_queue).ty = "Subscribe", ~subscribed
                 PROVE  pending_subs = {}
      BY Zenon DEF NeverWhilePending, CalmInv
    <2>1. cmd_queue \in Seq(Command)
      BY DEF Inv, TypeOK
    <2>2. ~NoneQueued
      BY <2>1 DEF NoneQueued
    <2> QED BY <2>2 DEF OneRequest, Asking
  <1> QED BY <1>1, InvHolds, CalmInvHolds, PTL

\* As long as no call is cancelled, the broker puts a result in every SUBACK,
\* and it has refused nothing or nobody has unsubscribed, a subscription whose
\* status is Pending is being established.
THEOREM PendingMeansEstablishingHolds == Spec => [](Steady => PendingMeansEstablishing)
  <1>1. CalmInv => (Steady => PendingMeansEstablishing)
    BY DEF CalmInv, Established
  <1> QED BY <1>1, CalmInvHolds, PTL

\* As long as nobody has unsubscribed and the task has not drained the map,
\* subscribe returns RefusedByBroker only if the broker has refused.
THEOREM RefusedMeansRefusedHolds == Spec => []RefusedMeansRefused
  <1>1. CalmInv => RefusedMeansRefused
    BY DEF CalmInv, EntryStays, RefusedMeansRefused
  <1> QED BY <1>1, CalmInvHolds, PTL

\* Under the same conditions, and as long as the broker has refused nothing, a
\* future that sleeps has its waker in the list and none indexes it past its
\* end, whichever calls are cancelled.
THEOREM NoLostWakeupHolds == Spec => [](Undisturbed /\ "refused" \notin answered => NoLostWakeup)
  <1>1. Inv /\ CalmInv => (Undisturbed /\ "refused" \notin answered => NoLostWakeup)
    <2> SUFFICES ASSUME Inv, Listed, Calm, NEW c \in Callers
                 PROVE  /\ call[c] # "panicked"
                        /\ call[c] \in Waiting /\ c \notin ready => c \in Wakers(subs.wakers) \cup wakers
      BY DEF NoLostWakeup, CalmInv, Calm
    <2>1. Placed(c) /\ c # None
      BY ListedParts, SubscribeAssumption
    <2> QED BY Zenon, <2>1 DEF Placed, Wakers, InList
  <1> QED BY <1>1, InvHolds, CalmInvHolds, PTL

=============================================================================
