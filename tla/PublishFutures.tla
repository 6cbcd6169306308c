--------------------------- MODULE PublishFutures ---------------------------
(***************************************************************************)
(* The futures behind publish_qos_1 and publish_qos_2 (src/lib.rs,         *)
(* src/futures.rs), the notifier maps they share with the transceiver task *)
(* (src/shared.rs) and the end of that task (task and fail_notify_map,     *)
(* src/transceiver/mod.rs).                                                *)
(*                                                                         *)
(* A caller publishes one message and waits for one event.  It runs on any *)
(* thread, so that its steps interleave with those of the task at every    *)
(* lock and every await.  Each caller has a packet id of its own: what     *)
(* happens when ids wrap around is the subject of PublishFlow.  How the    *)
(* broker comes to send the awaited packet is the subject of PublishFlow   *)
(* too: here it may come for any command that the task has taken.          *)
(***************************************************************************)
EXTENDS Naturals, Sequences, FiniteSets

CONSTANTS
    Callers,
    Await,          \* Await[c]: the map c registers in, "ack", "rec" or "comp"
    QueueCap,       \* capacity of the command queue, 1024 in the code
    Ends            \* how the task loop may end

Maps == {"ack", "rec", "comp"}

ASSUME CallersAssumption ==
    /\ Await \in [Callers -> Maps]
    /\ QueueCap \in Nat \ {0}
    /\ Ends \subseteq {"closed", "stop"}

VARIABLES
    notifier,       \* the entry of each caller's packet id
    call,           \* where each caller is
    woken,          \* callers whose waker was woken since their last poll
    cmd_queue,
    in_flight,      \* commands taken, whose event has not been triggered
    task,           \* where the task is
    wakers,         \* wakers the ending task has collected
    triggered       \* history: callers whose event was triggered

vars == <<notifier, call, woken, cmd_queue, in_flight, task, wakers, triggered>>
callervars == <<notifier, call, woken>>
taskvars == <<in_flight, task, wakers, triggered>>

Done == {"ok", "terminated", "cancelled"}
Active == {"sending", "polling", "parked"}

Init ==
    /\ notifier = [c \in Callers |-> "absent"]
    /\ call = [c \in Callers |-> "idle"]
    /\ woken = {}
    /\ cmd_queue = <<>>
    /\ in_flight = {}
    /\ task = "running"
    /\ wakers = {}
    /\ triggered = {}

\* The receiver of the command queue goes away with the Transceiver.
closed == task = "dropped"

-----------------------------------------------------------------------------
(* A caller.                                                               *)

\* make_publish_cmd and PublishFuture::new.
Register(c) ==
    /\ call[c] = "idle"
    /\ call' = [call EXCEPT ![c] = "sending"]
    /\ notifier' = [notifier EXCEPT ![c] = "WithoutWaker"]
    /\ UNCHANGED <<woken, cmd_queue, taskvars>>

\* cmd_queue.send().await, which waits for a free spot.
Send(c) ==
    /\ call[c] = "sending"
    /\ ~closed
    /\ Len(cmd_queue) < QueueCap
    /\ cmd_queue' = Append(cmd_queue, c)
    /\ call' = [call EXCEPT ![c] = "polling"]
    /\ UNCHANGED <<notifier, woken, taskvars>>

\* The future is dropped without having been polled.
SendFails(c) ==
    /\ call[c] = "sending"
    /\ closed
    /\ call' = [call EXCEPT ![c] = "terminated"]
    /\ notifier' = [notifier EXCEPT ![c] = "absent"]
    /\ UNCHANGED <<woken, cmd_queue, taskvars>>

\* Fault: the waker is not stored.
PollKeepsEntry(c) ==
    /\ call[c] \in {"polling", "parked"}
    /\ call' = [call EXCEPT ![c] = CASE notifier[c] = "Failed" -> "terminated"
                                     [] notifier[c] = "absent" -> "ok"
                                     [] OTHER -> "parked"]
    /\ woken' = woken \ {c}
    /\ UNCHANGED <<notifier, cmd_queue, taskvars>>

\* PublishFuture::poll.  A parked future may be polled without having been
\* woken.  The entry is removed by the event, and kept when it says Failed.
Poll(c) ==
    /\ call[c] \in {"polling", "parked"}
    /\ \/ /\ notifier[c] = "Failed"
          /\ call' = [call EXCEPT ![c] = "terminated"]
          /\ UNCHANGED notifier
       \/ /\ notifier[c] = "absent"
          /\ call' = [call EXCEPT ![c] = "ok"]
          /\ UNCHANGED notifier
       \/ /\ notifier[c] \in {"WithoutWaker", "WithWaker"}
          /\ call' = [call EXCEPT ![c] = "parked"]
          /\ notifier' = [notifier EXCEPT ![c] = "WithWaker"]
    /\ woken' = woken \ {c}
    /\ UNCHANGED <<cmd_queue, taskvars>>

\* The owner drops the call at one of its awaits.  The command stays where it
\* is.
Cancel(c) ==
    /\ call[c] \in Active
    /\ call' = [call EXCEPT ![c] = "cancelled"]
    /\ notifier' = [notifier EXCEPT ![c] = "absent"]
    /\ UNCHANGED <<woken, cmd_queue, taskvars>>

-----------------------------------------------------------------------------
(* The task.                                                               *)

TakeCommand ==
    /\ task = "running"
    /\ cmd_queue # <<>>
    /\ in_flight' = in_flight \cup {Head(cmd_queue)}
    /\ cmd_queue' = Tail(cmd_queue)
    /\ UNCHANGED <<callervars, task, wakers, triggered>>

\* The awaited packet is processed: the entry is removed, and its waker woken
\* if it has one.
Trigger(c) ==
    /\ task = "running"
    /\ c \in in_flight
    /\ in_flight' = in_flight \ {c}
    /\ triggered' = triggered \cup {c}
    /\ woken' = IF notifier[c] = "WithWaker" THEN woken \cup {c} ELSE woken
    /\ notifier' = [notifier EXCEPT ![c] = "absent"]
    /\ UNCHANGED <<call, cmd_queue, task, wakers>>

\* The loop ends: the peer has closed the connection, or there was a
\* Disconnect command or an I/O error.
LoopEnds(how) ==
    /\ task = "running"
    /\ how \in Ends
    /\ task' = IF how = "closed" THEN "returned" ELSE "disconnecting"
    /\ UNCHANGED <<callervars, cmd_queue, in_flight, wakers, triggered>>

DisconnectSequence ==
    /\ task = "disconnecting"
    /\ task' = "ack"
    /\ UNCHANGED <<callervars, cmd_queue, in_flight, wakers, triggered>>

\* Fault: the third map is forgotten.
AfterMapShort == [ack |-> "rec", rec |-> "waking", comp |-> "waking"]

AfterMap == [ack |-> "rec", rec |-> "comp", comp |-> "waking"]

\* Fault: the map is drained, like the map of subscriptions.
DrainMap(map) ==
    /\ task = map
    /\ notifier' = [c \in Callers |-> IF Await[c] = map THEN "absent" ELSE notifier[c]]
    /\ wakers' = wakers \cup {c \in Callers : Await[c] = map /\ notifier[c] = "WithWaker"}
    /\ task' = AfterMap[map]
    /\ UNCHANGED <<call, woken, cmd_queue, in_flight, triggered>>

\* One map after the other, each under its lock.
fail_notify_map(map) ==
    /\ task = map
    /\ notifier' = [c \in Callers |-> IF Await[c] = map /\ notifier[c] # "absent"
                                      THEN "Failed" ELSE notifier[c]]
    /\ wakers' = wakers \cup {c \in Callers : Await[c] = map /\ notifier[c] = "WithWaker"}
    /\ task' = AfterMap[map]
    /\ UNCHANGED <<call, woken, cmd_queue, in_flight, triggered>>

WakeOne(c) ==
    /\ task = "waking"
    /\ c \in wakers
    /\ wakers' = wakers \ {c}
    /\ woken' = woken \cup {c}
    /\ UNCHANGED <<notifier, call, cmd_queue, in_flight, task, triggered>>

WakeEnds ==
    /\ task = "waking"
    /\ wakers = {}
    /\ task' = "returned"
    /\ UNCHANGED <<callervars, cmd_queue, in_flight, wakers, triggered>>

\* The Transceiver is dropped, and the queued commands with it.
TransceiverDropped ==
    /\ task = "returned"
    /\ task' = "dropped"
    /\ cmd_queue' = <<>>
    /\ in_flight' = {}
    /\ UNCHANGED <<callervars, wakers, triggered>>

-----------------------------------------------------------------------------

CallerStep(c) == Register(c) \/ Send(c) \/ SendFails(c) \/ Poll(c) \/ Cancel(c)

TaskStep ==
    \/ TakeCommand
    \/ \E c \in Callers : Trigger(c) \/ WakeOne(c)
    \/ \E how \in {"closed", "stop"} : LoopEnds(how)
    \/ DisconnectSequence
    \/ \E map \in Maps : fail_notify_map(map)
    \/ WakeEnds
    \/ TransceiverDropped

Next == (\E c \in Callers : CallerStep(c)) \/ TaskStep

Spec == Init /\ [][Next]_vars

\* What a caller does without anyone's help: it sends when there is room, and
\* is polled for the first time and when it has been woken.
Proceeds(c) == Send(c) \/ SendFails(c) \/ ((call[c] = "polling" \/ c \in woken) /\ Poll(c))

\* The executor runs what is ready.  Nothing obliges the broker to answer,
\* the loop to end or a caller to give up.  A caller that waits for a spot in
\* the queue gets one before those that came after it.
FairSpec ==
    /\ Spec
    /\ \A c \in Callers : SF_vars(Proceeds(c))
    /\ WF_vars(TakeCommand) /\ WF_vars(DisconnectSequence)
    /\ \A map \in Maps : WF_vars(fail_notify_map(map))
    /\ \A c \in Callers : WF_vars(WakeOne(c))
    /\ WF_vars(WakeEnds) /\ WF_vars(TransceiverDropped)

-----------------------------------------------------------------------------
(* Properties.                                                             *)

\* Type correctness of the futures, the notifier maps and the command queue,
\* which never holds more than its capacity (mpsc::channel in Client::connect).
TypeOK ==
    /\ notifier \in [Callers -> {"absent", "WithoutWaker", "WithWaker", "Failed"}]
    /\ call \in [Callers -> {"idle"} \cup Active \cup Done]
    /\ woken \subseteq Callers
    /\ cmd_queue \in Seq(Callers) /\ Len(cmd_queue) <= QueueCap
    /\ in_flight \subseteq Callers
    /\ task \in {"running", "disconnecting", "waking", "returned", "dropped"} \cup Maps
    /\ wakers \subseteq Callers
    /\ triggered \subseteq Callers

\* A call returns Ok only if the awaited packet was processed: an entry that
\* is absent from a notifier map means that the event was triggered, for
\* nobody else removes the entry of a future that is still alive.
OkMeansTriggered == \A c \in Callers : call[c] = "ok" => c \in triggered

\* No wake-up is lost between poll, the handlers that remove entries and
\* fail_notify_map: a future that sleeps has its waker where somebody will
\* find it.
NoLostWakeup ==
    \A c \in Callers : call[c] = "parked" /\ c \notin woken
        => notifier[c] = "WithWaker" \/ c \in wakers

\* A shutdown that goes through fail_notify_map releases every caller that
\* had registered when it began.
ShutdownReleases ==
    \A c \in Callers :
        (task = "disconnecting" /\ call[c] \in Active) ~> call[c] \in Done

\* No future is stuck on a task that has ended ("ensures that no future is
\* stuck on this task").
NoFutureStuck ==
    \A c \in Callers : (task = "dropped" /\ call[c] = "parked") ~> call[c] # "parked"

=============================================================================
