------------------------ MODULE PublishFuturesProofs ------------------------
(***************************************************************************)
(* For every set of callers, every assignment of callers to notifier maps  *)
(* and every capacity of the command queue: PublishFutures is type         *)
(* correct, a call that returns Ok has had its event, and no wake-up is    *)
(* lost.                                                                   *)
(***************************************************************************)
EXTENDS PublishFutures, TLAPS

\* The meaning of an absent entry, for a future that is still alive.
AbsentMeansTriggered ==
    \A c \in Callers : call[c] \in Active /\ notifier[c] = "absent" => c \in triggered

IInv == AbsentMeansTriggered /\ OkMeansTriggered /\ NoLostWakeup

-----------------------------------------------------------------------------

\* The types of the variables other than cmd_queue.
FieldType ==
    /\ notifier \in [Callers -> {"absent", "WithoutWaker", "WithWaker", "Failed"}]
    /\ call \in [Callers -> {"idle"} \cup Active \cup Done]
    /\ woken \subseteq Callers
    /\ in_flight \subseteq Callers
    /\ task \in {"running", "disconnecting", "waking", "returned", "dropped"} \cup Maps
    /\ wakers \subseteq Callers
    /\ triggered \subseteq Callers

\* The command queue never holds more than QueueCap commands.
QueueType == cmd_queue \in Seq(Callers) /\ Len(cmd_queue) <= QueueCap

\* TypeOK is the conjunction of the two.
LEMMA TypeSplit == TypeOK <=> FieldType /\ QueueType
  BY DEF TypeOK, FieldType, QueueType

\* A step of a caller or of the task keeps the types.
LEMMA FieldStep == TypeOK /\ [Next]_vars => FieldType'
  <1> SUFFICES ASSUME TypeOK, [Next]_vars PROVE FieldType'
    OBVIOUS
  <1> USE TypeSplit DEF FieldType, Active, Done, Maps, callervars, taskvars
  <1>1. ASSUME NEW c \in Callers, CallerStep(c) PROVE FieldType'
    <2>1. CASE Register(c) BY <2>1 DEF Register
    <2>2. CASE Send(c) BY <2>2 DEF Send
    <2>3. CASE SendFails(c) BY <2>3 DEF SendFails
    <2>4. CASE Poll(c) BY <2>4 DEF Poll
    <2>5. CASE Cancel(c) BY <2>5 DEF Cancel
    <2> QED BY <1>1, <2>1, <2>2, <2>3, <2>4, <2>5 DEF CallerStep
  <1>2. CASE TakeCommand
    <2>1. Head(cmd_queue) \in Callers
      BY <1>2 DEF TakeCommand, QueueType
    <2> QED BY <1>2, <2>1 DEF TakeCommand
  <1>3. ASSUME NEW c \in Callers, Trigger(c) PROVE FieldType'
    BY <1>3 DEF Trigger
  <1>4. ASSUME NEW c \in Callers, WakeOne(c) PROVE FieldType'
    BY <1>4 DEF WakeOne
  <1>5. ASSUME NEW how, LoopEnds(how) PROVE FieldType'
    BY <1>5 DEF LoopEnds
  <1>6. CASE DisconnectSequence BY <1>6 DEF DisconnectSequence
  <1>7. ASSUME NEW map \in Maps, fail_notify_map(map) PROVE FieldType'
    BY <1>7 DEF fail_notify_map, AfterMap
  <1>8. CASE WakeEnds BY <1>8 DEF WakeEnds
  <1>9. CASE TransceiverDropped BY <1>9 DEF TransceiverDropped
  <1>10. CASE UNCHANGED vars BY <1>10 DEF vars
  <1> QED
    BY <1>1, <1>2, <1>3, <1>4, <1>5, <1>6, <1>7, <1>8, <1>9, <1>10 DEF Next, TaskStep

\* Only Send, TakeCommand and TransceiverDropped touch the command queue.
LEMMA QueueStep == TypeOK /\ [Next]_vars => QueueType'
  <1> SUFFICES ASSUME TypeOK, [Next]_vars PROVE QueueType'
    OBVIOUS
  <1>0. cmd_queue \in Seq(Callers) /\ Len(cmd_queue) <= QueueCap /\ QueueCap \in Nat \ {0}
    BY CallersAssumption DEF TypeOK
  <1>1. CASE UNCHANGED cmd_queue
    BY <1>0, <1>1 DEF QueueType
  <1>2. ASSUME NEW c \in Callers, Send(c) PROVE QueueType'
    <2>1. cmd_queue' = Append(cmd_queue, c) /\ Len(cmd_queue) < QueueCap
      BY <1>2 DEF Send
    <2>2. Len(cmd_queue) \in Nat /\ Len(cmd_queue') = Len(cmd_queue) + 1
      BY <1>0, <2>1
    <2> QED BY <1>0, <2>1, <2>2 DEF QueueType
  <1>3. CASE TakeCommand
    <2>1. cmd_queue # <<>> /\ cmd_queue' = Tail(cmd_queue)
      BY <1>3 DEF TakeCommand
    <2>2. Len(cmd_queue) \in Nat /\ Len(cmd_queue') = Len(cmd_queue) - 1
      BY <1>0, <2>1
    <2>3. cmd_queue' \in Seq(Callers)
      BY <1>0, <2>1
    <2> QED BY <1>0, <2>2, <2>3 DEF QueueType
  <1>4. CASE TransceiverDropped
    <2>1. cmd_queue' = <<>>
      BY <1>4 DEF TransceiverDropped
    <2>2. <<>> \in Seq(Callers) /\ Len(<<>>) = 0
      OBVIOUS
    <2> QED BY <1>0, <2>1, <2>2 DEF QueueType
  <1>5. \/ UNCHANGED cmd_queue
        \/ \E c \in Callers : Send(c)
        \/ TakeCommand
        \/ TransceiverDropped
    BY DEF Next, CallerStep, TaskStep, Register, SendFails, Poll, Cancel, Trigger, WakeOne,
           LoopEnds, DisconnectSequence, fail_notify_map, WakeEnds, vars
  <1> QED BY <1>1, <1>2, <1>3, <1>4, <1>5

\* Type correctness for every set of callers and every queue capacity.
THEOREM TypeCorrect == Spec => []TypeOK
  <1>1. Init => TypeOK
    <2> SUFFICES ASSUME Init PROVE TypeOK
      OBVIOUS
    <2>1. FieldType
      BY DEF Init, FieldType
    <2>2. <<>> \in Seq(Callers) /\ Len(<<>>) = 0
      OBVIOUS
    <2>3. QueueType
      BY <2>2, CallersAssumption DEF Init, QueueType
    <2> QED BY <2>1, <2>3, TypeSplit
  <1>2. TypeOK /\ [Next]_vars => TypeOK'
    BY FieldStep, QueueStep DEF TypeOK, FieldType, QueueType
  <1> QED BY <1>1, <1>2, PTL DEF Spec

-----------------------------------------------------------------------------

\* The inductive step: one case per action.
LEMMA InvStep == TypeOK /\ IInv /\ [Next]_vars => IInv'
  <1> SUFFICES ASSUME TypeOK, IInv, [Next]_vars PROVE IInv'
    OBVIOUS
  <1> USE DEF IInv, AbsentMeansTriggered, OkMeansTriggered, NoLostWakeup, Active,
              callervars, taskvars
  <1>0. /\ notifier \in [Callers -> {"absent", "WithoutWaker", "WithWaker", "Failed"}]
        /\ call \in [Callers -> {"idle"} \cup Active \cup Done]
    BY DEF TypeOK
  <1>1. ASSUME NEW c \in Callers, CallerStep(c) PROVE IInv'
    <2>1. CASE Register(c) BY <1>0, <2>1 DEF Register
    <2>2. CASE Send(c) BY <1>0, <2>2 DEF Send
    <2>3. CASE SendFails(c) BY <1>0, <2>3 DEF SendFails
    <2>4. CASE Poll(c) BY <1>0, <2>4 DEF Poll
    <2>5. CASE Cancel(c) BY <1>0, <2>5 DEF Cancel
    <2> QED BY <1>1, <2>1, <2>2, <2>3, <2>4, <2>5 DEF CallerStep
  <1>2. CASE TakeCommand BY <1>2 DEF TakeCommand
  <1>3. ASSUME NEW c \in Callers, Trigger(c) PROVE IInv'
    BY <1>0, <1>3 DEF Trigger
  <1>4. ASSUME NEW c \in Callers, WakeOne(c) PROVE IInv'
    BY <1>4 DEF WakeOne
  <1>5. ASSUME NEW how, LoopEnds(how) PROVE IInv'
    BY <1>5 DEF LoopEnds
  <1>6. CASE DisconnectSequence BY <1>6 DEF DisconnectSequence
  <1>7. ASSUME NEW map \in Maps, fail_notify_map(map) PROVE IInv'
    BY <1>0, <1>7 DEF fail_notify_map
  <1>8. CASE WakeEnds BY <1>8 DEF WakeEnds
  <1>9. CASE TransceiverDropped BY <1>9 DEF TransceiverDropped
  <1>10. CASE UNCHANGED vars BY <1>10 DEF vars
  <1> QED
    BY <1>1, <1>2, <1>3, <1>4, <1>5, <1>6, <1>7, <1>8, <1>9, <1>10 DEF Next, TaskStep

\* The inductive invariant holds of every behaviour.
THEOREM InvCorrect == Spec => []IInv
  <1>1. Init => IInv
    BY DEF Init, IInv, AbsentMeansTriggered, OkMeansTriggered, NoLostWakeup, Active
  <1> QED BY <1>1, TypeCorrect, InvStep, PTL DEF Spec

\* A call of publish_qos_1 or publish_qos_2 returns Ok only after the task
\* has processed the packet that it waits for.
THEOREM OkCorrect == Spec => []OkMeansTriggered
  <1>1. IInv => OkMeansTriggered
    BY DEF IInv
  <1> QED BY <1>1, InvCorrect, PTL

\* poll, the packet handlers and fail_notify_map lose no wake-up.
THEOREM WakeupCorrect == Spec => []NoLostWakeup
  <1>1. IInv => NoLostWakeup
    BY DEF IInv
  <1> QED BY <1>1, InvCorrect, PTL

=============================================================================
