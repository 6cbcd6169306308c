------------------------- MODULE TransceiverProofs -------------------------
(***************************************************************************)
(* Machine-checked proofs about Transceiver, for all sets of packets, all  *)
(* packet sizes, ping intervals and bounds.                                *)
(***************************************************************************)
EXTENDS Transceiver, Integers, TLAPS

\* Where the task can be inside a handler, and what tx_pkt is there.
ControlInv ==
    /\ pc = "write" => tx_pkt # None /\ phase \in {"run", "flush"}
    /\ pc = "pop" => tx_pkt = None /\ phase \in {"run", "flush"} /\ quiet = 0
    /\ pc = "alarm" => phase = "run"
    /\ phase = "boot" => tx_pkt # None /\ pc = "select"

\* The slices written to the transport are sequences of bytes.
LEMMA SliceType ==
    ASSUME NEW p \in Packets, NEW dup \in BOOLEAN, NEW from \in Nat, NEW to \in Nat,
           from <= to
    PROVE  Slice(p, dup, from, to) \in Seq(Bytes)
<1>1. to - from \in Nat
  OBVIOUS
<1>2. \A i \in 1..(to - from) : from + i \in Nat \ {0}
  OBVIOUS
<1>3. \A i \in 1..(to - from) :
        [pkt |-> p, idx |-> from + i, dup |-> dup /\ from + i = 1] \in Bytes
  BY <1>2, Zenon DEF Bytes
<1>4. QED
  BY <1>1, <1>3 DEF Slice

\* What one call of a write does to the variables it touches.
LEMMA TransmitType ==
    ASSUME TypeOK, NEW p \in Packets, NEW dup \in BOOLEAN, NEW from \in Nat,
           NEW to \in Nat, from <= to, Transmit(p, dup, from, to)
    PROVE  /\ wire' \in Seq(Bytes)
           /\ tx_pkt' \in TxPacket \cup {None}
           /\ quiet' \in 0..MaxQuiet
<1>1. wire' \in Seq(Bytes)
  <2>1. Slice(p, dup, from, to) \in Seq(Bytes)
    BY SliceType
  <2>2. wire \in Seq(Bytes) /\ wire' = wire \o Slice(p, dup, from, to)
    BY Zenon DEF Transmit, TypeOK
  <2>3. QED
    BY <2>1, <2>2
<1>2. tx_pkt' \in TxPacket \cup {None}
  BY DEF Transmit, TxPacket
<1>3. quiet' \in 0..MaxQuiet
  <2>1. quiet \in 0..MaxQuiet
    BY Zenon DEF TypeOK
  <2>2. quiet' = 0 \/ quiet' = quiet
    BY DEF Transmit
  <2>3. 0 \in 0..MaxQuiet
    BY BoundsAssumption
  <2>4. QED
    BY <2>1, <2>2, <2>3
<1>4. QED
  BY <1>1, <1>2, <1>3

\* Types of what try_send_packet leaves.
LEMMA TrySendType ==
    ASSUME TypeOK, NEW p \in Packets, NEW dup \in BOOLEAN, try_send_packet(p, dup)
    PROVE  /\ wire' \in Seq(Bytes)
           /\ tx_pkt' \in TxPacket \cup {None}
           /\ quiet' \in 0..MaxQuiet
<1>1. PICK n \in 0..Size[p] : Transmit(p, dup, 0, n)
  BY DEF try_send_packet
<1>2. n \in Nat /\ 0 <= n
  BY SizeAssumption
<1>3. QED
  BY <1>1, <1>2, TransmitType

\* A call of queue_internal_packet changes only the transmit path.
LEMMA QueueType ==
    ASSUME TypeOK, NEW p \in Packets, NEW dup \in BOOLEAN,
           queue_internal_packet(p, dup)
    PROVE  /\ wire' \in Seq(Bytes)
           /\ tx_pkt' \in TxPacket \cup {None}
           /\ quiet' \in 0..MaxQuiet
           /\ internal_pkt_queue' \in Seq(InternalPacket)
           /\ accepted' \in Seq(InternalPacket)
<1> DEFINE e == [pkt |-> p, set_dup |-> dup]
<1>0. /\ e \in InternalPacket
      /\ accepted \in Seq(InternalPacket) /\ internal_pkt_queue \in Seq(InternalPacket)
      /\ wire \in Seq(Bytes) /\ tx_pkt \in TxPacket \cup {None} /\ quiet \in 0..MaxQuiet
  BY Zenon DEF InternalPacket, TypeOK
<1>a. accepted' = Append(accepted, e)
  BY DEF queue_internal_packet
<1> HIDE DEF e
<1>1. accepted' \in Seq(InternalPacket)
  BY <1>0, <1>a
<1>2. CASE try_send_packet(p, dup) /\ UNCHANGED internal_pkt_queue
  BY <1>0, <1>1, <1>2, TrySendType
<1>3. CASE /\ internal_pkt_queue' = Append(internal_pkt_queue, e)
           /\ UNCHANGED <<tx_pkt, wire, quiet>>
  BY <1>0, <1>1, <1>3
<1>4. QED
  BY <1>2, <1>3 DEF queue_internal_packet, e

\* A handler that calls it either does so or ends with an I/O error.
LEMMA QueueThenType ==
    ASSUME TypeOK, NEW p \in Packets, NEW dup \in BOOLEAN,
           NEW next \in {"select", "alarm"}, QueueThen(p, dup, next)
    PROVE  /\ wire' \in Seq(Bytes)
           /\ tx_pkt' \in TxPacket \cup {None}
           /\ quiet' \in 0..MaxQuiet
           /\ internal_pkt_queue' \in Seq(InternalPacket)
           /\ accepted' \in Seq(InternalPacket)
           /\ pc' \in {"select", "write", "pop", "alarm"}
           /\ phase' \in {"boot", "run", "stop", "flush", "done"}
           /\ clean' \in BOOLEAN
<1>1. CASE /\ queue_internal_packet(p, dup)
           /\ pc' = next
           /\ UNCHANGED <<phase, clean>>
  BY Zenon, <1>1, QueueType DEF TypeOK
<1>2. CASE IoError /\ UNCHANGED <<tx_pkt, internal_pkt_queue>>
  BY Zenon, <1>2 DEF TypeOK, IoError
<1>3. QED
  BY <1>1, <1>2 DEF QueueThen

\* TypeOK in three parts, each preserved for reasons of its own.
TxType ==
    /\ tx_pkt \in TxPacket \cup {None}
    /\ internal_pkt_queue \in Seq(InternalPacket)
    /\ wire \in Seq(Bytes)
    /\ accepted \in Seq(InternalPacket)
    /\ quiet \in 0..MaxQuiet

CmdType ==
    /\ cmd_queue \in Seq(Commands)
    /\ senders \in BOOLEAN /\ cmd_queue_closed \in BOOLEAN

\* The places are named so that a step that keeps one need not list them.
Phases == {"boot", "run", "stop", "flush", "done"}
Places == {"select", "write", "pop", "alarm"}
Results == {"armed", "accepted", "refused"}
Clients == {"connecting", "up", "refused", "oneshot error", "timed out"}

TaskType ==
    /\ phase \in Phases
    /\ pc \in Places
    /\ connect_sig \in Results
    /\ alarm_due \in BOOLEAN
    /\ last_tx \in 0..MaxQuiet
    /\ broken \in BOOLEAN /\ closed \in BOOLEAN
    /\ disconnect_sent \in BOOLEAN /\ clean \in BOOLEAN
    /\ client \in Clients

\* The type invariant in its three parts.
LEMMA TypeSplit == TypeOK <=> TxType /\ CmdType /\ TaskType
  BY Zenon DEF TypeOK, TxType, CmdType, TaskType, Phases, Places, Results, Clients

\* Steps that leave a part of the state alone keep its type.
LEMMA TxFrame == TxType /\ UNCHANGED txvars => TxType'
  BY Zenon DEF TxType, txvars

LEMMA CmdFrame == CmdType /\ UNCHANGED cmdvars => CmdType'
  BY Zenon DEF CmdType, cmdvars

LEMMA ZeroInRange == 0 \in 0..MaxQuiet
  BY BoundsAssumption

\* A clock stays in its range.
LEMMA LaterType == ASSUME NEW t \in 0..MaxQuiet PROVE Later(t) \in 0..MaxQuiet
  BY BoundsAssumption DEF Later

\* The transmit path keeps its types.
LEMMA TxTypeStep == TypeOK /\ ControlInv /\ [Next]_vars => TxType'
<1> SUFFICES ASSUME TypeOK, ControlInv, [Next]_vars
             PROVE  TxType'
  OBVIOUS
<1>1. CASE Bootstrap
  <2>1. tx_pkt \in TxPacket
    BY Zenon, <1>1 DEF Bootstrap, ControlInv, TypeOK
  <2>2. tx_pkt.pkt \in Packets
    BY <2>1 DEF TxPacket
  <2>3. CASE try_send_packet(tx_pkt.pkt, FALSE) /\ UNCHANGED <<accepted, internal_pkt_queue>>
    BY Zenon, <2>2, <2>3, TrySendType, TypeSplit DEF TxType
  <2>4. CASE IoError /\ tx_pkt' = None /\ UNCHANGED internal_pkt_queue
    BY <2>4, TypeSplit, Zenon DEF TxType, IoError
  <2>5. QED
    BY <1>1, <2>3, <2>4, Zenon DEF Bootstrap
<1>2. CASE WriteReady
  BY <1>2, TxFrame, TypeSplit, Zenon DEF WriteReady, writevars
<1>3. CASE WriteSome
  <2>1. tx_pkt \in TxPacket /\ UNCHANGED <<internal_pkt_queue, accepted>>
    BY Zenon, <1>3 DEF WriteSome, ControlInv, TypeOK
  <2>2. tx_pkt.pkt \in Packets /\ tx_pkt.set_dup \in BOOLEAN /\ tx_pkt.pos \in Nat
    BY <2>1 DEF TxPacket
  <2>3. PICK to \in (tx_pkt.pos + 1)..Size[tx_pkt.pkt] :
            Transmit(tx_pkt.pkt, tx_pkt.set_dup, tx_pkt.pos, to)
    BY <1>3 DEF WriteSome
  <2>4. to \in Nat /\ tx_pkt.pos <= to
    BY <2>2, SizeAssumption
  <2>5. /\ wire' \in Seq(Bytes) /\ tx_pkt' \in TxPacket \cup {None}
        /\ quiet' \in 0..MaxQuiet
    BY <2>2, <2>3, <2>4, TransmitType
  <2>6. QED
    BY <2>1, <2>5, TypeSplit, Zenon DEF TxType
<1>4. CASE WouldBlock
  BY <1>4, TxFrame, TypeSplit, Zenon DEF WouldBlock, writevars
<1>5. CASE WriteClosed
  BY <1>5, TxFrame, TypeSplit, Zenon DEF WriteClosed, writevars
<1>6. CASE WriteFails
  BY <1>6, TxFrame, TypeSplit, Zenon DEF WriteFails, IoError, txvars
<1>7. CASE PopNext
  <2> DEFINE next == Head(internal_pkt_queue)
  <2>1. /\ internal_pkt_queue \in Seq(InternalPacket) /\ internal_pkt_queue # <<>>
        /\ internal_pkt_queue' = Tail(internal_pkt_queue)
    BY Zenon, <1>7 DEF PopNext, TypeOK
  <2>2. next \in InternalPacket /\ internal_pkt_queue' \in Seq(InternalPacket)
    BY <2>1
  <2>3. next.pkt \in Packets /\ next.set_dup \in BOOLEAN
    BY <2>2 DEF InternalPacket
  <2>4. CASE try_send_packet(next.pkt, next.set_dup) /\ UNCHANGED accepted
    BY <2>2, <2>3, <2>4, TrySendType, TypeSplit DEF TxType
  <2>5. CASE IoError /\ UNCHANGED tx_pkt
    BY <2>2, <2>5, TypeSplit, Zenon DEF TxType, IoError
  <2>6. QED
    BY <1>7, <2>4, <2>5, Zenon DEF PopNext
<1>8. CASE PopDone
  BY <1>8, TxFrame, TypeSplit, Zenon DEF PopDone, writevars
<1>9. ASSUME NEW r \in {"accepted", "refused"}, ReadFirst(r) PROVE TxType'
  BY <1>9, TxFrame, TypeSplit, Zenon DEF ReadFirst
<1>10. ASSUME NEW p \in Replies, ReadAndReply(p) PROVE TxType'
  <2>1. QueueThen(p, FALSE, "select")
    BY Zenon, <1>10 DEF ReadAndReply
  <2>2. p \in Packets
    BY DEF Packets
  <2>3. QED
    BY Zenon, <2>1, <2>2, QueueThenType DEF TxType
<1>11. CASE ReadClosed
  BY <1>11, TxFrame, TypeSplit, Zenon DEF ReadClosed
<1>12. CASE ReadFails
  BY <1>12, TxFrame, TypeSplit, Zenon DEF ReadFails
<1>13. CASE CommandSend
  <2>1. QueueThen(Head(cmd_queue), FALSE, "select") /\ Head(cmd_queue) \in Submitted
    BY Zenon, <1>13 DEF CommandSend
  <2>2. Head(cmd_queue) \in Packets
    BY <2>1 DEF Packets
  <2>3. QED
    BY Zenon, <2>1, <2>2, QueueThenType DEF TxType
<1>14. CASE CommandDisconnect
  BY <1>14, TxFrame, TypeSplit, Zenon DEF CommandDisconnect
<1>14a. CASE CommandQuiet
  BY <1>14a, TxFrame, TypeSplit, Zenon DEF CommandQuiet
<1>15. CASE CommandNone
  BY <1>15, TxFrame, TypeSplit, Zenon DEF CommandNone
<1>16. CASE AlarmPing
  <2>1. QueueThen("PINGREQ", FALSE, "alarm")
    BY Zenon, <1>16 DEF AlarmPing
  <2>2. "PINGREQ" \in Packets
    BY DEF Packets
  <2>3. QED
    BY Zenon, <2>1, <2>2, QueueThenType DEF TxType
<1>17. CASE AlarmNoPing
  BY <1>17, TxFrame, TypeSplit, Zenon DEF AlarmNoPing
<1>18. ASSUME NEW p \in Submitted \cup Replies, AlarmResend(p) PROVE TxType'
  <2>1. QueueThen(p, p \in Publishes, "alarm")
    BY <1>18 DEF AlarmResend
  <2>2. p \in Packets /\ (p \in Publishes) \in BOOLEAN
    BY DEF Packets
  <2>3. QED
    BY Zenon, <2>1, <2>2, QueueThenType DEF TxType
<1>19. CASE AlarmEnd
  BY <1>19, TxFrame, TypeSplit, Zenon DEF AlarmEnd
<1>20. CASE SendDisconnect
  <2>1. "DISCONNECT" \in Packets
    BY DEF Packets
  <2>2. CASE queue_internal_packet("DISCONNECT", FALSE)
    BY Zenon, <2>1, <2>2, QueueType DEF TxType
  <2>3. CASE UNCHANGED txvars
    BY <2>3, TxFrame, TypeSplit
  <2>4. QED
    BY <1>20, <2>2, <2>3, Zenon DEF SendDisconnect
<1>21. CASE FlushDone
  BY <1>21, TxFrame, TypeSplit, Zenon DEF FlushDone
<1>22. CASE ShutdownTimeout
  BY <1>22, TxFrame, TypeSplit, Zenon DEF ShutdownTimeout
<1>23. CASE ConnectReturns
  BY <1>23, TxFrame, TypeSplit, Zenon DEF ConnectReturns, taskvars
<1>24. CASE ConnectTimeout
  BY <1>24, TxFrame, TypeSplit, Zenon DEF ConnectTimeout, taskvars
<1>25. ASSUME NEW p \in Submitted, ClientSubmit(p) PROVE TxType'
  BY <1>25, TxFrame, TypeSplit, Zenon DEF ClientSubmit, Submit, taskvars
<1>26. CASE ClientDisconnect
  BY <1>26, TxFrame, TypeSplit, Zenon DEF ClientDisconnect, Submit, taskvars
<1>27. CASE ClientDrop
  BY <1>27, TxFrame, TypeSplit, Zenon DEF ClientDrop, taskvars
<1>28. CASE Tick
  <2>1. quiet' \in 0..MaxQuiet
    BY Zenon, <1>28, LaterType DEF Tick, TypeOK
  <2>2. QED
    BY <1>28, <2>1, TypeSplit, Zenon DEF Tick, TxType
<1>29. CASE TransportBreaks
  BY <1>29, TxFrame, TypeSplit, Zenon DEF TransportBreaks, taskvars
<1>30. CASE Terminated
  BY <1>30, TxFrame, TypeSplit, Zenon DEF Terminated, vars
<1>31. CASE UNCHANGED vars
  BY <1>31, TxFrame, TypeSplit, Zenon DEF vars
<1>32. QED
  BY <1>1, <1>2, <1>3, <1>4, <1>5, <1>6, <1>7, <1>8, <1>9, <1>10, <1>11,
     <1>12, <1>13, <1>14, <1>14a, <1>15, <1>16, <1>17, <1>18, <1>19, <1>20, <1>21,
     <1>22, <1>23, <1>24, <1>25, <1>26, <1>27, <1>28, <1>29, <1>30, <1>31
  DEF Next, WriteStep

\* The command channel keeps its types.
LEMMA CmdTypeStep == TypeOK /\ [Next]_vars => CmdType'
<1> SUFFICES ASSUME TypeOK, [Next]_vars
             PROVE  CmdType'
  OBVIOUS
<1>1. CASE Bootstrap
  BY <1>1, CmdFrame, TypeSplit, Zenon DEF Bootstrap
<1>2. CASE WriteReady
  BY <1>2, CmdFrame, TypeSplit, Zenon DEF WriteReady, writevars
<1>3. CASE WriteSome
  BY <1>3, CmdFrame, TypeSplit, Zenon DEF WriteSome, writevars
<1>4. CASE WouldBlock
  BY <1>4, CmdFrame, TypeSplit, Zenon DEF WouldBlock, writevars
<1>5. CASE WriteClosed
  BY <1>5, CmdFrame, TypeSplit, Zenon DEF WriteClosed, writevars
<1>6. CASE WriteFails
  BY <1>6, CmdFrame, TypeSplit, Zenon DEF WriteFails, writevars, IoError
<1>7. CASE PopNext
  BY <1>7, CmdFrame, TypeSplit, Zenon DEF PopNext, writevars
<1>8. CASE PopDone
  BY <1>8, CmdFrame, TypeSplit, Zenon DEF PopDone, writevars
<1>9. ASSUME NEW r \in {"accepted", "refused"}, ReadFirst(r) PROVE CmdType'
  BY <1>9, CmdFrame, TypeSplit, Zenon DEF ReadFirst
<1>10. ASSUME NEW p \in Replies, ReadAndReply(p) PROVE CmdType'
  BY <1>10, CmdFrame, TypeSplit, Zenon DEF ReadAndReply
<1>11. CASE ReadClosed
  BY <1>11, CmdFrame, TypeSplit, Zenon DEF ReadClosed
<1>12. CASE ReadFails
  BY <1>12, CmdFrame, TypeSplit, Zenon DEF ReadFails
<1>13. CASE CommandSend
  <2>1. /\ cmd_queue \in Seq(Commands) /\ cmd_queue # <<>>
        /\ cmd_queue' = Tail(cmd_queue)
    BY Zenon, <1>13 DEF CommandSend, TypeOK
  <2>2. cmd_queue' \in Seq(Commands)
    BY <2>1
  <2>3. QED
    BY <1>13, <2>2, TypeSplit, Zenon DEF CommandSend, CmdType
<1>14. CASE CommandDisconnect
  <2>1. /\ cmd_queue \in Seq(Commands) /\ cmd_queue # <<>>
        /\ cmd_queue' = Tail(cmd_queue)
    BY Zenon, <1>14 DEF CommandDisconnect, TypeOK
  <2>2. cmd_queue' \in Seq(Commands)
    BY <2>1
  <2>3. QED
    BY <1>14, <2>2, TypeSplit, Zenon DEF CommandDisconnect, CmdType
<1>14a. CASE CommandQuiet
  <2>1. /\ cmd_queue \in Seq(Commands) /\ cmd_queue # <<>>
        /\ cmd_queue' = Tail(cmd_queue)
    BY Zenon, <1>14a DEF CommandQuiet, TypeOK
  <2>2. cmd_queue' \in Seq(Commands)
    BY <2>1
  <2>3. QED
    BY <1>14a, <2>2, TypeSplit, Zenon DEF CommandQuiet, CmdType
<1>15. CASE CommandNone
  BY <1>15, TypeSplit, Zenon DEF CommandNone, taskvars, CmdType
<1>16. CASE AlarmPing
  BY <1>16, CmdFrame, TypeSplit, Zenon DEF AlarmPing
<1>17. CASE AlarmNoPing
  BY <1>17, CmdFrame, TypeSplit, Zenon DEF AlarmNoPing
<1>18. ASSUME NEW p \in Submitted \cup Replies, AlarmResend(p) PROVE CmdType'
  BY <1>18, CmdFrame, TypeSplit, Zenon DEF AlarmResend
<1>19. CASE AlarmEnd
  BY <1>19, CmdFrame, TypeSplit, Zenon DEF AlarmEnd
<1>20. CASE SendDisconnect
  BY <1>20, CmdFrame, TypeSplit, Zenon DEF SendDisconnect
<1>21. CASE FlushDone
  BY <1>21, CmdFrame, TypeSplit, Zenon DEF FlushDone
<1>22. CASE ShutdownTimeout
  BY <1>22, CmdFrame, TypeSplit, Zenon DEF ShutdownTimeout
<1>23. CASE ConnectReturns
  BY <1>23, TypeSplit, Zenon DEF ConnectReturns, taskvars, CmdType
<1>24. CASE ConnectTimeout
  <2>1. /\ cmd_queue \in Seq(Commands) /\ "Disconnect" \in Commands
        /\ cmd_queue' = Append(cmd_queue, "Disconnect")
    BY Zenon, <1>24 DEF ConnectTimeout, TypeOK, Commands
  <2>2. cmd_queue' \in Seq(Commands)
    BY <2>1
  <2>3. QED
    BY <1>24, <2>2, TypeSplit, Zenon DEF ConnectTimeout, taskvars, CmdType
<1>25. ASSUME NEW p \in Submitted, ClientSubmit(p) PROVE CmdType'
  <2>1. /\ cmd_queue \in Seq(Commands) /\ p \in Commands
        /\ cmd_queue' = Append(cmd_queue, p)
    BY <1>25 DEF ClientSubmit, Submit, TypeOK, Commands
  <2>2. cmd_queue' \in Seq(Commands)
    BY <2>1
  <2>3. QED
    BY <1>25, <2>2, TypeSplit, Zenon DEF ClientSubmit, Submit, taskvars, CmdType
<1>26. CASE ClientDisconnect
  <2>1. /\ cmd_queue \in Seq(Commands) /\ "Disconnect" \in Commands
        /\ cmd_queue' = Append(cmd_queue, "Disconnect")
    BY <1>26 DEF ClientDisconnect, Submit, TypeOK, Commands
  <2>2. cmd_queue' \in Seq(Commands)
    BY <2>1
  <2>3. QED
    BY <1>26, <2>2, TypeSplit, Zenon DEF ClientDisconnect, Submit, taskvars, CmdType
<1>27. CASE ClientDrop
  BY <1>27, TypeSplit, Zenon DEF ClientDrop, taskvars, CmdType
<1>28. CASE Tick
  BY <1>28, CmdFrame, TypeSplit, Zenon DEF Tick
<1>29. CASE TransportBreaks
  BY <1>29, TypeSplit, Zenon DEF TransportBreaks, taskvars, CmdType
<1>30. CASE Terminated
  BY <1>30, CmdFrame, TypeSplit, Zenon DEF Terminated, vars
<1>31. CASE UNCHANGED vars
  BY <1>31, CmdFrame, TypeSplit, Zenon DEF vars
<1>32. QED
  BY <1>1, <1>2, <1>3, <1>4, <1>5, <1>6, <1>7, <1>8, <1>9, <1>10, <1>11,
     <1>12, <1>13, <1>14, <1>14a, <1>15, <1>16, <1>17, <1>18, <1>19, <1>20, <1>21,
     <1>22, <1>23, <1>24, <1>25, <1>26, <1>27, <1>28, <1>29, <1>30, <1>31
  DEF Next, WriteStep

\* So does everything else.
LEMMA TaskTypeStep == TypeOK /\ [Next]_vars => TaskType'
<1> SUFFICES ASSUME TypeOK, [Next]_vars
             PROVE  TaskType'
  OBVIOUS
<1>0. TaskType
  BY TypeSplit, Zenon
<1>1. CASE Bootstrap
  BY <1>1, <1>0, Zenon DEF Bootstrap, IoError, TaskType, Phases, Places
<1>2. CASE WriteReady
  BY <1>2, <1>0, ZenonT(30) DEF WriteReady, writevars, TaskType, Places
<1>3. CASE WriteSome
  BY <1>3, <1>0, ZenonT(30) DEF WriteSome, writevars, TaskType, Places
<1>4. CASE WouldBlock
  BY <1>4, <1>0, ZenonT(30) DEF WouldBlock, writevars, TaskType, Places
<1>5. CASE WriteClosed
  BY <1>5, <1>0, ZenonT(30) DEF WriteClosed, writevars, TaskType, Phases, Places
<1>6. CASE WriteFails
  BY <1>6, <1>0, ZenonT(30) DEF WriteFails, writevars, IoError, TaskType, Phases, Places
<1>7. CASE PopNext
  <2>1. last_tx' \in 0..MaxQuiet
    <3>1. last_tx \in 0..MaxQuiet /\ 0 \in 0..MaxQuiet
      BY <1>0, ZeroInRange, Zenon DEF TaskType
    <3>2. QED
      BY <1>7, <3>1, Zenon DEF PopNext
  <2>2. /\ phase' \in Phases
        /\ pc' \in Places /\ clean' \in BOOLEAN
    BY <1>7, <1>0, Zenon DEF PopNext, IoError, TaskType, Phases, Places
  <2>3. QED
    BY <1>7, <2>1, <2>2, <1>0, Zenon DEF PopNext, writevars, TaskType
<1>8. CASE PopDone
  <2>1. last_tx' \in 0..MaxQuiet
    BY <1>8, ZeroInRange DEF PopDone
  <2>2. QED
    BY <1>8, <2>1, <1>0, Zenon DEF PopDone, writevars, TaskType, Places
<1>9. ASSUME NEW r \in {"accepted", "refused"}, ReadFirst(r) PROVE TaskType'
  BY <1>9, <1>0, ZenonT(30) DEF ReadFirst, TaskType, Phases, Results
<1>10. ASSUME NEW p \in Replies, ReadAndReply(p) PROVE TaskType'
  <2>1. QueueThen(p, FALSE, "select")
    BY Zenon, <1>10 DEF ReadAndReply
  <2>2. p \in Packets
    BY DEF Packets
  <2>3. /\ pc' \in Places
        /\ phase' \in Phases
        /\ clean' \in BOOLEAN
    BY Zenon, <2>1, <2>2, QueueThenType DEF Phases, Places
  <2>4. QED
    BY <1>10, <2>3, <1>0, Zenon DEF ReadAndReply, TaskType
<1>11. CASE ReadClosed
  BY <1>11, <1>0, ZenonT(30) DEF ReadClosed, TaskType, Phases
<1>12. CASE ReadFails
  BY <1>12, <1>0, ZenonT(30) DEF ReadFails, TaskType, Phases
<1>13. CASE CommandSend
  <2>1. QueueThen(Head(cmd_queue), FALSE, "select") /\ Head(cmd_queue) \in Submitted
    BY Zenon, <1>13 DEF CommandSend
  <2>2. Head(cmd_queue) \in Packets
    BY <2>1 DEF Packets
  <2>3. /\ pc' \in Places
        /\ phase' \in Phases
        /\ clean' \in BOOLEAN
    BY Zenon, <2>1, <2>2, QueueThenType DEF Phases, Places
  <2>4. QED
    BY <1>13, <2>3, <1>0, Zenon DEF CommandSend, TaskType
<1>14. CASE CommandDisconnect
  BY <1>14, <1>0, ZenonT(30) DEF CommandDisconnect, TaskType, Phases
<1>14a. CASE CommandQuiet
  BY <1>14a, <1>0, ZenonT(30) DEF CommandQuiet, TaskType
<1>15. CASE CommandNone
  BY <1>15, <1>0, ZenonT(30) DEF CommandNone, TaskType
<1>16. CASE AlarmPing
  <2>1. QueueThen("PINGREQ", FALSE, "alarm")
    BY Zenon, <1>16 DEF AlarmPing
  <2>2. "PINGREQ" \in Packets
    BY DEF Packets
  <2>3. /\ pc' \in Places
        /\ phase' \in Phases
        /\ clean' \in BOOLEAN
    BY Zenon, <2>1, <2>2, QueueThenType DEF Phases, Places
  <2>4. last_tx' \in 0..MaxQuiet
    BY <1>16, ZeroInRange DEF AlarmPing
  <2>5. QED
    BY <1>16, <2>3, <2>4, <1>0, Zenon DEF AlarmPing, TaskType
<1>17. CASE AlarmNoPing
  BY <1>17, <1>0, ZenonT(30) DEF AlarmNoPing, TaskType, Places
<1>18. ASSUME NEW p \in Submitted \cup Replies, AlarmResend(p) PROVE TaskType'
  <2>1. QueueThen(p, p \in Publishes, "alarm")
    BY <1>18 DEF AlarmResend
  <2>2. p \in Packets /\ (p \in Publishes) \in BOOLEAN
    BY DEF Packets
  <2>3. /\ pc' \in Places
        /\ phase' \in Phases
        /\ clean' \in BOOLEAN
    BY Zenon, <2>1, <2>2, QueueThenType DEF Phases, Places
  <2>4. QED
    BY <1>18, <2>3, <1>0, Zenon DEF AlarmResend, TaskType
<1>19. CASE AlarmEnd
  BY <1>19, <1>0, ZenonT(30) DEF AlarmEnd, TaskType, Places
<1>20. CASE SendDisconnect
  BY <1>20, <1>0, ZenonT(30) DEF SendDisconnect, TaskType, Phases
<1>21. CASE FlushDone
  BY <1>21, <1>0, ZenonT(30) DEF FlushDone, TaskType, Phases
<1>22. CASE ShutdownTimeout
  BY <1>22, <1>0, ZenonT(30) DEF ShutdownTimeout, TaskType, Phases
<1>23. CASE ConnectReturns
  BY <1>23, <1>0, ZenonT(30) DEF ConnectReturns, taskvars, TaskType, Clients
<1>24. CASE ConnectTimeout
  BY <1>24, <1>0, ZenonT(30) DEF ConnectTimeout, taskvars, TaskType, Clients
<1>25. ASSUME NEW p \in Submitted, ClientSubmit(p) PROVE TaskType'
  BY <1>25, <1>0, ZenonT(30) DEF ClientSubmit, Submit, taskvars, TaskType
<1>26. CASE ClientDisconnect
  BY <1>26, <1>0, ZenonT(30) DEF ClientDisconnect, Submit, taskvars, TaskType
<1>27. CASE ClientDrop
  BY <1>27, <1>0, ZenonT(30) DEF ClientDrop, taskvars, TaskType
<1>28. CASE Tick
  <2>1. last_tx' \in 0..MaxQuiet
    BY Zenon, <1>28, LaterType DEF Tick, TypeOK
  <2>2. QED
    BY <1>28, <2>1, <1>0, Zenon DEF Tick, TaskType
<1>29. CASE TransportBreaks
  BY <1>29, <1>0, ZenonT(30) DEF TransportBreaks, taskvars, TaskType
<1>30. CASE Terminated
  BY <1>30, <1>0, ZenonT(30) DEF Terminated, vars, TaskType
<1>31. CASE UNCHANGED vars
  BY <1>31, <1>0, ZenonT(30) DEF vars, TaskType
<1>32. QED
  BY <1>1, <1>2, <1>3, <1>4, <1>5, <1>6, <1>7, <1>8, <1>9, <1>10, <1>11,
     <1>12, <1>13, <1>14, <1>14a, <1>15, <1>16, <1>17, <1>18, <1>19, <1>20, <1>21,
     <1>22, <1>23, <1>24, <1>25, <1>26, <1>27, <1>28, <1>29, <1>30, <1>31
  DEF Next, WriteStep

\* The position of the task inside its handlers is preserved as well.
LEMMA ControlStep == TypeOK /\ ControlInv /\ [Next]_vars => ControlInv'
<1> SUFFICES ASSUME TypeOK, ControlInv, [Next]_vars
             PROVE  ControlInv'
  OBVIOUS
<1>1. CASE Bootstrap
  BY <1>1, Zenon DEF Bootstrap, IoError, try_send_packet, Transmit, ControlInv
<1>2. CASE WriteReady
  BY <1>2, Zenon DEF WriteReady, Selecting, txvars, ControlInv
<1>3. CASE WriteSome
  <2>1. phase \in {"run", "flush"} /\ UNCHANGED phase
    BY <1>3, Zenon DEF WriteSome, ControlInv
  <2>2. PICK to \in (tx_pkt.pos + 1)..Size[tx_pkt.pkt] :
            /\ Transmit(tx_pkt.pkt, tx_pkt.set_dup, tx_pkt.pos, to)
            /\ pc' = IF to = Size[tx_pkt.pkt] THEN "pop" ELSE "write"
    BY <1>3 DEF WriteSome
  <2>3. [pkt |-> tx_pkt.pkt, pos |-> to, set_dup |-> tx_pkt.set_dup] # None
    <3>1. tx_pkt \in TxPacket
      BY Zenon, <1>3 DEF WriteSome, ControlInv, TypeOK
    <3>2. to \in Nat
      BY <3>1, SizeAssumption DEF TxPacket
    <3>3. QED
      BY <3>1, <3>2, NoneAssumption DEF TxPacket
  <2>4. QED
    BY <2>1, <2>2, <2>3 DEF Transmit, ControlInv
<1>4. CASE WouldBlock
  BY <1>4, Zenon DEF WouldBlock, txvars, ControlInv
<1>5. CASE WriteClosed
  BY <1>5, Zenon DEF WriteClosed, txvars, ControlInv
<1>6. CASE WriteFails
  BY <1>6, Zenon DEF WriteFails, IoError, ControlInv
<1>7. CASE PopNext
  <2>1. phase \in {"run", "flush"} /\ tx_pkt = None
    BY <1>7, Zenon DEF PopNext, ControlInv
  <2> DEFINE next == Head(internal_pkt_queue)
  <2>2. CASE /\ try_send_packet(next.pkt, next.set_dup)
             /\ IF tx_pkt' = None THEN UNCHANGED <<pc, last_tx>>
                                  ELSE pc' = "write" /\ last_tx' = 0
             /\ UNCHANGED phase
    <3>1. CASE tx_pkt' = None
      <4>1. quiet' = 0
        <5>1. PICK n \in 0..Size[next.pkt] : Transmit(next.pkt, next.set_dup, 0, n)
          BY <2>2 DEF try_send_packet
        <5>2. next \in InternalPacket
          <6>1. internal_pkt_queue \in Seq(InternalPacket) /\ internal_pkt_queue # <<>>
            BY <1>7, Zenon DEF PopNext, TypeOK
          <6>2. QED
            BY <6>1
        <5>3. [pkt |-> next.pkt, pos |-> n, set_dup |-> next.set_dup] # None
          BY <5>2, SizeAssumption, NoneAssumption DEF InternalPacket, TxPacket
        <5>4. QED
          BY <5>1, <5>3, <3>1 DEF Transmit
      <4>2. QED
        BY <1>7, <2>1, <2>2, <3>1, <4>1 DEF ControlInv, PopNext
    <3>2. CASE tx_pkt' # None
      BY <2>1, <2>2, <3>2 DEF ControlInv
    <3>3. QED
      BY <3>1, <3>2
  <2>3. CASE IoError
    BY <2>1, <2>3 DEF IoError, ControlInv
  <2>4. QED
    BY <1>7, <2>2, <2>3, Zenon DEF PopNext
<1>8. CASE PopDone
  BY <1>8, Zenon DEF PopDone, txvars, ControlInv
<1>9. ASSUME NEW r \in {"accepted", "refused"}, ReadFirst(r) PROVE ControlInv'
  BY <1>9, Zenon DEF ReadFirst, InLoop, txvars, ControlInv
<1>10. ASSUME NEW p \in Replies, ReadAndReply(p) PROVE ControlInv'
  <2>1. phase = "run" /\ QueueThen(p, FALSE, "select")
    BY Zenon, <1>10 DEF ReadAndReply, InLoop, ControlInv
  <2>2. QED
    BY Zenon, <2>1 DEF QueueThen, IoError, ControlInv
<1>11. CASE ReadClosed
  BY <1>11, Zenon DEF ReadClosed, InLoop, txvars, ControlInv
<1>12. CASE ReadFails
  BY <1>12, Zenon DEF ReadFails, InLoop, txvars, ControlInv
<1>13. CASE CommandSend
  <2>1. phase = "run" /\ QueueThen(Head(cmd_queue), FALSE, "select")
    BY Zenon, <1>13 DEF CommandSend, CommandBranch, InLoop, ControlInv
  <2>2. QED
    BY Zenon, <2>1 DEF QueueThen, IoError, ControlInv
<1>14. CASE CommandDisconnect
  BY <1>14, Zenon DEF CommandDisconnect, CommandBranch, InLoop, txvars, ControlInv
<1>14a. CASE CommandQuiet
  BY <1>14a, Zenon DEF CommandQuiet, CommandBranch, InLoop, txvars, ControlInv
<1>15. CASE CommandNone
  BY <1>15, Zenon DEF CommandNone, CommandBranch, InLoop, txvars, ControlInv
<1>16. CASE AlarmPing
  <2>1. phase = "run" /\ QueueThen("PINGREQ", FALSE, "alarm")
    BY Zenon, <1>16 DEF AlarmPing, InLoop, ControlInv
  <2>2. QED
    BY Zenon, <2>1 DEF QueueThen, IoError, ControlInv
<1>17. CASE AlarmNoPing
  BY <1>17, Zenon DEF AlarmNoPing, InLoop, txvars, ControlInv
<1>18. ASSUME NEW p \in Submitted \cup Replies, AlarmResend(p) PROVE ControlInv'
  <2>1. phase = "run" /\ QueueThen(p, p \in Publishes, "alarm")
    BY <1>18 DEF AlarmResend, InLoop, ControlInv
  <2>2. QED
    BY <2>1 DEF QueueThen, IoError, ControlInv
<1>19. CASE AlarmEnd
  BY <1>19, Zenon DEF AlarmEnd, txvars, ControlInv
<1>20. CASE SendDisconnect
  BY <1>20, Zenon DEF SendDisconnect, ControlInv
<1>21. CASE FlushDone
  BY <1>21, Zenon DEF FlushDone, txvars, ControlInv
<1>22. CASE ShutdownTimeout
  BY <1>22, Zenon DEF ShutdownTimeout, txvars, ControlInv
<1>23. CASE ConnectReturns
  BY <1>23, Zenon DEF ConnectReturns, taskvars, txvars, ControlInv
<1>24. CASE ConnectTimeout
  BY <1>24, Zenon DEF ConnectTimeout, taskvars, txvars, ControlInv
<1>25. ASSUME NEW p \in Submitted, ClientSubmit(p) PROVE ControlInv'
  BY <1>25, Zenon DEF ClientSubmit, Submit, taskvars, txvars, ControlInv
<1>26. CASE ClientDisconnect
  BY <1>26, Zenon DEF ClientDisconnect, Submit, taskvars, txvars, ControlInv
<1>27. CASE ClientDrop
  BY <1>27, Zenon DEF ClientDrop, taskvars, txvars, ControlInv
<1>28. CASE Tick
  BY <1>28, Zenon DEF Tick, InLoop, ControlInv
<1>29. CASE TransportBreaks
  BY <1>29, Zenon DEF TransportBreaks, taskvars, txvars, ControlInv
<1>30. CASE Terminated
  BY <1>30, Zenon DEF Terminated, vars, txvars, ControlInv
<1>31. CASE UNCHANGED vars
  BY <1>31, Zenon DEF vars, txvars, ControlInv
<1>32. QED
  BY <1>1, <1>2, <1>3, <1>4, <1>5, <1>6, <1>7, <1>8, <1>9, <1>10, <1>11,
     <1>12, <1>13, <1>14, <1>14a, <1>15, <1>16, <1>17, <1>18, <1>19, <1>20, <1>21,
     <1>22, <1>23, <1>24, <1>25, <1>26, <1>27, <1>28, <1>29, <1>30, <1>31
  DEF Next, WriteStep

\* Types and control together are inductive.
THEOREM ControlCorrect == Spec => [](TypeOK /\ ControlInv)
<1>1. Init => TypeOK /\ ControlInv
  <2> SUFFICES ASSUME Init PROVE TypeOK /\ ControlInv
    OBVIOUS
  <2>1. /\ [pkt |-> "CONNECT", pos |-> 0, set_dup |-> FALSE] \in TxPacket
        /\ [pkt |-> "CONNECT", set_dup |-> FALSE] \in InternalPacket
    BY DEF TxPacket, InternalPacket, Packets
  <2>2. TxType
    BY <2>1, ZeroInRange DEF Init, TxType
  <2>3. CmdType
    <3>1. <<>> \in Seq(Commands)
      OBVIOUS
    <3>2. QED
      BY <3>1, Zenon DEF Init, CmdType
  <2>4. TaskType
    BY Zenon, ZeroInRange DEF Phases, Places, Results, Clients, Init, TaskType
  <2>5. ControlInv
    BY Zenon, <2>1, NoneAssumption DEF Init, ControlInv
  <2>6. QED
    BY <2>2, <2>3, <2>4, <2>5, TypeSplit
<1>2. TypeOK /\ ControlInv /\ [Next]_vars => TypeOK' /\ ControlInv'
  <2>1. TypeOK' <=> TxType' /\ CmdType' /\ TaskType'
    BY Zenon DEF Phases, Places, Results, Clients, TypeOK, TxType, CmdType, TaskType
  <2>2. QED
    BY <2>1, TxTypeStep, CmdTypeStep, TaskTypeStep, ControlStep
<1>3. QED
  BY <1>1, <1>2, PTL DEF Spec

\* Every variable of the transceiver task keeps its type, for every set of
\* packets, every packet size and every bound.
THEOREM TypeCorrect == Spec => []TypeOK
  BY ControlCorrect, PTL

-----------------------------------------------------------------------------
(* What a step can do to the transmit path.                                *)

\* A packet was lost in a write that failed; nothing is written any more.
Lost == broken /\ tx_pkt = None /\ phase \in {"stop", "done"}

\* The phases before DISCONNECT is accepted.
Early == {"boot", "run", "stop"}

\* It leaves the transmit path alone.
Still ==
    /\ UNCHANGED <<tx_pkt, internal_pkt_queue, wire, accepted>>
    /\ broken => broken'
    /\ pc = "pop" /\ pc' # "pop" => internal_pkt_queue = <<>>
    /\ phase \in {"stop", "done"} => phase' \in {"stop", "done"}
    /\ phase' = "boot" => phase = "boot"
    /\ phase' \in Early => phase \in Early
    /\ phase' = "flush" => phase = "flush"
    /\ phase = "done" => phase' = "done"
    /\ disconnect_sent' => \/ disconnect_sent
                           \/ phase = "flush" /\ pc = "select" /\ tx_pkt = None /\ phase' = "done"

\* What the steps that write something have in common.
Writing == UNCHANGED <<broken, disconnect_sent>> /\ ~broken

\* It sends the CONNECT packet.
Begun ==
    /\ Writing
    /\ phase = "boot" /\ phase' = "run" /\ pc' = pc
    /\ try_send_packet(tx_pkt.pkt, FALSE)
    /\ UNCHANGED <<internal_pkt_queue, accepted>>

\* It goes on with the packet in transmission.
Continued ==
    /\ Writing
    /\ pc = "write" /\ phase' = phase
    /\ \E to \in (tx_pkt.pos + 1)..Size[tx_pkt.pkt] :
        /\ Transmit(tx_pkt.pkt, tx_pkt.set_dup, tx_pkt.pos, to)
        /\ pc' = IF to = Size[tx_pkt.pkt] THEN "pop" ELSE "write"
    /\ UNCHANGED <<internal_pkt_queue, accepted>>

\* It begins the next packet of the queue.
Popped ==
    /\ Writing
    /\ pc = "pop" /\ phase' = phase
    /\ internal_pkt_queue # <<>>
    /\ internal_pkt_queue' = Tail(internal_pkt_queue)
    /\ try_send_packet(Head(internal_pkt_queue).pkt, Head(internal_pkt_queue).set_dup)
    /\ tx_pkt' = None => pc' = "pop"
    /\ UNCHANGED accepted

\* It is given the packet p; DISCONNECT is the last one.
Accepts(p, dup) ==
    /\ queue_internal_packet(p, dup)
    /\ UNCHANGED <<broken, disconnect_sent>>
    /\ pc # "pop" /\ pc' # "pop"
    /\ \/ p # "DISCONNECT" /\ phase = "run" /\ phase' = "run"
       \/ p = "DISCONNECT" /\ phase = "stop" /\ phase' = "flush"

\* Its first write of a packet fails.
Fails ==
    /\ UNCHANGED <<wire, accepted, broken, disconnect_sent>>
    /\ Lost'
    /\ \/ UNCHANGED <<tx_pkt, internal_pkt_queue>>
       \/ tx_pkt # None /\ UNCHANGED internal_pkt_queue
       \/ /\ tx_pkt = None /\ internal_pkt_queue # <<>>
          /\ internal_pkt_queue' = Tail(internal_pkt_queue)
    /\ phase \in Early \cup {"flush"}
    /\ phase = "flush" => phase' = "done"

\* Every step is one of these.
StreamKinds ==
    \/ Still \/ Begun \/ Continued \/ Popped \/ Fails
    \/ \E p \in Packets, dup \in BOOLEAN : Accepts(p, dup)

\* A handler that queues a packet.
LEMMA QueueThenKinds ==
    ASSUME NEW p \in Packets \ {"DISCONNECT"}, NEW dup \in BOOLEAN, NEW next \in {"select", "alarm"},
           QueueThen(p, dup, next), phase = "run", pc \in {"select", "alarm"},
           UNCHANGED <<broken, disconnect_sent>>
    PROVE  StreamKinds
<1>1. CASE queue_internal_packet(p, dup) /\ pc' = next /\ UNCHANGED phase
  <2>1. Accepts(p, dup)
    BY <1>1 DEF Accepts
  <2> QED BY <2>1 DEF StreamKinds
<1>2. CASE tx_pkt = None /\ IoError /\ UNCHANGED <<tx_pkt, internal_pkt_queue>>
  <2>1. Fails
    BY <1>2 DEF Fails, Lost, IoError, Early
  <2> QED BY <2>1 DEF StreamKinds
<1> QED BY <1>1, <1>2 DEF QueueThen

\* Each action of the task does one of these things to the transmit path.
LEMMA StreamStep == TypeOK /\ ControlInv /\ [Next]_vars => StreamKinds
<1> SUFFICES ASSUME TypeOK, ControlInv, [Next]_vars
             PROVE  StreamKinds
  OBVIOUS
<1>1. CASE Bootstrap
  <2>1. CASE try_send_packet(tx_pkt.pkt, FALSE) /\ phase' = "run" /\ UNCHANGED <<accepted, pc>>
    <3>1. Begun
      BY Zenon, <1>1, <2>1 DEF Begun, Writing, Bootstrap, try_send_packet
    <3> QED BY <3>1 DEF StreamKinds
  <2>2. CASE IoError /\ tx_pkt' = None
    <3>1. Fails
      BY <1>1, <2>2 DEF Bootstrap, IoError, Fails, Lost, Early, ControlInv
    <3> QED BY <3>1 DEF StreamKinds
  <2> QED BY Zenon, <1>1, <2>1, <2>2 DEF Bootstrap
<1>2. CASE WriteReady
  <2>1. Still
    BY <1>2, Zenon DEF Still, WriteReady, Selecting, txvars, writevars
  <2> QED BY <2>1 DEF StreamKinds
<1>3. CASE WriteSome
  <2>1. Continued
    BY <1>3 DEF WriteSome, Continued, Writing, writevars
  <2> QED BY <2>1 DEF StreamKinds
<1>4. CASE WouldBlock
  <2>1. Still
    BY <1>4, Zenon DEF Still, WouldBlock, txvars, writevars
  <2> QED BY <2>1 DEF StreamKinds
<1>5. CASE WriteClosed
  <2>1. Still
    BY <1>5 DEF Still, WriteClosed, txvars, writevars, ControlInv, Early
  <2> QED BY <2>1 DEF StreamKinds
<1>6. CASE WriteFails
  <2>1. Still
    BY <1>6 DEF Still, WriteFails, IoError, writevars, ControlInv, Early
  <2> QED BY <2>1 DEF StreamKinds
<1>7. CASE PopNext
  <2> DEFINE next == Head(internal_pkt_queue)
  <2>1. CASE /\ try_send_packet(next.pkt, next.set_dup)
             /\ IF tx_pkt' = None THEN UNCHANGED <<pc, last_tx>>
                                  ELSE pc' = "write" /\ last_tx' = 0
             /\ UNCHANGED <<phase, clean, accepted>>
    <3>1. Popped
      BY <1>7, <2>1 DEF PopNext, Popped, Writing, writevars, try_send_packet
    <3> QED BY <3>1 DEF StreamKinds
  <2>2. CASE IoError /\ UNCHANGED tx_pkt
    <3>1. Fails
      BY <1>7, <2>2 DEF PopNext, IoError, Fails, Lost, Early, ControlInv, writevars
    <3> QED BY <3>1 DEF StreamKinds
  <2> QED BY <1>7, <2>1, <2>2 DEF PopNext
<1>8. CASE PopDone
  <2>1. Still
    BY <1>8, Zenon DEF Still, PopDone, txvars, writevars
  <2> QED BY <2>1 DEF StreamKinds
<1>9. ASSUME NEW r \in {"accepted", "refused"}, ReadFirst(r) PROVE StreamKinds
  <2>1. Still
    BY <1>9 DEF Still, ReadFirst, InLoop, txvars, Early
  <2> QED BY <2>1 DEF StreamKinds
<1>10. ASSUME NEW p \in Replies, ReadAndReply(p) PROVE StreamKinds
  <2>1. p \in Packets \ {"DISCONNECT"}
    BY NamesAssumption DEF Packets
  <2> QED BY Zenon, <1>10, <2>1, QueueThenKinds DEF ReadAndReply, InLoop
<1>11. CASE ReadClosed
  <2>1. Still
    BY <1>11 DEF Still, ReadClosed, InLoop, txvars, Early
  <2> QED BY <2>1 DEF StreamKinds
<1>12. CASE ReadFails
  <2>1. Still
    BY <1>12 DEF Still, ReadFails, InLoop, txvars, Early
  <2> QED BY <2>1 DEF StreamKinds
<1>13. CASE CommandSend
  <2>1. Head(cmd_queue) \in Packets \ {"DISCONNECT"}
    BY <1>13, NamesAssumption DEF CommandSend, Packets
  <2> QED BY Zenon, <1>13, <2>1, QueueThenKinds DEF CommandSend, CommandBranch, InLoop
<1>14. CASE CommandDisconnect
  <2>1. Still
    BY <1>14 DEF Still, CommandDisconnect, CommandBranch, InLoop, txvars, Early
  <2> QED BY <2>1 DEF StreamKinds
<1>14a. CASE CommandQuiet
  <2>1. Still
    BY <1>14a, Zenon DEF Still, CommandQuiet, CommandBranch, InLoop, txvars
  <2> QED BY <2>1 DEF StreamKinds
<1>15. CASE CommandNone
  <2>1. Still
    BY <1>15, Zenon DEF Still, CommandNone, CommandBranch, InLoop, txvars
  <2> QED BY <2>1 DEF StreamKinds
<1>16. CASE AlarmPing
  <2>1. "PINGREQ" \in Packets \ {"DISCONNECT"}
    BY DEF Packets
  <2> QED BY Zenon, <1>16, <2>1, QueueThenKinds DEF AlarmPing, InLoop
<1>17. CASE AlarmNoPing
  <2>1. Still
    BY <1>17, Zenon DEF Still, AlarmNoPing, InLoop, txvars
  <2> QED BY <2>1 DEF StreamKinds
<1>18. ASSUME NEW p \in Submitted \cup Replies, AlarmResend(p) PROVE StreamKinds
  <2>1. p \in Packets \ {"DISCONNECT"} /\ (p \in Publishes) \in BOOLEAN
    BY NamesAssumption DEF Packets
  <2> QED BY Zenon, <1>18, <2>1, QueueThenKinds DEF AlarmResend, ControlInv
<1>19. CASE AlarmEnd
  <2>1. Still
    BY <1>19, Zenon DEF Still, AlarmEnd, txvars
  <2> QED BY <2>1 DEF StreamKinds
<1>20. CASE SendDisconnect
  <2>1. phase = "stop" /\ pc # "pop" /\ UNCHANGED <<pc, broken, disconnect_sent>>
    BY <1>20 DEF SendDisconnect, ControlInv
  <2>2. CASE queue_internal_packet("DISCONNECT", FALSE) /\ phase' = "flush"
    <3>1. Accepts("DISCONNECT", FALSE)
      BY Zenon, <2>1, <2>2 DEF Accepts
    <3>2. "DISCONNECT" \in Packets
      BY DEF Packets
    <3> QED BY Zenon, <3>1, <3>2 DEF StreamKinds
  <2>3. CASE phase' = "done" /\ UNCHANGED txvars
    <3>1. Still
      BY <2>1, <2>3 DEF Still, txvars, Early
    <3> QED BY <3>1 DEF StreamKinds
  <2> QED BY Zenon, <1>20, <2>2, <2>3 DEF SendDisconnect
<1>21. CASE FlushDone
  <2>1. Still
    BY <1>21 DEF Still, FlushDone, txvars, Early
  <2> QED BY <2>1 DEF StreamKinds
<1>22. CASE ShutdownTimeout
  <2>1. Still
    BY <1>22 DEF Still, ShutdownTimeout, txvars, Early
  <2> QED BY <2>1 DEF StreamKinds
<1>23. CASE ConnectReturns
  <2>1. Still
    BY <1>23, Zenon DEF Still, ConnectReturns, taskvars, txvars
  <2> QED BY <2>1 DEF StreamKinds
<1>24. CASE ConnectTimeout
  <2>1. Still
    BY <1>24, Zenon DEF Still, ConnectTimeout, taskvars, txvars
  <2> QED BY <2>1 DEF StreamKinds
<1>25. ASSUME NEW p \in Submitted, ClientSubmit(p) PROVE StreamKinds
  <2>1. Still
    BY <1>25, Zenon DEF Still, ClientSubmit, Submit, taskvars, txvars
  <2> QED BY <2>1 DEF StreamKinds
<1>26. CASE ClientDisconnect
  <2>1. Still
    BY <1>26, Zenon DEF Still, ClientDisconnect, Submit, taskvars, txvars
  <2> QED BY <2>1 DEF StreamKinds
<1>27. CASE ClientDrop
  <2>1. Still
    BY <1>27, Zenon DEF Still, ClientDrop, taskvars, txvars
  <2> QED BY <2>1 DEF StreamKinds
<1>28. CASE Tick
  <2>1. Still
    BY <1>28, Zenon DEF Still, Tick, InLoop
  <2> QED BY <2>1 DEF StreamKinds
<1>29. CASE TransportBreaks
  <2>1. Still
    BY <1>29, Zenon DEF Still, TransportBreaks, taskvars, txvars
  <2> QED BY <2>1 DEF StreamKinds
<1>30. CASE Terminated
  <2>1. Still
    BY <1>30, Zenon DEF Still, Terminated, vars, txvars
  <2> QED BY <2>1 DEF StreamKinds
<1>31. CASE UNCHANGED vars
  <2>1. Still
    BY <1>31, Zenon DEF Still, vars, txvars
  <2> QED BY <2>1 DEF StreamKinds
<1>32. QED
  BY <1>1, <1>2, <1>3, <1>4, <1>5, <1>6, <1>7, <1>8, <1>9, <1>10, <1>11,
     <1>12, <1>13, <1>14, <1>14a, <1>15, <1>16, <1>17, <1>18, <1>19, <1>20, <1>21,
     <1>22, <1>23, <1>24, <1>25, <1>26, <1>27, <1>28, <1>29, <1>30, <1>31
  DEF Next, WriteStep

-----------------------------------------------------------------------------
(* The queue behind tx_pkt.                                                *)

\* Before the bootstrap there is only CONNECT.
BootInv ==
    phase = "boot" => internal_pkt_queue = <<>> /\ tx_pkt.pos = 0 /\ tx_pkt.set_dup = FALSE

\* Steps that leave the transmit path alone.
LEMMA TailFrame ==
    ASSUME QueueIsAcceptedTail,
           UNCHANGED <<tx_pkt, internal_pkt_queue, accepted>>,
           tx_pkt = None /\ pc' # "pop" /\ ~broken' => internal_pkt_queue = <<>>
    PROVE  QueueIsAcceptedTail'
  BY DEF QueueIsAcceptedTail

\* A write of the packet in transmission.
LEMMA TailWrite ==
    ASSUME TypeOK, QueueIsAcceptedTail, tx_pkt # None,
           NEW from \in Nat, NEW to \in 0..Size[tx_pkt.pkt],
           Transmit(tx_pkt.pkt, tx_pkt.set_dup, from, to),
           UNCHANGED <<internal_pkt_queue, accepted>>,
           to = Size[tx_pkt.pkt] => pc' = "pop" \/ internal_pkt_queue = <<>>
    PROVE  QueueIsAcceptedTail'
<1>1. /\ tx_pkt \in TxPacket
      /\ tx_pkt.pkt \in Packets /\ tx_pkt.set_dup \in BOOLEAN
  <2>1. tx_pkt \in TxPacket
    BY Zenon DEF TypeOK
  <2>2. QED
    BY <2>1 DEF TxPacket
<1>2. Size[tx_pkt.pkt] \in Nat
  BY <1>1, SizeAssumption
<1>3. CASE to = Size[tx_pkt.pkt]
  <2>1. tx_pkt' = None
    BY <1>3 DEF Transmit
  <2>2. QED
    BY <1>3, <2>1 DEF QueueIsAcceptedTail
<1>4. CASE to # Size[tx_pkt.pkt]
  <2>1. tx_pkt' = [pkt |-> tx_pkt.pkt, pos |-> to, set_dup |-> tx_pkt.set_dup]
    BY <1>4 DEF Transmit
  <2>2. tx_pkt' # None
    BY <2>1, <1>1, <1>2, NoneAssumption, SMTT(30) DEF TxPacket
  <2>3. /\ tx_pkt'.pkt = tx_pkt.pkt /\ tx_pkt'.set_dup = tx_pkt.set_dup
        /\ tx_pkt'.pos < Size[tx_pkt'.pkt]
    BY <2>1, <1>2, <1>4
  <2>4. QED
    BY <2>2, <2>3 DEF QueueIsAcceptedTail
<1>5. QED
  BY <1>3, <1>4

\* A packet handed to a first write with nothing behind it.
LEMMA TailFirst ==
    ASSUME NEW p \in Packets, NEW dup \in BOOLEAN, try_send_packet(p, dup)
    PROVE  tx_pkt' # None =>
                /\ tx_pkt'.pkt = p /\ tx_pkt'.set_dup = dup
                /\ tx_pkt'.pos < Size[tx_pkt'.pkt]
<1>1. PICK n \in 0..Size[p] : Transmit(p, dup, 0, n)
  BY DEF try_send_packet
<1>2. Size[p] \in Nat
  BY SizeAssumption
<1>3. QED
  BY <1>1, <1>2, SMTT(30) DEF Transmit

\* A call of queue_internal_packet outside of clear_tx_packet.
LEMMA TailAccept ==
    ASSUME TypeOK, QueueIsAcceptedTail, NEW p \in Packets, NEW dup \in BOOLEAN,
           queue_internal_packet(p, dup), pc # "pop"
    PROVE  QueueIsAcceptedTail'
<1> DEFINE e == [pkt |-> p, set_dup |-> dup]
<1>1. /\ e \in InternalPacket
      /\ accepted \in Seq(InternalPacket) /\ internal_pkt_queue \in Seq(InternalPacket)
  <2>1. e \in InternalPacket
    BY DEF InternalPacket
  <2>2. QED
    BY <2>1, Zenon DEF TypeOK
<1>2. accepted' = Append(accepted, e)
  BY DEF queue_internal_packet
<1>3. CASE tx_pkt = None /\ try_send_packet(p, dup) /\ UNCHANGED internal_pkt_queue
  <2>1. internal_pkt_queue' = <<>>
    BY <1>3 DEF QueueIsAcceptedTail, try_send_packet
  <2>2. Len(accepted') - Len(internal_pkt_queue') = Len(accepted) + 1
    <3> HIDE DEF e
    <3> QED
      BY <1>1, <1>2, <2>1
  <2>3. accepted'[Len(accepted) + 1] = e
    <3> HIDE DEF e
    <3> QED
      BY <1>1, <1>2
  <2>4. tx_pkt' # None => /\ tx_pkt'.pkt = p /\ tx_pkt'.set_dup = dup
                          /\ tx_pkt'.pos < Size[tx_pkt'.pkt]
    BY <1>3, TailFirst
  <2>5. Len(accepted) \in Nat
    BY <1>1
  <2>6. Len(accepted') - Len(internal_pkt_queue') >= 1
    BY <2>2, <2>5
  <2>7. tx_pkt' # None => accepted'[Len(accepted') - Len(internal_pkt_queue')]
                            = [pkt |-> tx_pkt'.pkt, set_dup |-> tx_pkt'.set_dup]
    BY <2>2, <2>3, <2>4, Zenon
  <2>8. QED
    BY <2>1, <2>4, <2>6, <2>7 DEF QueueIsAcceptedTail
<1>4. CASE /\ tx_pkt # None
           /\ internal_pkt_queue' = Append(internal_pkt_queue, e)
           /\ UNCHANGED tx_pkt
  <2> DEFINE behind == Len(accepted) - Len(internal_pkt_queue)
  <2>1. Len(accepted') - Len(internal_pkt_queue') = behind
    <3> HIDE DEF e
    <3> QED
      BY <1>1, <1>2, <1>4
  <2>2. /\ behind >= 1
        /\ \A i \in DOMAIN internal_pkt_queue : internal_pkt_queue[i] = accepted[behind + i]
        /\ accepted[behind] = [pkt |-> tx_pkt.pkt, set_dup |-> tx_pkt.set_dup]
        /\ tx_pkt.pos < Size[tx_pkt.pkt]
    BY <1>4 DEF QueueIsAcceptedTail
  <2>3. accepted'[behind] = accepted[behind]
    <3> HIDE DEF e
    <3> QED
      BY <1>1, <1>2, <2>2, SMTT(30)
  <2>4. \A i \in DOMAIN internal_pkt_queue' : internal_pkt_queue'[i] = accepted'[behind + i]
    <3> HIDE DEF e
    <3> SUFFICES ASSUME NEW i \in DOMAIN internal_pkt_queue'
                 PROVE  internal_pkt_queue'[i] = accepted'[behind + i]
      OBVIOUS
    <3>1. CASE i = Len(internal_pkt_queue) + 1
      BY <3>1, <1>1, <1>2, <1>4, <2>2, SMTT(30)
    <3>2. CASE i # Len(internal_pkt_queue) + 1
      <4>1. i \in DOMAIN internal_pkt_queue
        BY <3>2, <1>1, <1>4
      <4>2. behind + i \in DOMAIN accepted
        BY <4>1, <1>1, <2>2
      <4>3. QED
        BY <4>1, <4>2, <1>1, <1>2, <1>4, <2>2, SMTT(30)
    <3>3. QED
      BY <3>1, <3>2
  <2>5. QED
    BY Zenon, <1>4, <2>1, <2>2, <2>3, <2>4 DEF QueueIsAcceptedTail
<1>5. QED
  BY <1>3, <1>4 DEF queue_internal_packet

\* Taking the first packet out of the queue.
LEMMA TailShorter ==
    ASSUME TypeOK, QueueIsAcceptedTail, internal_pkt_queue # <<>>,
           internal_pkt_queue' = Tail(internal_pkt_queue), UNCHANGED accepted,
           NEW behind, behind = Len(accepted) - Len(internal_pkt_queue)
    PROVE  /\ Len(accepted') - Len(internal_pkt_queue') = behind + 1
           /\ behind + 1 >= 1 /\ behind + 1 >= 0
           /\ accepted'[behind + 1] = Head(internal_pkt_queue)
           /\ Head(internal_pkt_queue) \in InternalPacket
           /\ \A i \in DOMAIN internal_pkt_queue' :
                internal_pkt_queue'[i] = accepted'[(behind + 1) + i]
<1>1. accepted \in Seq(InternalPacket) /\ internal_pkt_queue \in Seq(InternalPacket)
  BY Zenon DEF TypeOK
<1>2. /\ Head(internal_pkt_queue) \in InternalPacket
      /\ Head(internal_pkt_queue) = internal_pkt_queue[1]
      /\ Len(accepted') - Len(internal_pkt_queue') = behind + 1
      /\ 1 \in DOMAIN internal_pkt_queue /\ behind \in Int
  BY <1>1
<1>3. /\ behind >= 0
      /\ \A i \in DOMAIN internal_pkt_queue : internal_pkt_queue[i] = accepted[behind + i]
  BY DEF QueueIsAcceptedTail
<1>4. behind + 1 >= 1 /\ behind + 1 >= 0
  BY <1>2, <1>3
<1>5. accepted'[behind + 1] = Head(internal_pkt_queue)
  BY <1>2, <1>3
<1>6. ASSUME NEW i \in DOMAIN internal_pkt_queue'
      PROVE  internal_pkt_queue'[i] = accepted'[(behind + 1) + i]
  <2>1. i + 1 \in DOMAIN internal_pkt_queue /\ internal_pkt_queue'[i] = internal_pkt_queue[i + 1]
    BY <1>1
  <2>2. (behind + 1) + i = behind + (i + 1)
    BY <1>1, <1>2
  <2>3. QED
    BY Zenon, <2>1, <2>2, <1>3
<1> QED BY <1>2, <1>4, <1>5, <1>6

\* clear_tx_packet takes the next packet out of the queue and writes it.
LEMMA TailPop ==
    ASSUME TypeOK, QueueIsAcceptedTail, Popped
    PROVE  QueueIsAcceptedTail'
<1> DEFINE next == Head(internal_pkt_queue)
           behind == Len(accepted) - Len(internal_pkt_queue)
<1>1. /\ internal_pkt_queue # <<>> /\ internal_pkt_queue' = Tail(internal_pkt_queue)
      /\ UNCHANGED accepted /\ try_send_packet(next.pkt, next.set_dup)
      /\ tx_pkt' = None => pc' = "pop"
  BY DEF Popped
<1>2. /\ Len(accepted') - Len(internal_pkt_queue') = behind + 1
      /\ behind + 1 >= 1 /\ behind + 1 >= 0
      /\ accepted'[behind + 1] = next /\ next \in InternalPacket
      /\ \A i \in DOMAIN internal_pkt_queue' :
           internal_pkt_queue'[i] = accepted'[(behind + 1) + i]
  BY <1>1, TailShorter
<1>3. /\ next.pkt \in Packets /\ next.set_dup \in BOOLEAN
      /\ next = [pkt |-> next.pkt, set_dup |-> next.set_dup]
  BY <1>2 DEF InternalPacket
<1>4. tx_pkt' # None => /\ tx_pkt'.pkt = next.pkt /\ tx_pkt'.set_dup = next.set_dup
                        /\ tx_pkt'.pos < Size[tx_pkt'.pkt]
  BY <1>1, <1>3, TailFirst
<1> HIDE DEF behind, next
<1> QED BY <1>1, <1>2, <1>3, <1>4 DEF QueueIsAcceptedTail

\* A failed first write, of a packet taken out of the queue or not.
LEMMA TailFails ==
    ASSUME TypeOK, QueueIsAcceptedTail, Fails
    PROVE  QueueIsAcceptedTail'
<1> DEFINE behind == Len(accepted) - Len(internal_pkt_queue)
<1>1. tx_pkt' = None /\ broken' /\ UNCHANGED accepted
  BY DEF Fails, Lost
<1>2. CASE UNCHANGED internal_pkt_queue
  BY <1>1, <1>2 DEF QueueIsAcceptedTail
<1>3. CASE internal_pkt_queue # <<>> /\ internal_pkt_queue' = Tail(internal_pkt_queue)
  <2>1. /\ Len(accepted') - Len(internal_pkt_queue') = behind + 1 /\ behind + 1 >= 0
        /\ \A i \in DOMAIN internal_pkt_queue' :
             internal_pkt_queue'[i] = accepted'[(behind + 1) + i]
    BY <1>1, <1>3, TailShorter
  <2> HIDE DEF behind
  <2> QED BY <1>1, <2>1 DEF QueueIsAcceptedTail
<1> QED BY <1>2, <1>3 DEF Fails

\* Every step preserves the correspondence.
LEMMA TailStep ==
    ASSUME TypeOK, ControlInv, BootInv, QueueIsAcceptedTail, StreamKinds
    PROVE  QueueIsAcceptedTail'
<1>1. CASE Still
  <2>1. tx_pkt = None /\ pc' # "pop" /\ ~broken' => internal_pkt_queue = <<>>
    BY <1>1 DEF Still, QueueIsAcceptedTail
  <2> QED BY <1>1, <2>1, TailFrame DEF Still
<1>2. CASE Begun
  <2>1. tx_pkt # None /\ internal_pkt_queue = <<>> /\ tx_pkt.set_dup = FALSE
    BY <1>2 DEF Begun, ControlInv, BootInv
  <2>2. PICK n \in 0..Size[tx_pkt.pkt] : Transmit(tx_pkt.pkt, tx_pkt.set_dup, 0, n)
    BY Zenon, <1>2, <2>1 DEF Begun, try_send_packet
  <2> QED BY <1>2, <2>1, <2>2, TailWrite DEF Begun
<1>3. CASE Continued
  <2>1. tx_pkt # None /\ UNCHANGED <<internal_pkt_queue, accepted>>
    BY <1>3 DEF Continued, ControlInv
  <2>2. tx_pkt \in TxPacket
    BY <2>1, Zenon DEF TypeOK
  <2>3. tx_pkt.pkt \in Packets /\ tx_pkt.pos \in Nat
    BY <2>2 DEF TxPacket
  <2>4. PICK to \in (tx_pkt.pos + 1)..Size[tx_pkt.pkt] :
            /\ Transmit(tx_pkt.pkt, tx_pkt.set_dup, tx_pkt.pos, to)
            /\ pc' = IF to = Size[tx_pkt.pkt] THEN "pop" ELSE "write"
    BY <1>3 DEF Continued
  <2>5. to \in 0..Size[tx_pkt.pkt]
    BY <2>3, <2>4, SizeAssumption
  <2> QED BY <2>1, <2>3, <2>4, <2>5, TailWrite
<1>4. CASE Popped
  BY <1>4, TailPop
<1>5. ASSUME NEW p \in Packets, NEW dup \in BOOLEAN, Accepts(p, dup)
      PROVE  QueueIsAcceptedTail'
  BY <1>5, TailAccept DEF Accepts
<1>6. CASE Fails
  BY <1>6, TailFails
<1> QED BY <1>1, <1>2, <1>3, <1>4, <1>5, <1>6 DEF StreamKinds

\* Nothing goes back to the bootstrap.
LEMMA BootStep == TypeOK /\ ControlInv /\ BootInv /\ [Next]_vars => BootInv'
<1> SUFFICES ASSUME TypeOK, ControlInv, BootInv, [Next]_vars
             PROVE  BootInv'
  OBVIOUS
<1>1. StreamKinds
  BY StreamStep
<1>2. CASE Still
  BY <1>2 DEF Still, BootInv
<1>3. CASE Begun \/ Continued \/ Popped
  BY <1>3 DEF Begun, Continued, Popped, ControlInv, BootInv
<1>4. ASSUME NEW p \in Packets, NEW dup \in BOOLEAN, Accepts(p, dup) PROVE BootInv'
  BY <1>4 DEF Accepts, BootInv
<1>5. CASE Fails
  BY <1>5 DEF Fails, Lost, BootInv
<1> QED BY <1>1, <1>2, <1>3, <1>4, <1>5 DEF StreamKinds

\* Before the bootstrap the task holds the CONNECT packet, of which nothing has
\* been written, and has queued nothing (Transceiver::spawn).
THEOREM BootCorrect == Spec => []BootInv
<1>1. Init => BootInv
  BY DEF Init, BootInv
<1> QED BY <1>1, BootStep, ControlCorrect, PTL DEF Spec

\* tx_pkt and internal_pkt_queue hold exactly the packets that were accepted
\* and not yet completely written, in order, and the queue is empty whenever
\* a handler may call try_send_packet: queue_internal_packet never overtakes.
THEOREM QueueCorrect == Spec => []QueueIsAcceptedTail
<1>1. Init => BootInv /\ QueueIsAcceptedTail
  <2> SUFFICES ASSUME Init PROVE BootInv /\ QueueIsAcceptedTail
    OBVIOUS
  <2>1. BootInv
    BY DEF Init, BootInv
  <2>2. Size["CONNECT"] \in Nat \ {0}
    BY SizeAssumption DEF Packets
  <2>3. QueueIsAcceptedTail
    <3> DEFINE e == [pkt |-> "CONNECT", set_dup |-> FALSE]
    <3>1. /\ internal_pkt_queue = <<>> /\ accepted = <<e>>
          /\ tx_pkt.pkt = "CONNECT" /\ tx_pkt.pos = 0 /\ tx_pkt.set_dup = FALSE
          /\ tx_pkt # None
      <4>1. tx_pkt \in TxPacket
        BY DEF Init, TxPacket, Packets
      <4>2. QED
        BY Zenon, <4>1, NoneAssumption DEF Init
    <3>2. e = [pkt |-> tx_pkt.pkt, set_dup |-> tx_pkt.set_dup]
      BY Zenon, <3>1
    <3> HIDE DEF e
    <3>3. Len(accepted) = 1 /\ accepted[1] = e /\ Len(internal_pkt_queue) = 0
      BY <3>1
    <3>4. QED
      BY <2>2, <3>1, <3>2, <3>3, SMTT(30) DEF QueueIsAcceptedTail
  <2>4. QED
    BY <2>1, <2>3
<1>2. TypeOK /\ ControlInv /\ BootInv /\ QueueIsAcceptedTail /\ [Next]_vars
        => BootInv' /\ QueueIsAcceptedTail'
  BY TailStep, BootStep, StreamStep
<1>3. QED
  BY <1>1, <1>2, ControlCorrect, PTL DEF Spec

-----------------------------------------------------------------------------
(* The clocks.                                                             *)

\* How long the line has been quiet, against last_tx.
ClockInv ==
    /\ phase = "run" /\ tx_pkt = None /\ pc # "pop" => quiet <= last_tx
    /\ pc = "alarm" => last_tx <= PingInterval

\* A first write that completes its packet ends the quiet time.
LEMMA QuietFirst ==
    ASSUME NEW p \in Packets, NEW dup \in BOOLEAN, try_send_packet(p, dup),
           tx_pkt' = None
    PROVE  quiet' = 0
<1>1. PICK n \in 0..Size[p] : Transmit(p, dup, 0, n)
  BY DEF try_send_packet
<1>2. [pkt |-> p, pos |-> n, set_dup |-> dup] # None
  BY SizeAssumption, NoneAssumption DEF TxPacket
<1>3. QED
  BY <1>1, <1>2 DEF Transmit

\* A handler that transmits p leaves the clocks in order.
LEMMA ClockQueueThen ==
    ASSUME TypeOK, ControlInv, ClockInv, NEW p \in Packets, NEW dup \in BOOLEAN,
           NEW next \in {"select", "alarm"}, QueueThen(p, dup, next), pc # "pop",
           phase = "run", last_tx' \in {0, last_tx},
           next = "alarm" => last_tx' <= PingInterval
    PROVE  ClockInv'
<1>1. last_tx \in Nat /\ 0 <= last_tx'
  <2>1. last_tx \in 0..MaxQuiet
    BY Zenon DEF TypeOK
  <2>2. QED
    BY <2>1
<1>2. CASE queue_internal_packet(p, dup) /\ pc' = next /\ UNCHANGED phase
  <2>1. tx_pkt' = None => quiet' = 0
    BY <1>2, QuietFirst DEF queue_internal_packet
  <2>2. QED
    BY <1>1, <1>2, <2>1 DEF ClockInv
<1>3. CASE IoError
  BY <1>3 DEF IoError, ClockInv
<1>4. QED
  BY <1>2, <1>3 DEF QueueThen

\* The clocks are numbers.
LEMMA ClockTypes ==
    ASSUME TypeOK
    PROVE  last_tx \in Nat /\ quiet \in Nat /\ PingInterval \in Nat
<1>1. last_tx \in 0..MaxQuiet /\ quiet \in 0..MaxQuiet
  BY Zenon DEF TypeOK
<1>2. QED
  BY <1>1, BoundsAssumption

\* Every step preserves the relation between the clocks.
LEMMA ClockStep == TypeOK /\ ControlInv /\ ClockInv /\ [Next]_vars => ClockInv'
<1> SUFFICES ASSUME TypeOK, ControlInv, ClockInv, [Next]_vars
             PROVE  ClockInv'
  OBVIOUS
<1>1. CASE Bootstrap
  <2>1. tx_pkt \in TxPacket /\ pc = "select"
    BY <1>1, Zenon DEF Bootstrap, ControlInv, TypeOK
  <2>2. tx_pkt.pkt \in Packets
    BY <2>1 DEF TxPacket
  <2>3. CASE try_send_packet(tx_pkt.pkt, FALSE) /\ UNCHANGED <<pc, last_tx>>
    <3>1. tx_pkt' = None => quiet' = 0
      BY Zenon, <2>2, <2>3, QuietFirst
    <3>2. QED
      BY <2>1, <2>3, <3>1, ClockTypes DEF ClockInv
  <2>4. CASE IoError
    BY <1>1, <2>1, <2>4 DEF Bootstrap, IoError, ClockInv
  <2>5. QED
    BY <1>1, <2>3, <2>4, Zenon DEF Bootstrap
<1>2. CASE WriteReady
  BY <1>2, Zenon DEF ClockInv, ControlInv, txvars, WriteReady, writevars, Selecting
<1>3. CASE WriteSome
  <2>1. pc' \in {"pop", "write"} /\ (pc' = "write" => tx_pkt' # None)
    <3>1. ControlInv'
      BY ControlStep
    <3>2. pc' \in {"pop", "write"}
      BY <1>3, Zenon DEF WriteSome
    <3>3. QED
      BY <3>1, <3>2 DEF ControlInv
  <2>2. QED
    BY <2>1 DEF ClockInv
<1>4. CASE WouldBlock
  BY <1>4, Zenon DEF ClockInv, ControlInv, txvars, WouldBlock, writevars
<1>5. CASE WriteClosed
  BY <1>5, Zenon DEF ClockInv, ControlInv, txvars, WriteClosed, writevars
<1>6. CASE WriteFails
  BY <1>6, Zenon DEF WriteFails, IoError, ControlInv, ClockInv
<1>7. CASE PopNext
  <2>1. ControlInv' /\ pc' \in {"pop", "write", "select"}
    BY <1>7, ControlStep, Zenon DEF PopNext, IoError
  <2>2. pc' = "select" => phase' # "run"
    BY <1>7, Zenon DEF PopNext, IoError
  <2>3. QED
    BY <2>1, <2>2 DEF ControlInv, ClockInv
<1>8. CASE PopDone
  <2>1. quiet' = 0 /\ last_tx' = 0 /\ pc' = "select"
    BY <1>8 DEF PopDone, ControlInv, txvars
  <2>2. QED
    BY <2>1 DEF ClockInv
<1>9. ASSUME NEW r \in {"accepted", "refused"}, ReadFirst(r) PROVE ClockInv'
  BY <1>9 DEF ReadFirst, InLoop, txvars, ClockInv
<1>10. ASSUME NEW p \in Replies, ReadAndReply(p) PROVE ClockInv'
  <2>1. /\ QueueThen(p, FALSE, "select") /\ pc # "pop" /\ phase = "run"
        /\ last_tx' = last_tx
    BY Zenon, <1>10 DEF ReadAndReply, InLoop, ControlInv
  <2>2. p \in Packets
    BY DEF Packets
  <2>3. QED
    BY Zenon, <2>1, <2>2, ClockQueueThen
<1>11. CASE ReadClosed
  BY <1>11, Zenon DEF ClockInv, ControlInv, txvars, ReadClosed, InLoop
<1>12. CASE ReadFails
  BY <1>12, Zenon DEF ClockInv, ControlInv, txvars, ReadFails, InLoop
<1>13. CASE CommandSend
  <2>1. /\ QueueThen(Head(cmd_queue), FALSE, "select") /\ pc # "pop" /\ phase = "run"
        /\ last_tx' = last_tx
    BY Zenon, <1>13 DEF CommandSend, CommandBranch, InLoop, ControlInv
  <2>2. Head(cmd_queue) \in Packets
    BY <1>13 DEF CommandSend, Packets
  <2>3. QED
    BY Zenon, <2>1, <2>2, ClockQueueThen
<1>14. CASE CommandDisconnect
  BY <1>14, Zenon DEF ClockInv, ControlInv, txvars, CommandDisconnect, CommandBranch, InLoop
<1>14a. CASE CommandQuiet
  BY <1>14a, Zenon DEF ClockInv, ControlInv, txvars, CommandQuiet, CommandBranch, InLoop
<1>15. CASE CommandNone
  BY <1>15, Zenon DEF ClockInv, ControlInv, txvars, CommandNone, CommandBranch, InLoop
<1>16. CASE AlarmPing
  <2>1. /\ QueueThen("PINGREQ", FALSE, "alarm") /\ pc # "pop" /\ phase = "run"
        /\ last_tx' = 0
    BY Zenon, <1>16 DEF AlarmPing, InLoop, ControlInv
  <2>2. "PINGREQ" \in Packets
    BY DEF Packets
  <2>3. last_tx' <= PingInterval
    BY <1>16, ClockTypes, SMTT(30) DEF AlarmPing, ClockInv
  <2>4. QED
    BY Zenon, <2>1, <2>2, <2>3, ClockQueueThen
<1>17. CASE AlarmNoPing
  <2>1. connected => last_tx <= PingInterval
    BY <1>17, ClockTypes DEF AlarmNoPing, PingMustBeDue
  <2>2. QED
    BY <1>17, <2>1 DEF AlarmNoPing, InLoop, txvars, ClockInv
<1>18. ASSUME NEW p \in Submitted \cup Replies, AlarmResend(p) PROVE ClockInv'
  <2>1. /\ QueueThen(p, p \in Publishes, "alarm") /\ pc # "pop" /\ phase = "run"
        /\ last_tx' = last_tx
    BY <1>18 DEF AlarmResend, ControlInv
  <2>2. p \in Packets /\ (p \in Publishes) \in BOOLEAN
    BY DEF Packets
  <2>3. last_tx' <= PingInterval
    BY <1>18, ClockTypes DEF AlarmResend, ClockInv
  <2>4. QED
    BY Zenon, <2>1, <2>2, <2>3, ClockQueueThen
<1>19. CASE AlarmEnd
  BY <1>19, Zenon DEF ClockInv, ControlInv, txvars, AlarmEnd
<1>20. CASE SendDisconnect
  BY <1>20, Zenon DEF SendDisconnect, ControlInv, ClockInv
<1>21. CASE FlushDone
  BY <1>21, Zenon DEF ClockInv, ControlInv, txvars, FlushDone
<1>22. CASE ShutdownTimeout
  BY <1>22, Zenon DEF ClockInv, ControlInv, txvars, ShutdownTimeout
<1>23. CASE ConnectReturns
  BY <1>23, Zenon DEF ClockInv, ControlInv, txvars, ConnectReturns, taskvars
<1>24. CASE ConnectTimeout
  BY <1>24, Zenon DEF ClockInv, ControlInv, txvars, ConnectTimeout, taskvars
<1>25. ASSUME NEW p \in Submitted, ClientSubmit(p) PROVE ClockInv'
  BY <1>25, Zenon DEF ClockInv, ControlInv, txvars, ClientSubmit, Submit, taskvars
<1>26. CASE ClientDisconnect
  BY <1>26, Zenon DEF ClockInv, ControlInv, txvars, ClientDisconnect, Submit, taskvars
<1>27. CASE ClientDrop
  BY <1>27, Zenon DEF ClockInv, ControlInv, txvars, ClientDrop, taskvars
<1>28. CASE Tick
  <2>1. /\ quiet \in 0..MaxQuiet /\ last_tx \in 0..MaxQuiet
        /\ quiet' = Later(quiet) /\ last_tx' = Later(last_tx)
        /\ UNCHANGED <<phase, tx_pkt, pc>> /\ pc = "select"
    BY <1>28, Zenon DEF Tick, InLoop, TypeOK
  <2>2. quiet <= last_tx => quiet' <= last_tx'
    BY <2>1, BoundsAssumption DEF Later
  <2>3. QED
    BY <2>1, <2>2 DEF ClockInv
<1>29. CASE TransportBreaks
  BY <1>29, Zenon DEF ClockInv, ControlInv, txvars, TransportBreaks, taskvars
<1>30. CASE Terminated
  BY <1>30, Zenon DEF ClockInv, ControlInv, txvars, Terminated, vars
<1>31. CASE UNCHANGED vars
  BY <1>31, Zenon DEF ClockInv, ControlInv, txvars, vars
<1>32. QED
  BY <1>1, <1>2, <1>3, <1>4, <1>5, <1>6, <1>7, <1>8, <1>9, <1>10, <1>11,
     <1>12, <1>13, <1>14, <1>14a, <1>15, <1>16, <1>17, <1>18, <1>19, <1>20, <1>21,
     <1>22, <1>23, <1>24, <1>25, <1>26, <1>27, <1>28, <1>29, <1>30, <1>31
  DEF Next, WriteStep

\* Only the alarm branch runs while it is not finished, and it leaves last_tx
\* alone once it has looked at it.
LEMMA AlarmFrame == pc = "alarm" /\ [Next]_vars => last_tx' = last_tx
<1> SUFFICES ASSUME pc = "alarm", [Next]_vars
             PROVE  last_tx' = last_tx
  OBVIOUS
<1>1. CASE Bootstrap
  BY <1>1, Zenon DEF Bootstrap
<1>2. CASE WriteReady
  BY <1>2, Zenon DEF WriteReady, Selecting
<1>3. CASE WriteSome
  BY <1>3, Zenon DEF WriteSome
<1>4. CASE WouldBlock
  BY <1>4, Zenon DEF WouldBlock
<1>5. CASE WriteClosed
  BY <1>5, Zenon DEF WriteClosed
<1>6. CASE WriteFails
  BY <1>6, Zenon DEF WriteFails
<1>7. CASE PopNext
  BY <1>7, Zenon DEF PopNext
<1>8. CASE PopDone
  BY <1>8, Zenon DEF PopDone
<1>9. ASSUME NEW r \in {"accepted", "refused"}, ReadFirst(r) PROVE last_tx' = last_tx
  BY <1>9, Zenon DEF ReadFirst, InLoop
<1>10. ASSUME NEW p \in Replies, ReadAndReply(p) PROVE last_tx' = last_tx
  BY <1>10, Zenon DEF ReadAndReply, InLoop
<1>11. CASE ReadClosed
  BY <1>11, Zenon DEF ReadClosed, InLoop
<1>12. CASE ReadFails
  BY <1>12, Zenon DEF ReadFails, InLoop
<1>13. CASE CommandSend
  BY <1>13, Zenon DEF CommandSend, CommandBranch, InLoop
<1>14. CASE CommandDisconnect
  BY <1>14, Zenon DEF CommandDisconnect, CommandBranch, InLoop
<1>14a. CASE CommandQuiet
  BY <1>14a, Zenon DEF CommandQuiet, CommandBranch, InLoop
<1>15. CASE CommandNone
  BY <1>15, Zenon DEF CommandNone, CommandBranch, InLoop
<1>16. CASE AlarmPing
  BY <1>16, Zenon DEF AlarmPing, InLoop
<1>17. CASE AlarmNoPing
  BY <1>17, Zenon DEF AlarmNoPing, InLoop
<1>18. ASSUME NEW p \in Submitted \cup Replies, AlarmResend(p) PROVE last_tx' = last_tx
  BY <1>18, Zenon DEF AlarmResend
<1>19. CASE AlarmEnd
  BY <1>19, Zenon DEF AlarmEnd
<1>20. CASE SendDisconnect
  BY <1>20, Zenon DEF SendDisconnect
<1>21. CASE FlushDone
  BY <1>21, Zenon DEF FlushDone
<1>22. CASE ShutdownTimeout
  BY <1>22, Zenon DEF ShutdownTimeout
<1>23. CASE ConnectReturns
  BY <1>23, Zenon DEF ConnectReturns
<1>24. CASE ConnectTimeout
  BY <1>24, Zenon DEF ConnectTimeout
<1>25. ASSUME NEW p \in Submitted, ClientSubmit(p) PROVE last_tx' = last_tx
  BY <1>25, Zenon DEF ClientSubmit, Submit
<1>26. CASE ClientDisconnect
  BY <1>26, Zenon DEF ClientDisconnect, Submit
<1>27. CASE ClientDrop
  BY <1>27, Zenon DEF ClientDrop
<1>28. CASE Tick
  BY <1>28, Zenon DEF Tick, InLoop
<1>29. CASE TransportBreaks
  BY <1>29, Zenon DEF TransportBreaks
<1>30. CASE Terminated
  BY <1>30, Zenon DEF Terminated, vars
<1>31. CASE UNCHANGED vars
  BY <1>31, Zenon DEF vars
<1>32. QED
  BY <1>1, <1>2, <1>3, <1>4, <1>5, <1>6, <1>7, <1>8, <1>9, <1>10, <1>11,
     <1>12, <1>13, <1>14, <1>14a, <1>15, <1>16, <1>17, <1>18, <1>19, <1>20, <1>21,
     <1>22, <1>23, <1>24, <1>25, <1>26, <1>27, <1>28, <1>29, <1>30, <1>31
  DEF Next, WriteStep

\* A task that is not held up by its transport never lets more than
\* ping_interval pass without transmitting a packet, for every interval, even
\* though try_send_packet does not update last_tx.
THEOREM KeepAliveCorrect == Spec => KeepAlive
<1>1. Init => ClockInv
  BY DEF Init, ClockInv
<1>2. TypeOK /\ ControlInv /\ ClockInv /\ [Next]_vars => ClockInv'
  BY ClockStep
<1>3. /\ TypeOK /\ TypeOK' /\ ClockInv /\ ClockInv'
      /\ [Next]_vars
      => [pc = "alarm" /\ pc' = "select" /\ phase' = "run" /\ tx_pkt' = None
            => quiet' <= PingInterval]_vars
  <2> SUFFICES ASSUME TypeOK, TypeOK', ClockInv, ClockInv', [Next]_vars,
                      pc = "alarm", pc' = "select", phase' = "run", tx_pkt' = None
               PROVE  quiet' <= PingInterval
    OBVIOUS
  <2>1. quiet' <= last_tx' /\ last_tx <= PingInterval
    BY DEF ClockInv
  <2>2. last_tx' = last_tx
    BY AlarmFrame
  <2>3. last_tx \in Nat /\ PingInterval \in Nat
    BY ClockTypes
  <2>4. quiet' \in Nat
    <3>1. quiet' \in 0..MaxQuiet
      BY Zenon DEF TypeOK
    <3>2. QED
      BY <3>1
  <2>5. QED
    BY <2>1, <2>2, <2>3, <2>4
<1>4. QED
  BY <1>1, <1>2, <1>3, ControlCorrect, PTL DEF Spec, KeepAlive

-----------------------------------------------------------------------------
(* The shutdown status.                                                    *)

\* No step makes the reported status wrong.
LEMMA CleanStep == ControlInv /\ CleanMeansDisconnected /\ [Next]_vars => CleanMeansDisconnected'
<1> SUFFICES ASSUME ControlInv, CleanMeansDisconnected, [Next]_vars
             PROVE  CleanMeansDisconnected'
  OBVIOUS
<1>1. CASE Bootstrap
  BY <1>1, Zenon
  DEF CleanMeansDisconnected, ControlInv, connected, Bootstrap, IoError
<1>2. CASE WriteReady
  BY <1>2, Zenon
  DEF CleanMeansDisconnected, ControlInv, connected, WriteReady, writevars, Selecting
<1>3. CASE WriteSome
  BY <1>3, Zenon
  DEF CleanMeansDisconnected, ControlInv, connected, WriteSome, writevars
<1>4. CASE WouldBlock
  BY <1>4, Zenon
  DEF CleanMeansDisconnected, ControlInv, connected, WouldBlock, writevars
<1>5. CASE WriteClosed
  BY <1>5, Zenon
  DEF CleanMeansDisconnected, ControlInv, connected, WriteClosed, writevars
<1>6. CASE WriteFails
  BY <1>6, Zenon
  DEF CleanMeansDisconnected, ControlInv, connected, WriteFails, writevars, IoError
<1>7. CASE PopNext
  BY <1>7, Zenon
  DEF CleanMeansDisconnected, ControlInv, connected, PopNext, IoError, writevars
<1>8. CASE PopDone
  BY <1>8, Zenon
  DEF CleanMeansDisconnected, ControlInv, connected, PopDone, writevars
<1>9. ASSUME NEW r \in {"accepted", "refused"}, ReadFirst(r) PROVE CleanMeansDisconnected'
  BY <1>9, Zenon
  DEF CleanMeansDisconnected, ControlInv, connected, ReadFirst, InLoop
<1>10. ASSUME NEW p \in Replies, ReadAndReply(p) PROVE CleanMeansDisconnected'
  BY <1>10, Zenon
  DEF CleanMeansDisconnected, ControlInv, connected, ReadAndReply, QueueThen, IoError, InLoop
<1>11. CASE ReadClosed
  BY <1>11, Zenon
  DEF CleanMeansDisconnected, ControlInv, connected, ReadClosed, InLoop
<1>12. CASE ReadFails
  BY <1>12, Zenon
  DEF CleanMeansDisconnected, ControlInv, connected, ReadFails, InLoop
<1>13. CASE CommandSend
  BY <1>13, Zenon
  DEF CleanMeansDisconnected, ControlInv, connected, CommandSend, QueueThen, IoError, CommandBranch, InLoop
<1>14. CASE CommandDisconnect
  BY <1>14, Zenon
  DEF CleanMeansDisconnected, ControlInv, connected, CommandDisconnect, CommandBranch, InLoop
<1>14a. CASE CommandQuiet
  BY <1>14a, Zenon
  DEF CleanMeansDisconnected, ControlInv, connected, CommandQuiet, CommandBranch, InLoop
<1>15. CASE CommandNone
  BY <1>15, Zenon
  DEF CleanMeansDisconnected, ControlInv, connected, CommandNone, CommandBranch, InLoop
<1>16. CASE AlarmPing
  BY <1>16, Zenon
  DEF CleanMeansDisconnected, ControlInv, connected, AlarmPing, QueueThen, IoError, InLoop
<1>17. CASE AlarmNoPing
  BY <1>17, Zenon
  DEF CleanMeansDisconnected, ControlInv, connected, AlarmNoPing, InLoop
<1>18. ASSUME NEW p \in Submitted \cup Replies, AlarmResend(p) PROVE CleanMeansDisconnected'
  BY <1>18, Zenon
  DEF CleanMeansDisconnected, ControlInv, connected, AlarmResend, QueueThen, IoError
<1>19. CASE AlarmEnd
  BY <1>19, Zenon
  DEF CleanMeansDisconnected, ControlInv, connected, AlarmEnd
<1>20. CASE SendDisconnect
  BY <1>20, Zenon
  DEF CleanMeansDisconnected, ControlInv, connected, SendDisconnect
<1>21. CASE FlushDone
  BY <1>21, Zenon
  DEF CleanMeansDisconnected, ControlInv, connected, FlushDone
<1>22. CASE ShutdownTimeout
  BY <1>22, Zenon
  DEF CleanMeansDisconnected, ControlInv, connected, ShutdownTimeout
<1>23. CASE ConnectReturns
  BY <1>23, Zenon
  DEF CleanMeansDisconnected, ControlInv, connected, ConnectReturns, taskvars
<1>24. CASE ConnectTimeout
  BY <1>24, Zenon
  DEF CleanMeansDisconnected, ControlInv, connected, ConnectTimeout, taskvars
<1>25. ASSUME NEW p \in Submitted, ClientSubmit(p) PROVE CleanMeansDisconnected'
  BY <1>25, Zenon
  DEF CleanMeansDisconnected, ControlInv, connected, ClientSubmit, Submit, taskvars
<1>26. CASE ClientDisconnect
  BY <1>26, Zenon
  DEF CleanMeansDisconnected, ControlInv, connected, ClientDisconnect, Submit, taskvars
<1>27. CASE ClientDrop
  BY <1>27, Zenon
  DEF CleanMeansDisconnected, ControlInv, connected, ClientDrop, taskvars
<1>28. CASE Tick
  BY <1>28, Zenon
  DEF CleanMeansDisconnected, ControlInv, connected, Tick, InLoop
<1>29. CASE TransportBreaks
  BY <1>29, Zenon
  DEF CleanMeansDisconnected, ControlInv, connected, TransportBreaks, taskvars
<1>30. CASE Terminated
  BY <1>30, Zenon
  DEF CleanMeansDisconnected, ControlInv, connected, Terminated, vars
<1>31. CASE UNCHANGED vars
  BY <1>31, Zenon
  DEF CleanMeansDisconnected, ControlInv, connected, vars
<1>32. QED
  BY <1>1, <1>2, <1>3, <1>4, <1>5, <1>6, <1>7, <1>8, <1>9, <1>10, <1>11,
     <1>12, <1>13, <1>14, <1>14a, <1>15, <1>16, <1>17, <1>18, <1>19, <1>20, <1>21,
     <1>22, <1>23, <1>24, <1>25, <1>26, <1>27, <1>28, <1>29, <1>30, <1>31
  DEF Next, WriteStep

\* A clean ShutdownStatus of a connection that was up implies that DISCONNECT
\* was sent, unless a write met the end of the connection: no error path of
\* task() and disconnect_sequence reports more than it did.
THEOREM CleanCorrect == Spec => []CleanMeansDisconnected
<1>1. Init => CleanMeansDisconnected
  BY DEF Init, CleanMeansDisconnected
<1>2. ControlInv /\ CleanMeansDisconnected /\ [Next]_vars => CleanMeansDisconnected'
  BY CleanStep
<1>3. QED
  BY <1>1, <1>2, ControlCorrect, PTL DEF Spec

=============================================================================
