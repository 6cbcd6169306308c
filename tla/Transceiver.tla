---------------------------- MODULE Transceiver ----------------------------
(***************************************************************************)
(* The transceiver task of the client (src/transceiver/mod.rs) seen from   *)
(* its transmit path: the packet being transmitted, the queue behind it,   *)
(* the bytes it hands to the transport, the `select!` loop that drives it, *)
(* and the two ends of its life, the CONNECT/CONNACK exchange and the      *)
(* disconnect sequence.  Client::connect (src/lib.rs) is the process that  *)
(* waits for the connection result and then owns the command channel.      *)
(*                                                                         *)
(* A packet is a name with an encoded length; what it says is of no        *)
(* interest here.  The transport is a byte pipe: every write takes as many *)
(* bytes as it likes, and once it has failed it keeps failing.  The task   *)
(* is one thread: `phase` says which part of task() it is in and `pc`      *)
(* where it stands inside a handler that takes several writes.             *)
(***************************************************************************)
EXTENDS Naturals, Sequences

CONSTANTS
    Publishes,      \* the PUBLISH packets the client's owner may submit
    Requests,       \* the SUBSCRIBE and UNSUBSCRIBE packets commands may cause
    Replies,        \* PUBACK, PUBREC, PUBREL, PUBCOMP: packets queued by the task
    Size,           \* Size[p]: number of bytes of packet p
    PingInterval,   \* ping_interval, in alarm ticks (one second each)
    MaxAccepted,    \* bound: packets handed to the transmit path
    MaxQuiet,       \* bound: value at which the two clocks stop counting
    CmdCapacity,    \* capacity of the command channel
    None            \* the Option::None of tx_pkt

Submitted == Publishes \cup Requests
Packets == Submitted \cup Replies \cup {"CONNECT", "PINGREQ", "DISCONNECT"}
Commands == Submitted \cup {"Disconnect"}
InternalPacket == [pkt : Packets, set_dup : BOOLEAN]
Bytes == [pkt : Packets, idx : Nat \ {0}, dup : BOOLEAN]
TxPacket == [pkt : Packets, pos : Nat, set_dup : BOOLEAN]

ASSUME SizeAssumption == Size \in [Packets -> Nat \ {0}]
ASSUME NoneAssumption == None \notin TxPacket
ASSUME BoundsAssumption == /\ PingInterval \in Nat
                           /\ MaxAccepted \in Nat
                           /\ CmdCapacity \in Nat \ {0}
                           /\ MaxQuiet \in Nat
                           /\ MaxQuiet > PingInterval + 1
ASSUME NamesAssumption ==
    /\ Submitted \cap {"CONNECT", "PINGREQ", "DISCONNECT", "Disconnect"} = {}
    /\ Replies \cap {"CONNECT", "PINGREQ", "DISCONNECT", "Disconnect"} = {}

VARIABLES
    phase,          \* which part of task(): boot, run, stop, flush or done
    pc,             \* inside a handler: select, write, pop or alarm
    tx_pkt,         \* the packet being transmitted, or None
    internal_pkt_queue,
    wire,           \* history: every byte the transport has taken
    accepted,       \* history: every packet given to the transmit path
    connect_sig,    \* "armed", or what was sent on it
    cmd_queue,      \* the command channel
    senders,        \* some sender of the command channel is alive
    cmd_queue_closed,
    alarm_due,      \* a tick of `alarm` is waiting to be served
    last_tx,        \* alarm ticks since last_tx was set
    quiet,          \* history: alarm ticks since a packet was completely written
    broken,         \* the transport fails from now on
    closed,         \* a write has reported the end of the connection
    disconnect_sent,
    clean,
    client          \* where Client::connect and the owner of the client are

txvars == <<tx_pkt, internal_pkt_queue, wire, accepted, quiet>>
cmdvars == <<cmd_queue, senders, cmd_queue_closed>>
vars == <<phase, pc, txvars, connect_sig, cmdvars, alarm_due, last_tx, broken,
          closed, disconnect_sent, clean, client>>

connected == connect_sig # "armed"

Init ==
    /\ phase = "boot"
    /\ pc = "select"
    /\ tx_pkt = [pkt |-> "CONNECT", pos |-> 0, set_dup |-> FALSE]
    /\ internal_pkt_queue = <<>>
    /\ wire = <<>>
    /\ accepted = <<[pkt |-> "CONNECT", set_dup |-> FALSE]>>
    /\ connect_sig = "armed"
    /\ cmd_queue = <<>>
    /\ senders = TRUE
    /\ cmd_queue_closed = FALSE
    /\ alarm_due = FALSE
    /\ last_tx = 0
    /\ quiet = 0
    /\ broken = FALSE
    /\ closed = FALSE
    /\ disconnect_sent = FALSE
    /\ clean = TRUE
    /\ client = "connecting"

-----------------------------------------------------------------------------
(* The transmit path.                                                      *)

\* Bytes from+1 .. to of packet p; only its first byte can carry DUP.
Slice(p, dup, from, to) ==
    [i \in 1..(to - from) |-> [pkt |-> p, idx |-> from + i, dup |-> dup /\ from + i = 1]]

\* Fault: the position is not advanced by a partial write.
TransmitForgetsPos(p, dup, from, to) ==
    /\ wire' = wire \o Slice(p, dup, from, to)
    /\ tx_pkt' = IF to = Size[p] THEN None
                                 ELSE [pkt |-> p, pos |-> from, set_dup |-> dup]
    /\ quiet' = IF to = Size[p] THEN 0 ELSE quiet

\* The transport takes bytes from+1 .. to of p; p stays in tx_pkt until it
\* is complete.
Transmit(p, dup, from, to) ==
    /\ wire' = wire \o Slice(p, dup, from, to)
    /\ tx_pkt' = IF to = Size[p] THEN None
                                 ELSE [pkt |-> p, pos |-> to, set_dup |-> dup]
    /\ quiet' = IF to = Size[p] THEN 0 ELSE quiet

\* A first write, which may take nothing.
try_send_packet(p, dup) ==
    /\ ~broken
    /\ \E n \in 0..Size[p] : Transmit(p, dup, 0, n)

\* Fault: the packet is put in front of those that wait.
QueueInFront(p, dup) ==
    /\ accepted' = Append(accepted, [pkt |-> p, set_dup |-> dup])
    /\ \/ /\ tx_pkt = None
          /\ try_send_packet(p, dup)
          /\ UNCHANGED internal_pkt_queue
       \/ /\ tx_pkt # None
          /\ internal_pkt_queue' = <<[pkt |-> p, set_dup |-> dup]>> \o internal_pkt_queue
          /\ UNCHANGED <<tx_pkt, wire, quiet>>

queue_internal_packet(p, dup) ==
    /\ accepted' = Append(accepted, [pkt |-> p, set_dup |-> dup])
    /\ \/ /\ tx_pkt = None
          /\ try_send_packet(p, dup)
          /\ UNCHANGED internal_pkt_queue
       \/ /\ tx_pkt # None
          /\ internal_pkt_queue' = Append(internal_pkt_queue, [pkt |-> p, set_dup |-> dup])
          /\ UNCHANGED <<tx_pkt, wire, quiet>>

\* `?` on an error of the transport: the main loop ends and the disconnect
\* sequence follows; during the flush the error ends the sequence.
IoError ==
    /\ broken
    /\ pc' = "select"
    /\ IF phase = "flush"
       THEN phase' = "done" /\ clean' = FALSE
       ELSE phase' = "stop" /\ UNCHANGED clean
    /\ UNCHANGED <<wire, quiet, accepted>>

\* A handler gives p to queue_internal_packet and goes on at `next`.
QueueThen(p, dup, next) ==
    \/ /\ queue_internal_packet(p, dup)
       /\ pc' = next
       /\ UNCHANGED <<phase, clean>>
    \/ /\ tx_pkt = None
       /\ IoError
       /\ UNCHANGED <<tx_pkt, internal_pkt_queue>>

\* run_task_loop takes the CONNECT packet out of tx_pkt and sends it.
Bootstrap ==
    /\ phase = "boot"
    /\ \/ /\ try_send_packet(tx_pkt.pkt, FALSE)
          /\ phase' = "run"
          /\ UNCHANGED <<accepted, pc, clean>>
       \/ IoError /\ tx_pkt' = None
    /\ UNCHANGED <<internal_pkt_queue, connect_sig, cmdvars, alarm_due, last_tx,
                   broken, closed, disconnect_sent, client>>

-----------------------------------------------------------------------------
(* The write branch of the two select! loops, one action per iteration of  *)
(* continue_writing_packet and of the loop of clear_tx_packet it calls.    *)

writevars == <<connect_sig, cmdvars, alarm_due, broken, client>>

Selecting == phase \in {"run", "flush"} /\ pc = "select"

WriteReady ==
    /\ Selecting
    /\ tx_pkt # None
    /\ pc' = "write"
    /\ UNCHANGED <<phase, txvars, last_tx, closed, disconnect_sent, clean, writevars>>

\* Fault: clear_tx_packet is not called when the packet is complete.
WriteWithoutClear ==
    /\ pc = "write"
    /\ ~broken
    /\ \E to \in (tx_pkt.pos + 1)..Size[tx_pkt.pkt] :
        /\ tx_pkt.set_dup /\ tx_pkt.pos = 0 => to = 1
        /\ Transmit(tx_pkt.pkt, tx_pkt.set_dup, tx_pkt.pos, to)
        /\ pc' = IF to = Size[tx_pkt.pkt] THEN "select" ELSE "write"
    /\ UNCHANGED <<phase, internal_pkt_queue, accepted, last_tx, closed,
                   disconnect_sent, clean, writevars>>

\* One write that takes at least a byte.  The DUP byte is written alone.
\* When the packet is complete clear_tx_packet takes over.
WriteSome ==
    /\ pc = "write"
    /\ ~broken
    /\ \E to \in (tx_pkt.pos + 1)..Size[tx_pkt.pkt] :
        /\ tx_pkt.set_dup /\ tx_pkt.pos = 0 => to = 1
        /\ Transmit(tx_pkt.pkt, tx_pkt.set_dup, tx_pkt.pos, to)
        /\ pc' = IF to = Size[tx_pkt.pkt] THEN "pop" ELSE "write"
    /\ UNCHANGED <<phase, internal_pkt_queue, accepted, last_tx, closed,
                   disconnect_sent, clean, writevars>>

WouldBlock ==
    /\ pc = "write"
    /\ ~broken
    /\ pc' = "select"
    /\ UNCHANGED <<phase, txvars, last_tx, closed, disconnect_sent, clean, writevars>>

\* write() returns 0.  The main loop ends without a disconnect sequence; the
\* flush just stops flushing.
WriteClosed ==
    /\ pc = "write"
    /\ pc' = "select"
    /\ closed' = TRUE
    /\ phase' = "done"
    /\ clean' = (clean /\ phase = "flush")
    /\ UNCHANGED <<txvars, last_tx, disconnect_sent, writevars>>

WriteFails ==
    /\ pc = "write"
    /\ IoError
    /\ UNCHANGED <<tx_pkt, internal_pkt_queue, last_tx, closed, disconnect_sent, writevars>>

\* clear_tx_packet: the next packet of the queue.
PopNext ==
    /\ pc = "pop"
    /\ internal_pkt_queue # <<>>
    /\ internal_pkt_queue' = Tail(internal_pkt_queue)
    /\ LET next == Head(internal_pkt_queue) IN
        \/ /\ try_send_packet(next.pkt, next.set_dup)
           /\ IF tx_pkt' = None
              THEN UNCHANGED <<pc, last_tx>>
              ELSE pc' = "write" /\ last_tx' = 0
           /\ UNCHANGED <<phase, clean, accepted>>
        \/ IoError /\ UNCHANGED <<tx_pkt, last_tx>>
    /\ UNCHANGED <<closed, disconnect_sent, writevars>>

PopDone ==
    /\ pc = "pop"
    /\ internal_pkt_queue = <<>>
    /\ pc' = "select"
    /\ last_tx' = 0
    /\ UNCHANGED <<phase, txvars, closed, disconnect_sent, clean, writevars>>

-----------------------------------------------------------------------------
(* The read branch.  The packets it handles matter here only by what they  *)
(* make the task transmit.                                                 *)

InLoop == phase = "run" /\ pc = "select"
Budget == Len(accepted) < MaxAccepted

\* The first packet settles the connection: CONNACK with a return code, or
\* anything else, which is a protocol error.  The task takes it whatever has
\* become of its CONNECT.
ReadFirst(result) ==
    /\ InLoop
    /\ ~connected
    /\ connect_sig' = result
    /\ phase' = IF result = "accepted" THEN "run" ELSE "stop"
    /\ UNCHANGED <<pc, txvars, cmdvars, alarm_due, last_tx, broken, closed,
                   disconnect_sent, clean, client>>

\* A packet that has to be answered with p.
ReadAndReply(p) ==
    /\ InLoop
    /\ connected
    /\ Budget
    /\ QueueThen(p, FALSE, "select")
    /\ UNCHANGED <<connect_sig, cmdvars, alarm_due, last_tx, broken, closed,
                   disconnect_sent, client>>

\* The peer has closed the connection: task() returns without a disconnect
\* sequence.
ReadClosed ==
    /\ InLoop
    /\ phase' = "done"
    /\ clean' = FALSE
    /\ UNCHANGED <<pc, txvars, connect_sig, cmdvars, alarm_due, last_tx, broken,
                   closed, disconnect_sent, client>>

\* The transport fails to read, or the bytes read are not a packet.
ReadFails ==
    /\ InLoop
    /\ phase' = "stop"
    /\ UNCHANGED <<pc, txvars, connect_sig, cmdvars, alarm_due, last_tx, broken,
                   closed, disconnect_sent, clean, client>>

-----------------------------------------------------------------------------
(* The command branch and the alarm branch.                                *)

CommandBranch == InLoop /\ ~cmd_queue_closed /\ connected /\ tx_pkt = None

\* A command that makes the task transmit a packet.
CommandSend ==
    /\ CommandBranch
    /\ cmd_queue # <<>> /\ Head(cmd_queue) \in Submitted
    /\ cmd_queue' = Tail(cmd_queue)
    /\ QueueThen(Head(cmd_queue), FALSE, "select")
    /\ UNCHANGED <<connect_sig, senders, cmd_queue_closed, alarm_due, last_tx,
                   broken, closed, disconnect_sent, client>>

\* One that does not: a topic that is subscribed already, one that is not
\* subscribed any more or has a callback left, or an invalid one.
CommandQuiet ==
    /\ CommandBranch
    /\ cmd_queue # <<>> /\ Head(cmd_queue) \in Requests
    /\ cmd_queue' = Tail(cmd_queue)
    /\ UNCHANGED <<phase, pc, txvars, connect_sig, senders, cmd_queue_closed, alarm_due,
                   last_tx, broken, closed, disconnect_sent, clean, client>>

CommandDisconnect ==
    /\ CommandBranch
    /\ cmd_queue # <<>> /\ Head(cmd_queue) = "Disconnect"
    /\ cmd_queue' = Tail(cmd_queue)
    /\ phase' = "stop"
    /\ UNCHANGED <<pc, txvars, connect_sig, senders, cmd_queue_closed, alarm_due,
                   last_tx, broken, closed, disconnect_sent, clean, client>>

\* Fault: the branch is disabled as soon as the senders are gone.
CommandNoneEarly ==
    /\ CommandBranch
    /\ ~senders
    /\ cmd_queue_closed' = TRUE
    /\ UNCHANGED <<phase, pc, txvars, connect_sig, cmd_queue, senders, alarm_due,
                   last_tx, broken, closed, disconnect_sent, clean, client>>

CommandNone ==
    /\ CommandBranch
    /\ cmd_queue = <<>> /\ ~senders
    /\ cmd_queue_closed' = TRUE
    /\ UNCHANGED <<phase, pc, txvars, connect_sig, cmd_queue, senders, alarm_due,
                   last_tx, broken, closed, disconnect_sent, clean, client>>

\* last_tx.elapsed() >= ping_interval: last_tx was set between two ticks, so
\* the tick that completes the interval may come just before it has elapsed.
PingMayBeDue == last_tx >= PingInterval
PingDueLate == last_tx > PingInterval + 1  \* Fault: one tick too late.
PingMustBeDue == last_tx > PingInterval \/ PingInterval = 0

AlarmPing ==
    /\ InLoop
    /\ alarm_due
    /\ connected
    /\ Budget
    /\ PingMayBeDue
    /\ alarm_due' = FALSE
    /\ last_tx' = 0
    /\ QueueThen("PINGREQ", FALSE, "alarm")
    /\ UNCHANGED <<connect_sig, cmdvars, broken, closed, disconnect_sent, client>>

AlarmNoPing ==
    /\ InLoop
    /\ alarm_due
    /\ connected => ~PingMustBeDue
    /\ alarm_due' = FALSE
    /\ pc' = IF connected THEN "alarm" ELSE "select"
    /\ UNCHANGED <<phase, txvars, connect_sig, cmdvars, last_tx, broken, closed,
                   disconnect_sent, clean, client>>

WasAccepted(p) == \E i \in DOMAIN accepted : accepted[i].pkt = p

\* The loop over timeout_queue: p is still awaiting its answer.  A PUBLISH is
\* sent again with DUP, another packet as it was.
AlarmResend(p) ==
    /\ pc = "alarm"
    /\ Budget
    /\ WasAccepted(p)
    /\ QueueThen(p, p \in Publishes, "alarm")
    /\ UNCHANGED <<connect_sig, cmdvars, alarm_due, last_tx, broken, closed,
                   disconnect_sent, client>>

AlarmEnd ==
    /\ pc = "alarm"
    /\ pc' = "select"
    /\ UNCHANGED <<phase, txvars, connect_sig, cmdvars, alarm_due, last_tx, broken,
                   closed, disconnect_sent, clean, client>>

-----------------------------------------------------------------------------
(* The end of task(): disconnect_sequence under its two-second timeout.    *)
(* send_close_notify has nothing to do on a plain TCP transport.           *)

SendDisconnect ==
    /\ phase = "stop"
    /\ IF connected
       THEN \/ /\ queue_internal_packet("DISCONNECT", FALSE)
               /\ phase' = "flush"
               /\ UNCHANGED clean
            \/ /\ tx_pkt = None /\ broken
               /\ phase' = "done"
               /\ clean' = FALSE
               /\ UNCHANGED txvars
       ELSE phase' = "done" /\ UNCHANGED <<clean, txvars>>
    /\ UNCHANGED <<pc, connect_sig, cmdvars, alarm_due, last_tx, broken, closed,
                   disconnect_sent, client>>

\* Fault: the flush does not wait for the packet in transmission.
FlushDoneEarly ==
    /\ phase = "flush" /\ pc = "select"
    /\ disconnect_sent' = TRUE
    /\ phase' = "done"
    /\ UNCHANGED <<pc, txvars, connect_sig, cmdvars, alarm_due, last_tx, broken,
                   closed, clean, client>>

FlushDone ==
    /\ phase = "flush" /\ pc = "select"
    /\ tx_pkt = None
    /\ disconnect_sent' = TRUE
    /\ phase' = "done"
    /\ UNCHANGED <<pc, txvars, connect_sig, cmdvars, alarm_due, last_tx, broken,
                   closed, clean, client>>

\* Fault: a sequence cut short by its timeout is still reported clean.
ShutdownTimeoutClean ==
    /\ phase = "flush" /\ pc = "select"
    /\ tx_pkt # None
    /\ phase' = "done"
    /\ UNCHANGED <<pc, txvars, connect_sig, cmdvars, alarm_due, last_tx, broken,
                   closed, disconnect_sent, clean, client>>

\* Fault: the timeout covers a stalled peer only once the transport is broken.
ShutdownTimeoutBroken ==
    /\ broken
    /\ ShutdownTimeoutClean

ShutdownTimeout ==
    /\ phase = "flush" /\ pc = "select"
    /\ tx_pkt # None
    /\ clean' = FALSE
    /\ phase' = "done"
    /\ UNCHANGED <<pc, txvars, connect_sig, cmdvars, alarm_due, last_tx, broken,
                   closed, disconnect_sent, client>>

-----------------------------------------------------------------------------
(* The environment: Client::connect, the owner of the client, the clock    *)
(* and the transport.                                                      *)

taskvars == <<phase, pc, txvars, connect_sig, cmd_queue_closed, disconnect_sent,
              clean, closed>>

\* conn_rx yields a result, or the error of a oneshot channel whose sender
\* was dropped with the task.
ConnectReturns ==
    /\ client = "connecting"
    /\ \/ connect_sig = "accepted" /\ client' = "up" /\ UNCHANGED senders
       \/ connect_sig = "refused" /\ client' = "refused" /\ senders' = FALSE
       \/ /\ connect_sig = "armed" /\ phase = "done"
          /\ client' = "oneshot error" /\ senders' = FALSE
    /\ UNCHANGED <<taskvars, cmd_queue, alarm_due, last_tx, broken>>

\* mqtt_connect_timeout: ask the task to stop and drop the sender.
ConnectTimeout ==
    /\ client = "connecting"
    /\ connect_sig = "armed" /\ phase # "done"
    /\ client' = "timed out"
    /\ cmd_queue' = Append(cmd_queue, "Disconnect")
    /\ senders' = FALSE
    /\ UNCHANGED <<taskvars, alarm_due, last_tx, broken>>

\* A method of the client sends a command; the receiver lives as long as the
\* task.
Submit(cmd) ==
    /\ client = "up" /\ senders
    /\ phase # "done"
    /\ Len(cmd_queue) < CmdCapacity
    /\ cmd_queue' = Append(cmd_queue, cmd)
    /\ UNCHANGED <<taskvars, senders, alarm_due, last_tx, broken, client>>

Queued(cmd) == \E i \in DOMAIN cmd_queue : cmd_queue[i] = cmd

ClientSubmit(p) == ~WasAccepted(p) /\ ~Queued(p) /\ Submit(p)
ClientDisconnect == ~Queued("Disconnect") /\ Submit("Disconnect")

ClientDrop ==
    /\ client = "up" /\ senders
    /\ senders' = FALSE
    /\ UNCHANGED <<taskvars, cmd_queue, alarm_due, last_tx, broken, client>>

Later(ticks) == IF ticks < MaxQuiet THEN ticks + 1 ELSE ticks

\* A second passes.  No handler awaits, so none is under way; the alarm of
\* the previous second has been served.
Tick ==
    /\ InLoop
    /\ ~alarm_due
    /\ alarm_due' = TRUE
    /\ last_tx' = Later(last_tx)
    /\ quiet' = Later(quiet)
    /\ UNCHANGED <<phase, pc, tx_pkt, internal_pkt_queue, wire, accepted, connect_sig,
                   cmdvars, broken, closed, disconnect_sent, clean, client>>

TransportBreaks ==
    /\ phase # "done"
    /\ ~broken
    /\ broken' = TRUE
    /\ UNCHANGED <<taskvars, cmd_queue, senders, alarm_due, last_tx, client>>

Terminated == phase = "done" /\ client # "connecting" /\ UNCHANGED vars

WriteStep == WriteSome \/ WouldBlock \/ WriteClosed \/ WriteFails \/ PopNext \/ PopDone

Next ==
    \/ Bootstrap
    \/ WriteReady \/ WriteStep
    \/ \E r \in {"accepted", "refused"} : ReadFirst(r)
    \/ \E p \in Replies : ReadAndReply(p)
    \/ ReadClosed \/ ReadFails
    \/ CommandSend \/ CommandQuiet \/ CommandDisconnect \/ CommandNone
    \/ AlarmPing \/ AlarmNoPing
    \/ \E p \in Submitted \cup Replies : AlarmResend(p)
    \/ AlarmEnd
    \/ SendDisconnect \/ FlushDone \/ ShutdownTimeout
    \/ ConnectReturns \/ ConnectTimeout
    \/ \E p \in Submitted : ClientSubmit(p)
    \/ ClientDisconnect \/ ClientDrop
    \/ Tick \/ TransportBreaks \/ Terminated

Spec == Init /\ [][Next]_vars

\* The executor polls the task, and select! polls its branches in a random
\* order: what the task can do without its peer it does in the end, and a
\* command that is ready again and again is taken.  A broken transport is
\* ready: its error is waiting.
FairSpec ==
    /\ Spec
    /\ SF_vars(broken /\ WriteReady)
    /\ WF_vars(Bootstrap)
    /\ WF_vars(WriteStep)
    /\ WF_vars(AlarmEnd)
    /\ SF_vars(CommandSend \/ CommandQuiet) /\ SF_vars(CommandDisconnect)
    /\ WF_vars(SendDisconnect) /\ WF_vars(FlushDone) /\ SF_vars(ShutdownTimeout)

\* The transmit path is empty again and again, or the transport has failed.
\* That the peer keeps reading is not enough for it: a peer that reads more
\* slowly than packets are queued keeps tx_pkt occupied.
PathClears == []<>(broken \/ (tx_pkt = None /\ pc = "select"))

-----------------------------------------------------------------------------
(* Properties.                                                             *)

\* Every variable keeps the type its field has in the code.
TypeOK ==
    /\ phase \in {"boot", "run", "stop", "flush", "done"}
    /\ pc \in {"select", "write", "pop", "alarm"}
    /\ tx_pkt \in TxPacket \cup {None}
    /\ internal_pkt_queue \in Seq(InternalPacket)
    /\ wire \in Seq(Bytes)
    /\ accepted \in Seq(InternalPacket)
    /\ connect_sig \in {"armed", "accepted", "refused"}
    /\ cmd_queue \in Seq(Commands)
    /\ senders \in BOOLEAN /\ cmd_queue_closed \in BOOLEAN
    /\ alarm_due \in BOOLEAN
    /\ last_tx \in 0..MaxQuiet /\ quiet \in 0..MaxQuiet
    /\ broken \in BOOLEAN /\ closed \in BOOLEAN
    /\ disconnect_sent \in BOOLEAN /\ clean \in BOOLEAN
    /\ client \in {"connecting", "up", "refused", "oneshot error", "timed out"}

\* All bytes of a packet.
Whole(e) == Slice(e.pkt, e.set_dup, 0, Size[e.pkt])

\* The bytes of the first n of these packets, one packet after the other.
Encoding(pkts, n) ==
    LET enc[i \in 0..n] == IF i = 0 THEN <<>> ELSE enc[i - 1] \o Whole(pkts[i])
    IN enc[n]

\* What the transport has been given is, to the byte, a prefix of the
\* packets in the order the handlers produced them: no packet is torn,
\* overtaken, dropped or doubled by partial writes, and DUP is on the first
\* byte of the packets queued with set_dup and nowhere else
\* (try_send_packet, continue_writing_packet, clear_tx_packet).
WireIsAcceptedStream ==
    LET all == Encoding(accepted, Len(accepted)) IN
    /\ Len(wire) <= Len(all)
    /\ wire = SubSeq(all, 1, Len(wire))

\* tx_pkt and internal_pkt_queue are exactly the accepted packets that are
\* not completely written, in order; whenever the task is back in select!
\* with no packet in transmission the queue is empty, as the comment of
\* queue_internal_packet claims, unless a write has failed.
QueueIsAcceptedTail ==
    LET behind == Len(accepted) - Len(internal_pkt_queue) IN
    /\ behind >= 0
    /\ \A i \in DOMAIN internal_pkt_queue : internal_pkt_queue[i] = accepted[behind + i]
    /\ tx_pkt # None =>
        /\ behind >= 1
        /\ accepted[behind] = [pkt |-> tx_pkt.pkt, set_dup |-> tx_pkt.set_dup]
        /\ tx_pkt.pos < Size[tx_pkt.pkt]
    /\ tx_pkt = None /\ pc # "pop" /\ ~broken => internal_pkt_queue = <<>>

\* Whenever the alarm branch ends on a connected task that is not held up by
\* the transport, the last complete packet is at most ping_interval old,
\* although last_tx is not updated by packets that are written at once.
KeepAlive ==
    [][pc = "alarm" /\ pc' = "select" /\ phase' = "run" /\ tx_pkt' = None
        => quiet' <= PingInterval]_vars

\* disconnect_sent is reported only if every packet ever accepted, and the
\* DISCONNECT packet as the last of them, has been handed to the transport.
DisconnectSentMeansFlushed ==
    disconnect_sent =>
        /\ wire = Encoding(accepted, Len(accepted))
        /\ accepted[Len(accepted)].pkt = "DISCONNECT"
        /\ \A i \in 1..(Len(accepted) - 1) : accepted[i].pkt # "DISCONNECT"

\* A clean shutdown of a connection that was up is one whose DISCONNECT was
\* sent, unless the flush met the end of the connection.
CleanMeansDisconnected ==
    phase = "done" /\ clean /\ connected /\ ~closed => disconnect_sent

\* The disconnect sequence always ends, whatever the peer does, because of
\* its two-second timeout.
ShutdownEnds == (phase \in {"stop", "flush"}) ~> (phase = "done")

\* A connected task that has been asked to disconnect ends, whatever commands
\* are ahead of the request and even when every sender is gone, provided that
\* the transmit path clears: commands are not taken while a packet is in
\* transmission (the guard of the command branch in task_step).
DisconnectObeyed ==
    PathClears => ((connected /\ Queued("Disconnect")) ~> (phase = "done"))

\* A PINGREQ follows a full ping_interval without any transmission: "Time
\* interval (in seconds) between any packet and a `PING` requests".  Does not
\* hold: try_send_packet leaves last_tx alone.
PingOnlyAfterInterval ==
    [][WasAccepted("PINGREQ")' /\ ~WasAccepted("PINGREQ") => quiet >= PingInterval]_vars

\* Client::connect never sees its oneshot channel dropped without a result
\* ("This variant should never occur").  Does not hold: task() may return
\* before CONNACK.
ConnectResultSpecified == client # "oneshot error"

-----------------------------------------------------------------------------
(* The abstract specification is implemented: the backlog is tx_pkt and    *)
(* the queue behind it, the emitted packets are the frames that a reader   *)
(* of the bytes cuts out of them.                                          *)

Backlog ==
    (IF tx_pkt = None THEN <<>>
     ELSE <<[pkt |-> tx_pkt.pkt, set_dup |-> tx_pkt.set_dup]>>) \o internal_pkt_queue

\* A reader of the bytes keeps the packets it has met the last byte of, and
\* the DUP bit of the last first byte.
ReadByte(r, b) ==
    LET dup == IF b.idx = 1 THEN b.dup ELSE r.dup
    IN [dup |-> dup,
        frames |-> IF b.idx = Size[b.pkt]
                   THEN Append(r.frames, [pkt |-> b.pkt, set_dup |-> dup])
                   ELSE r.frames]

Reader(bytes, n) ==
    LET read[i \in 0..n] == IF i = 0 THEN [dup |-> FALSE, frames |-> <<>>]
                                     ELSE ReadByte(read[i - 1], bytes[i])
    IN read[n]

Frames == Reader(wire, Len(wire)).frames

Stream == INSTANCE PacketStream WITH
    Packet <- InternalPacket, backlog <- Backlog, emitted <- Frames, alive <- ~broken

\* The transmit path, partial writes and all, implements PacketStream: every
\* step of the task leaves the stream alone, adds a packet to it, or writes
\* out its oldest packet (try_send_packet to continue_writing_packet).
TransmitsInOrder == Stream!Spec

=============================================================================
