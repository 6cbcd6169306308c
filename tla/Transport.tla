------------------------------ MODULE Transport ------------------------------
(***************************************************************************)
(* The two transports of the client, TCP (src/transport.rs) and TLS over   *)
(* TCP (src/tls/mod.rs), below the loops of the transceiver task that use  *)
(* them: task_step, send_disconnect_and_flush and send_close_notify        *)
(* (src/transceiver/mod.rs).  Transceiver.tla has the same loops above a   *)
(* transport that is a mere byte pipe; here the packets are mere numbers   *)
(* of bytes, and what is looked at is the buffering in between.            *)
(*                                                                         *)
(* rustls keeps plaintext until its handshake is over, encrypted records   *)
(* until write_tls has given them to the socket, and decrypted plaintext   *)
(* until it is read.  What the peer sends is, in this order: the end of    *)
(* the handshake, application data, and a last record that is an alert     *)
(* close_notify or does not decrypt.                                       *)
(***************************************************************************)
EXTENDS Integers

CONSTANTS
    BufLimit,       \* bytes that rustls buffers
    ConnectLen,     \* bytes of the CONNECT packet
    PacketLens,     \* bytes of the other packets
    MaxOut,         \* bound: bytes of packets
    MaxIn           \* bound: records of application data

ASSUME TransportAssumption ==
    /\ BufLimit \in Nat \ {0} /\ ConnectLen \in Nat \ {0}
    /\ PacketLens \subseteq Nat \ {0}
    /\ MaxOut \in Nat /\ MaxIn \in Nat

VARIABLES
    tls,                \* which transport it is
    phase,              \* of the task: boot, run, stop, flush, closing, notify, ended
    connected,
    todo,               \* bytes of tx_pkt and internal_pkt_queue yet to be written
    sendable_plaintext, \* rustls: bytes that wait for the handshake
    sendable_tls,       \* rustls: bytes that wait for the socket
    traffic,            \* rustls: the handshake is over
    plaintext,          \* rustls: records decrypted and not read
    close_notify,       \* rustls: the alert has been received
    net_in,             \* sent by the peer and not read from the socket
    fin,                \* the peer has closed its end of the TCP connection
    broken,             \* the TCP connection has failed
    error,              \* the last error of the transport
    disconnect_sent, clean,
    out, in             \* bytes and records so far, for the bounds

buffers == <<sendable_plaintext, sendable_tls, traffic, plaintext, close_notify>>
net == <<net_in, fin, broken>>
status == <<error, disconnect_sent, clean>>
vars == <<tls, phase, connected, todo, buffers, net, status, out, in>>

\* rustls starts with its ClientHello.
Hello(t) == IF t THEN 1 ELSE 0

\* The transport has been made, and the task has been spawned.
Created(t) ==
    /\ tls = t
    /\ phase = "boot" /\ connected = FALSE
    /\ todo = 0 /\ out = 0 /\ in = 0
    /\ sendable_plaintext = 0 /\ sendable_tls = Hello(t)
    /\ traffic = FALSE /\ plaintext = 0 /\ close_notify = FALSE
    /\ net_in = [hs |-> FALSE, app |-> 0, last |-> "none"]
    /\ fin = FALSE /\ broken = FALSE
    /\ error = "none" /\ disconnect_sent = FALSE /\ clean = TRUE

Init == \E t \in BOOLEAN : Created(t)

-----------------------------------------------------------------------------
(* The transports.                                                         *)

\* With TLS the hints are ignored, and rustls decides.
wants(rd_hint, wr_hint) ==
    IF tls THEN [read |-> plaintext = 0 /\ ~close_notify /\ (traffic \/ sendable_tls = 0),
                 write |-> sendable_tls > 0]
    ELSE [read |-> rd_hint, write |-> wr_hint]

\* What rustls takes of n bytes into a buffer with s bytes in it.
Accepted(n, s) == IF s >= BufLimit THEN 0 ELSE IF n <= BufLimit - s THEN n ELSE BufLimit - s

\* n bytes are written until they are gone or none is taken.  The buffers of
\* rustls hold p and s, and t says whether its handshake is over.
Write(n, p, s, t) ==
    \/ /\ tls /\ t
       /\ todo' = n - Accepted(n, s)
       /\ sendable_tls' = s + Accepted(n, s) /\ sendable_plaintext' = p
    \/ /\ tls /\ ~t
       /\ todo' = n - Accepted(n, p)
       /\ sendable_tls' = s /\ sendable_plaintext' = p + Accepted(n, p)
    \/ /\ ~tls
       /\ todo' \in 0..n
       /\ sendable_tls' = s /\ sendable_plaintext' = p

\* How writing to the socket may fail: in pre_write on TLS, in write on TCP.
\* pre_write takes it for the end of the connection that nothing is written,
\* which is so at the end and when there is nothing to write.
WriteErrors ==
    (IF broken THEN {"IoError"} ELSE {})
        \cup (IF tls /\ (fin \/ sendable_tls = 0) THEN {"UnexpectedEof"} ELSE {})

\* Writing goes on, even if the socket takes nothing.
Writable == ~broken /\ (tls => sendable_tls > 0)

\* Fault: a full buffer of rustls is reported like a closed socket.
ZeroIfFull == tls \/ fin

\* The write that bytes are left behind may have returned zero: at the end of the
\* connection on TCP, while on TLS it is WouldBlock when zero_if_would_block is
\* not set.
ZeroWritten == ~tls /\ fin

\* read_tls and process_new_packets: a records of application data, and the
\* last one if l holds.  A record that does not decrypt fails every later call,
\* too, which comes when the end of the stream makes the socket readable.
Receives(a, l) ==
    /\ a \in 0..net_in.app
    /\ l => a = net_in.app /\ net_in.last # "none" /\ (net_in.last = "failed" => fin)
    /\ net_in.hs \/ a > 0 \/ l
    /\ net_in' = [hs |-> FALSE, app |-> net_in.app - a,
                  last |-> CASE ~l -> net_in.last [] net_in.last = "close" -> "none" [] OTHER -> "failed"]
    /\ traffic' = (traffic \/ net_in.hs)
    /\ close_notify' = (close_notify \/ (l /\ net_in.last = "close"))

BadRecord(l) == l /\ net_in.last # "close"

\* What the two buffers for sending hold after that: the end of the handshake
\* is answered, and the plaintext that waited for it is encrypted; a record
\* that does not decrypt is answered with an alert.
PlaintextThen == IF net_in.hs THEN 0 ELSE sendable_plaintext
TlsThen(l) ==
    sendable_tls + (IF net_in.hs THEN 1 + sendable_plaintext ELSE 0)
        + (IF BadRecord(l) /\ net_in.last = "bad" THEN 1 ELSE 0)

-----------------------------------------------------------------------------
(* The main loop.                                                          *)

\* The `?` of a handler.
Fail(e) ==
    /\ error' = e
    /\ phase' = CASE phase \in {"boot", "run"} -> "stop"
                  [] phase \in {"stop", "flush"} -> "closing"
                  [] OTHER -> "ended"
    /\ clean' = (clean /\ phase \in {"boot", "run"})
    /\ UNCHANGED disconnect_sent

\* queue_internal_packet with n bytes, while the buffers are as for Write.
Queue(n, p, s, t) ==
    \/ todo = 0 /\ Write(n, p, s, t)
    \/ todo > 0 /\ todo' = todo + n /\ sendable_tls' = s /\ sendable_plaintext' = p

\* A handler sends a packet of n bytes; only TCP can fail at once.
Send(n, next) ==
    \/ /\ tls \/ ~broken \/ todo > 0
       /\ Queue(n, sendable_plaintext, sendable_tls, traffic)
       /\ phase' = next /\ UNCHANGED status
    \/ /\ ~tls /\ broken /\ todo = 0
       /\ Fail("IoError") /\ UNCHANGED <<todo, sendable_plaintext, sendable_tls>>

Bootstrap ==
    /\ phase = "boot"
    /\ out' = out + ConnectLen
    /\ Send(ConnectLen, "run")
    /\ UNCHANGED <<tls, connected, traffic, plaintext, close_notify, net, in>>

\* The command branch and the alarm branch.
SendPacket(n) ==
    /\ phase = "run" /\ connected
    /\ out + n <= MaxOut /\ out' = out + n
    /\ Send(n, "run")
    /\ UNCHANGED <<tls, connected, traffic, plaintext, close_notify, net, in>>

\* The command Disconnect; commands are read when tx_pkt is None.
WantStop ==
    /\ phase = "run" /\ connected /\ todo = 0
    /\ phase' = "stop"
    /\ UNCHANGED <<tls, connected, todo, buffers, net, status, out, in>>

\* Fault: after the handshake pre_write leaves the sending to flush(), which
\* does nothing.
WriteSomeFlushing ==
    \E w \in (IF tls /\ ~traffic THEN 0..sendable_tls ELSE {0}) :
        Write(todo, sendable_plaintext, sendable_tls - w, traffic)

\* pre_write, with which w bytes leave rustls, and continue_writing_packet.
WriteSome ==
    \E w \in (IF tls THEN 0..sendable_tls ELSE {0}) :
        Write(todo, sendable_plaintext, sendable_tls - w, traffic)

\* What Ok(true) of continue_writing_packet does: the main loop ends the task,
\* and the flush is over without an error.
ConnectionClosed ==
    /\ phase' = IF phase = "run" THEN "ended" ELSE "closing"
    /\ clean' = (clean /\ phase # "run")
    /\ UNCHANGED <<error, disconnect_sent>>

\* The write branch of task_step and of send_disconnect_and_flush.
WriteBranch ==
    /\ phase \in {"run", "flush"}
    /\ wants(phase = "run", todo > 0).write
    /\ \/ /\ \E e \in WriteErrors : Fail(e)
          /\ UNCHANGED <<todo, sendable_plaintext, sendable_tls>>
       \/ /\ Writable /\ WriteSome
          /\ UNCHANGED <<phase, status>>
       \/ /\ Writable /\ WriteSome /\ todo' > 0
          /\ ZeroWritten /\ ConnectionClosed
    /\ UNCHANGED <<tls, connected, traffic, plaintext, close_notify, net, out, in>>

\* Fault: the loop ends with the packet that it was entered for.
UnreadButOne(a) == IF a > 0 THEN a - 1 ELSE 0

\* What the loop around PacketReader::recv leaves of a records: it goes on
\* until there is nothing to read.
Unread(a) == 0

\* The read branch of task_step on TLS.  When there is plaintext it is read up
\* to the end, where the alert shows; packets may have to be answered with r
\* bytes, or may end the task.
ReadTls(a, l, r) ==
    /\ phase = "run" /\ tls
    /\ wants(TRUE, todo > 0).read
    /\ Receives(a, l)
    /\ r > 0 => (IF connected THEN a > 0 ELSE a > 1) /\ ~BadRecord(l)
    /\ out + r <= MaxOut /\ out' = out + r
    /\ Queue(r, PlaintextThen, TlsThen(l), traffic')
    /\ connected' = (connected \/ (a > 0 /\ ~BadRecord(l)))
    /\ \/ BadRecord(l) /\ plaintext' = a /\ Fail("Decrypt")
       \/ /\ ~BadRecord(l) /\ plaintext' = Unread(a)
          /\ IF a > 0 /\ close_notify'
             THEN phase' = "ended" /\ clean' = FALSE /\ UNCHANGED <<error, disconnect_sent>>
             ELSE UNCHANGED <<phase, status>>
       \/ /\ ~BadRecord(l) /\ a > 0 /\ plaintext' \in 0..(a - 1)
          /\ phase' = "stop" /\ UNCHANGED status
    /\ UNCHANGED <<tls, fin, broken, in>>

\* The same on TCP: the end of the stream shows when all has been read.
ReadTcp(r) ==
    /\ phase = "run" /\ ~tls
    /\ net_in.app > 0 \/ fin \/ broken
    /\ r > 0 => (IF connected THEN net_in.app > 0 ELSE net_in.app > 1) /\ ~broken
    /\ out + r <= MaxOut /\ out' = out + r
    /\ connected' = (connected \/ (net_in.app > 0 /\ ~broken))
    /\ \/ broken /\ Fail("IoError") /\ UNCHANGED <<todo, sendable_tls, sendable_plaintext, net_in>>
       \/ /\ ~broken
          /\ Queue(r, sendable_plaintext, sendable_tls, traffic)
          /\ \/ /\ net_in' = [net_in EXCEPT !.app = 0]
                /\ IF fin THEN phase' = "ended" /\ clean' = FALSE /\ UNCHANGED <<error, disconnect_sent>>
                   ELSE UNCHANGED <<phase, status>>
             \/ /\ net_in.app > 0 /\ \E a \in 1..net_in.app : net_in' = [net_in EXCEPT !.app = @ - a]
                /\ phase' = "stop" /\ UNCHANGED status
    /\ UNCHANGED <<tls, traffic, plaintext, close_notify, fin, broken, in>>

-----------------------------------------------------------------------------
(* The end of task(): disconnect_sequence under its timeout.               *)

SendDisconnect ==
    /\ phase = "stop"
    /\ \/ connected /\ Send(1, "flush")
       \/ ~connected /\ phase' = "closing" /\ UNCHANGED <<todo, sendable_plaintext, sendable_tls, status>>
    /\ UNCHANGED <<tls, connected, traffic, plaintext, close_notify, net, out, in>>

\* The read branch of the two loops: pre_read, and nothing is read from it.
PreRead(a, l) ==
    /\ phase \in {"flush", "notify"} /\ tls
    /\ wants(FALSE, todo > 0).read
    /\ Receives(a, l)
    /\ sendable_plaintext' = PlaintextThen /\ sendable_tls' = TlsThen(l)
    /\ plaintext' = plaintext + a
    /\ \/ BadRecord(l) /\ Fail("Decrypt")
       \/ ~BadRecord(l) /\ UNCHANGED <<phase, status>>
    /\ UNCHANGED <<tls, connected, todo, fin, broken, out, in>>

\* Fault: the loop ends when tx_pkt is empty, as it may on TCP.
FlushDoneEarly ==
    /\ phase = "flush" /\ todo = 0
    /\ disconnect_sent' = TRUE /\ phase' = "closing"
    /\ UNCHANGED <<tls, connected, todo, buffers, net, error, clean, out, in>>

FlushDone ==
    /\ phase = "flush"
    /\ ~wants(FALSE, todo > 0).read /\ ~wants(FALSE, todo > 0).write
    /\ disconnect_sent' = TRUE /\ phase' = "closing"
    /\ UNCHANGED <<tls, connected, todo, buffers, net, error, clean, out, in>>

send_close_notify ==
    /\ phase = "closing"
    /\ phase' = "notify"
    /\ sendable_tls' = IF tls THEN sendable_tls + 1 ELSE sendable_tls
    /\ UNCHANGED <<tls, connected, todo, sendable_plaintext, traffic, plaintext, close_notify, net, status, out, in>>

NotifyWrite ==
    /\ phase = "notify"
    /\ wants(FALSE, FALSE).write
    /\ \/ (\E e \in WriteErrors : Fail(e)) /\ UNCHANGED sendable_tls
       \/ /\ Writable /\ \E w \in 1..sendable_tls : sendable_tls' = sendable_tls - w
          /\ UNCHANGED <<phase, status>>
    /\ UNCHANGED <<tls, connected, todo, sendable_plaintext, traffic, plaintext, close_notify, net, out, in>>

NotifyDone ==
    /\ phase = "notify"
    /\ ~wants(FALSE, FALSE).read /\ ~wants(FALSE, FALSE).write
    /\ phase' = "ended"
    /\ UNCHANGED <<tls, connected, todo, buffers, net, status, out, in>>

\* Fault: the timeout is that of send_disconnect_and_flush alone.
TimeoutOfFlush ==
    /\ phase \in {"stop", "flush"}
    /\ phase' = "closing" /\ clean' = FALSE
    /\ UNCHANGED <<tls, connected, todo, buffers, net, error, disconnect_sent, out, in>>

Timeout ==
    /\ phase \in {"stop", "flush", "closing", "notify"}
    /\ phase' = "ended" /\ clean' = FALSE
    /\ UNCHANGED <<tls, connected, todo, buffers, net, error, disconnect_sent, out, in>>

-----------------------------------------------------------------------------
(* The peer.  It ends the handshake when it has the ClientHello, and sends *)
(* its first packet when it has the CONNECT.                               *)

mine == <<tls, phase, connected, todo, buffers, status, out>>
Up == phase \notin {"boot", "ended"} /\ ~fin /\ ~broken

PeerHello ==
    /\ Up /\ tls /\ ~traffic /\ ~net_in.hs /\ sendable_tls = 0
    /\ net_in' = [net_in EXCEPT !.hs = TRUE]
    /\ UNCHANGED <<mine, fin, broken, in>>

PeerSends ==
    /\ Up /\ net_in.last = "none" /\ ~close_notify
    /\ tls => traffic
    /\ connected \/ net_in.app > 0 \/ (todo = 0 /\ sendable_plaintext = 0 /\ sendable_tls = 0)
    /\ in < MaxIn /\ in' = in + 1
    /\ net_in' = [net_in EXCEPT !.app = @ + 1]
    /\ UNCHANGED <<mine, fin, broken>>

PeerLast(x) ==
    /\ Up /\ tls /\ traffic /\ net_in.last = "none" /\ ~close_notify
    /\ net_in' = [net_in EXCEPT !.last = x]
    /\ UNCHANGED <<mine, fin, broken, in>>

PeerCloses ==
    /\ Up /\ fin' = TRUE
    /\ UNCHANGED <<mine, net_in, broken, in>>

Breaks ==
    /\ phase \notin {"boot", "ended"} /\ ~broken
    /\ broken' = TRUE
    /\ UNCHANGED <<mine, net_in, fin, in>>

Steps ==
    \/ Bootstrap \/ WriteBranch
    \/ \E n \in PacketLens : SendPacket(n)
    \/ \E a \in 0..net_in.app, l \in BOOLEAN, r \in PacketLens \cup {0} : ReadTls(a, l, r)
    \/ \E r \in PacketLens \cup {0} : ReadTcp(r)
    \/ SendDisconnect \/ FlushDone \/ send_close_notify \/ NotifyWrite \/ NotifyDone \/ Timeout
    \/ \E a \in 0..net_in.app, l \in BOOLEAN : PreRead(a, l)
    \/ PeerHello \/ PeerSends \/ PeerCloses \/ Breaks
    \/ \E x \in {"close", "bad"} : PeerLast(x)

Next == Steps \/ WantStop

Spec == Init /\ [][Next]_vars

\* The write branch moves something, or fails.
WriteProgress == WriteBranch /\ (todo' < todo \/ sendable_tls' < sendable_tls \/ phase' # phase)

-----------------------------------------------------------------------------
(* Properties.                                                             *)

Phases == {"boot", "run", "stop", "flush", "closing", "notify", "ended"}
Lasts == {"none", "close", "bad", "failed"}
Errors == {"none", "IoError", "UnexpectedEof", "Decrypt"}

TypeOK ==
    /\ tls \in BOOLEAN /\ connected \in BOOLEAN
    /\ phase \in Phases
    /\ todo \in Nat /\ sendable_plaintext \in Nat /\ sendable_tls \in Nat /\ plaintext \in Nat
    /\ traffic \in BOOLEAN /\ close_notify \in BOOLEAN
    /\ net_in \in [hs : BOOLEAN, app : Nat, last : Lasts]
    /\ fin \in BOOLEAN /\ broken \in BOOLEAN
    /\ error \in Errors
    /\ disconnect_sent \in BOOLEAN /\ clean \in BOOLEAN
    /\ out \in Nat /\ in \in Nat

\* The TLS transport ignores the hints and goes by what rustls has buffered.
\* Nevertheless a packet that waits is waited for, because rustls has something
\* to send or has to read the rest of the handshake first; no plaintext stays
\* behind when the handshake is over; and in the main loop no decrypted packet
\* is left in rustls, where it would turn the read branch off.
NoStall ==
    /\ phase \in {"run", "flush"} /\ todo > 0 =>
            wants(phase = "run", TRUE).write \/ (~traffic /\ wants(phase = "run", TRUE).read)
    /\ sendable_plaintext > 0 => ~traffic
    /\ phase = "run" => plaintext = 0

\* The task takes the connection for closed only when the peer has closed it,
\* with an alert or with the end of the TCP stream.  A buffer of rustls that is
\* full, and one that is empty, write zero bytes as a closed socket does.
ClosedMeansClosed ==
    [][/\ phase = "run" /\ phase' = "ended" => fin \/ close_notify'
       /\ error' = "UnexpectedEof" => fin]_vars

\* disconnect_sent is reported only when DISCONNECT and all before it has been
\* given to the socket, although with TLS it is not waited for tx_pkt.
SentWhenWritten ==
    [][disconnect_sent' /\ ~disconnect_sent =>
        todo = 0 /\ sendable_plaintext = 0 /\ sendable_tls = 0]_vars

\* The main loop does not go on when the peer has closed the connection in an
\* orderly way.  Does not hold: an alert that comes without data makes pre_read
\* return false, and nothing else looks for it.
CloseNoticed == phase = "run" => ~close_notify

\* When the disconnect sequence is over and DISCONNECT has been given to the
\* socket, it is reported as sent.  Does not hold: with TLS the loop waits for
\* the alert of the peer, too, and runs into the timeout if it does not come.
WrittenIsReported ==
    [][phase = "flush" /\ phase' = "ended" /\ todo = 0 /\ sendable_tls = 0 => disconnect_sent']_vars

=============================================================================
