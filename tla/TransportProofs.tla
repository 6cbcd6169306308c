--------------------------- MODULE TransportProofs ---------------------------
(***************************************************************************)
(* The properties of Transport for every buffer limit of rustls and all    *)
(* lengths of packets.  The inductive invariant says what has to be in the *)
(* buffers of rustls, depending on where the handshake is.                 *)
(***************************************************************************)
EXTENDS Transport, TLAPS

\* A packet waits only behind a buffer that is not empty, or for the handshake.
Behind == phase \in {"boot", "run", "stop", "flush"} /\ tls /\ traffic /\ todo > 0 => sendable_tls > 0

\* Before the end of the handshake nothing has come from the peer.
Early ==
    /\ ~traffic => plaintext = 0 /\ ~close_notify
    /\ tls /\ ~traffic => net_in.app = 0 /\ net_in.last = "none"

\* After it no plaintext waits.
Late == traffic => sendable_plaintext = 0

\* On TCP rustls is not there.
Plain == ~tls => ~traffic /\ sendable_plaintext = 0 /\ sendable_tls = 0

Consumed == phase \in {"boot", "run"} => plaintext = 0

\* The end of the connection is reported only when the peer has closed it.
EofSeen == error = "UnexpectedEof" => fin

Inv == TypeOK /\ Behind /\ Early /\ Late /\ Plain /\ Consumed /\ EofSeen

-----------------------------------------------------------------------------
(* What writing does to the buffers.                                       *)

\* rustls takes what fits, and leaves something only behind a full buffer.
LEMMA AcceptedFits ==
    ASSUME NEW n \in Nat, NEW s \in Nat
    PROVE  /\ Accepted(n, s) \in Nat /\ Accepted(n, s) <= n
           /\ n - Accepted(n, s) > 0 => s + Accepted(n, s) > 0
  BY TransportAssumption DEF Accepted

\* Whatever is written, bytes are left over only behind a buffer with something
\* in it once the handshake is over; the buffers only grow; and after the
\* handshake, and on TCP, plaintext is not kept.
LEMMA WriteKeeps ==
    ASSUME NEW n \in Nat, NEW p \in Nat, NEW s \in Nat, NEW t \in BOOLEAN,
           tls \in BOOLEAN, Write(n, p, s, t)
    PROVE  /\ todo' \in Nat /\ sendable_plaintext' \in Nat /\ sendable_tls' \in Nat
           /\ tls /\ t /\ todo' > 0 => sendable_tls' > 0
           /\ t \/ ~tls => sendable_plaintext' = p
           /\ ~tls => sendable_tls' = s
  <1>1. CASE tls /\ t
    <2>1. todo' = n - Accepted(n, s) /\ sendable_tls' = s + Accepted(n, s) /\ sendable_plaintext' = p
      BY <1>1 DEF Write
    <2>2. /\ Accepted(n, s) \in Nat /\ Accepted(n, s) <= n
          /\ n - Accepted(n, s) > 0 => s + Accepted(n, s) > 0
      BY AcceptedFits
    <2>3. todo' \in Nat /\ sendable_tls' \in Nat /\ (todo' > 0 => sendable_tls' > 0)
      BY <2>1, <2>2
    <2> QED BY <1>1, <2>1, <2>3
  <1>2. CASE tls /\ ~t
    <2>1. todo' = n - Accepted(n, p) /\ sendable_tls' = s /\ sendable_plaintext' = p + Accepted(n, p)
      BY <1>2 DEF Write
    <2>2. Accepted(n, p) \in Nat /\ Accepted(n, p) <= n
      BY AcceptedFits
    <2>3. todo' \in Nat /\ sendable_plaintext' \in Nat
      BY <2>1, <2>2
    <2> QED BY <1>2, <2>1, <2>3
  <1>3. CASE ~tls
    BY <1>3 DEF Write
  <1> QED BY <1>1, <1>2, <1>3

\* The same for a packet that may have to wait in the queue: bytes are left over
\* behind a buffer that has something in it, if that was so before.
LEMMA QueueKeeps ==
    ASSUME NEW n \in Nat, NEW p \in Nat, NEW s \in Nat, NEW t \in BOOLEAN,
           tls \in BOOLEAN, todo \in Nat, Queue(n, p, s, t),
           tls /\ t /\ todo > 0 => s > 0
    PROVE  /\ todo' \in Nat /\ sendable_plaintext' \in Nat /\ sendable_tls' \in Nat
           /\ tls /\ t /\ todo' > 0 => sendable_tls' > 0
           /\ t \/ ~tls => sendable_plaintext' = p
           /\ ~tls => sendable_tls' = s
  <1>1. CASE todo = 0 /\ Write(n, p, s, t)
    BY <1>1, WriteKeeps
  <1>2. CASE todo > 0 /\ todo' = todo + n /\ sendable_tls' = s /\ sendable_plaintext' = p
    BY <1>2
  <1> QED BY <1>1, <1>2 DEF Queue

\* A handler that fails says so, and not with the end of the connection.
LEMMA FailKeeps ==
    ASSUME TypeOK, NEW e \in Errors, Fail(e)
    PROVE  /\ phase' \in Phases \ {"boot", "run"} /\ error' = e
           /\ clean' \in BOOLEAN /\ disconnect_sent' = disconnect_sent
           /\ phase' \in {"stop", "flush"} => phase \in {"boot", "run"}
  BY DEF TypeOK, Fail, Phases

\* Reading from the socket: before the end of the handshake nothing comes with
\* it, and after it rustls has its answer, and what waited, to send.
LEMMA ReceivesKeeps ==
    ASSUME Inv, tls, NEW a \in Nat, NEW l \in BOOLEAN, Receives(a, l)
    PROVE  /\ net_in' \in [hs : BOOLEAN, app : Nat, last : Lasts]
           /\ traffic' \in BOOLEAN /\ close_notify' \in BOOLEAN
           /\ PlaintextThen \in Nat /\ TlsThen(l) \in Nat
           /\ traffic' => PlaintextThen = 0
           /\ phase \in {"boot", "run", "stop", "flush"} /\ traffic' /\ todo > 0 => TlsThen(l) > 0
           /\ ~traffic' => a = 0 /\ ~close_notify' /\ net_in'.app = 0 /\ net_in'.last = "none"
  <1> USE DEF Inv
  <1>1. /\ net_in.hs \in BOOLEAN /\ net_in.app \in Nat /\ net_in.last \in Lasts
        /\ sendable_tls \in Nat /\ sendable_plaintext \in Nat
        /\ traffic \in BOOLEAN /\ close_notify \in BOOLEAN
    BY DEF TypeOK
  <1>2. net_in' \in [hs : BOOLEAN, app : Nat, last : Lasts]
    BY <1>1 DEF Receives, Lasts
  <1>3. traffic' \in BOOLEAN /\ close_notify' \in BOOLEAN /\ traffic' = (traffic \/ net_in.hs)
    BY <1>1 DEF Receives
  <1>4. PlaintextThen \in Nat /\ TlsThen(l) \in Nat /\ TlsThen(l) >= sendable_tls /\ (net_in.hs => TlsThen(l) > 0)
    BY <1>1 DEF PlaintextThen, TlsThen
  <1>5. traffic' => PlaintextThen = 0
    BY <1>3 DEF Late, PlaintextThen
  <1>6. phase \in {"boot", "run", "stop", "flush"} /\ traffic' /\ todo > 0 => TlsThen(l) > 0
    <2> SUFFICES ASSUME phase \in {"boot", "run", "stop", "flush"}, traffic', todo > 0
                 PROVE  TlsThen(l) > 0
      OBVIOUS
    <2>1. CASE net_in.hs
      BY <2>1, <1>4
    <2>2. CASE traffic
      <3>1. sendable_tls > 0
        BY <2>2 DEF Behind
      <3> QED BY <3>1, <1>1, <1>4
    <2> QED BY <2>1, <2>2, <1>3
  <1>7. ASSUME ~traffic' PROVE a = 0 /\ ~close_notify' /\ net_in'.app = 0 /\ net_in'.last = "none"
    <2>1. ~traffic
      BY <1>3, <1>7
    <2>2. net_in.app = 0 /\ net_in.last = "none" /\ ~close_notify
      BY <2>1 DEF Early
    <2>3. a = 0 /\ ~l
      BY <2>2 DEF Receives
    <2> QED BY <2>2, <2>3 DEF Receives
  <1> QED BY <1>2, <1>3, <1>4, <1>5, <1>6, <1>7

-----------------------------------------------------------------------------
(* The invariant is inductive: one lemma for each group of actions.        *)

LEMMA InitInv == Init => Inv
  <1> SUFFICES ASSUME NEW t \in BOOLEAN, Created(t)
               PROVE  Inv
    BY DEF Init
  <1>1. Hello(t) \in Nat /\ (~t => Hello(t) = 0)
    BY DEF Hello
  <1>2. TypeOK
    BY <1>1 DEF Created, TypeOK, Phases, Lasts, Errors
  <1>3. Behind /\ Early /\ Late /\ Plain /\ Consumed /\ EofSeen
    BY <1>1 DEF Created, Behind, Early, Late, Plain, Consumed, EofSeen
  <1> QED BY <1>2, <1>3 DEF Inv

\* A handler that sends a packet keeps what the invariant says of the buffers.
LEMMA SendKeeps ==
    ASSUME Inv, phase \in {"boot", "run", "stop"}, NEW n \in Nat, NEW next \in {"run", "flush"},
           next = "run" => phase # "stop",
           Send(n, next), UNCHANGED <<tls, traffic, plaintext, close_notify, net, connected, in>>, out' \in Nat
    PROVE  Inv'
  <1> USE DEF Inv
  <1>1. CASE Queue(n, sendable_plaintext, sendable_tls, traffic) /\ phase' = next /\ UNCHANGED status
    <2>1. /\ todo' \in Nat /\ sendable_plaintext' \in Nat /\ sendable_tls' \in Nat
          /\ tls /\ traffic /\ todo' > 0 => sendable_tls' > 0
          /\ traffic \/ ~tls => sendable_plaintext' = sendable_plaintext
          /\ ~tls => sendable_tls' = sendable_tls
      BY <1>1, QueueKeeps DEF TypeOK, Behind
    <2>2. TypeOK'
      BY <1>1, <2>1 DEF TypeOK, Phases, net, status
    <2>3. Behind' /\ Early' /\ Late' /\ Plain'
      BY <2>1 DEF Behind, Early, Late, Plain, net
    <2>4. Consumed' /\ EofSeen'
      BY <1>1 DEF Consumed, EofSeen, net, status
    <2> QED BY <2>2, <2>3, <2>4
  <1>2. CASE Fail("IoError") /\ UNCHANGED <<todo, sendable_plaintext, sendable_tls>>
    <2>1. /\ phase' \in Phases \ {"boot", "run"} /\ error' = "IoError"
          /\ clean' \in BOOLEAN /\ disconnect_sent' = disconnect_sent
      BY <1>2, FailKeeps DEF Errors
    <2>2. TypeOK'
      BY <1>2, <2>1 DEF TypeOK, Errors, net
    <2>3. Behind' /\ Early' /\ Late' /\ Plain' /\ Consumed' /\ EofSeen'
      BY <1>2, <2>1 DEF Behind, Early, Late, Plain, Consumed, EofSeen, net
    <2> QED BY <2>2, <2>3
  <1> QED BY <1>1, <1>2 DEF Send

LEMMA SendingKeepsInv ==
    ASSUME Inv, Bootstrap \/ (\E n \in PacketLens : SendPacket(n)) \/ SendDisconnect
    PROVE  Inv'
  <1>1. CASE Bootstrap
    <2>1. out' \in Nat /\ ConnectLen \in Nat
      BY <1>1, TransportAssumption DEF Inv, TypeOK, Bootstrap
    <2> QED BY <1>1, <2>1, SendKeeps DEF Bootstrap
  <1>2. ASSUME NEW n \in PacketLens, SendPacket(n) PROVE Inv'
    <2>1. out' \in Nat /\ n \in Nat
      BY <1>2, TransportAssumption DEF Inv, TypeOK, SendPacket
    <2> QED BY <1>2, <2>1, SendKeeps DEF SendPacket
  <1>3. CASE SendDisconnect /\ Send(1, "flush")
    <2>1. out' \in Nat
      BY <1>3 DEF Inv, TypeOK, SendDisconnect
    <2> QED BY <1>3, <2>1, SendKeeps DEF SendDisconnect
  <1>4. CASE SendDisconnect /\ phase' = "closing" /\ UNCHANGED <<todo, sendable_plaintext, sendable_tls, status>>
    <2>1. TypeOK'
      BY <1>4 DEF Inv, TypeOK, SendDisconnect, Phases, net, status
    <2>2. Behind' /\ Early' /\ Late' /\ Plain' /\ Consumed' /\ EofSeen'
      BY <1>4 DEF Inv, SendDisconnect, Behind, Early, Late, Plain, Consumed, EofSeen, net, status
    <2> QED BY <2>1, <2>2 DEF Inv
  <1> QED BY <1>1, <1>2, <1>3, <1>4 DEF SendDisconnect

\* The steps of the shutdown that touch no more than the phase, or the buffer
\* for the socket when nothing relies on it any more.
LEMMA ShutdownKeepsInv ==
    ASSUME Inv, WantStop \/ FlushDone \/ send_close_notify \/ NotifyDone \/ Timeout
    PROVE  Inv'
  <1> USE DEF Inv
  <1>1. CASE WantStop
    <2>1. TypeOK' BY <1>1 DEF TypeOK, WantStop, Phases, buffers, net, status
    <2> QED BY <1>1, <2>1 DEF WantStop, Behind, Early, Late, Plain, Consumed, EofSeen, buffers, net, status
  <1>2. CASE FlushDone \/ NotifyDone \/ Timeout
    <2>1. phase' \in {"closing", "ended"} /\ UNCHANGED <<tls, connected, todo, buffers, net, error, out, in>>
      BY <1>2 DEF FlushDone, NotifyDone, Timeout, status
    <2>2. clean' \in BOOLEAN /\ disconnect_sent' \in BOOLEAN
      BY <1>2 DEF FlushDone, NotifyDone, Timeout, status, TypeOK
    <2>3. TypeOK' BY <2>1, <2>2 DEF TypeOK, Phases, buffers, net
    <2> QED BY <2>1, <2>3 DEF Behind, Early, Late, Plain, Consumed, EofSeen, buffers, net
  <1>3. CASE send_close_notify
    <2>1. sendable_tls' \in Nat /\ (~tls => sendable_tls' = sendable_tls)
      BY <1>3 DEF send_close_notify, TypeOK
    <2>2. TypeOK' BY <1>3, <2>1 DEF send_close_notify, TypeOK, Phases, net, status
    <2> QED BY <1>3, <2>1, <2>2
         DEF send_close_notify, Behind, Early, Late, Plain, Consumed, EofSeen, net, status
  <1> QED BY <1>1, <1>2, <1>3

\* The write branches.  They are taken with something to write, so that pre_write
\* meets the end of the connection but never an empty buffer.
LEMMA WritingKeepsInv ==
    ASSUME Inv, WriteBranch \/ NotifyWrite
    PROVE  Inv'
  <1> USE DEF Inv
  <1>0. UNCHANGED <<tls, connected, traffic, plaintext, close_notify, net, out, in>>
    BY DEF WriteBranch, NotifyWrite
  <1>1. ASSUME NEW e \in WriteErrors PROVE e \in Errors /\ (e = "UnexpectedEof" => fin)
    <2>1. tls => sendable_tls > 0
      BY DEF WriteBranch, NotifyWrite, wants
    <2> QED BY <1>1, <2>1 DEF WriteErrors, Errors, TypeOK
  <1>2. ASSUME NEW e \in WriteErrors, Fail(e), UNCHANGED <<todo, sendable_plaintext, sendable_tls>>
        PROVE  Inv'
    <2>1. /\ phase' \in Phases \ {"boot", "run"} /\ error' = e /\ e \in Errors /\ (e = "UnexpectedEof" => fin)
          /\ clean' \in BOOLEAN /\ disconnect_sent' = disconnect_sent
          /\ phase' \in {"stop", "flush"} => phase \in {"boot", "run"}
      BY <1>1, <1>2, FailKeeps
    <2>2. TypeOK'
      BY <1>0, <1>2, <2>1 DEF TypeOK, net
    <2> QED BY <1>0, <1>2, <2>1, <2>2 DEF Behind, Early, Late, Plain, Consumed, EofSeen, net
  <1>3. CASE WriteBranch /\ WriteSome /\ (UNCHANGED <<phase, status>> \/ ConnectionClosed)
    <2>1. PICK s \in Nat : Write(todo, sendable_plaintext, s, traffic) /\ (~tls => s = sendable_tls)
      BY <1>3 DEF WriteSome, TypeOK
    <2>2. /\ todo' \in Nat /\ sendable_plaintext' \in Nat /\ sendable_tls' \in Nat
          /\ tls /\ traffic /\ todo' > 0 => sendable_tls' > 0
          /\ traffic \/ ~tls => sendable_plaintext' = sendable_plaintext
          /\ ~tls => sendable_tls' = s
      BY <2>1, WriteKeeps DEF TypeOK
    <2>3. /\ phase' \in Phases /\ (phase' = phase \/ phase' \in {"closing", "ended"})
          /\ clean' \in BOOLEAN /\ UNCHANGED <<error, disconnect_sent>>
      BY <1>3 DEF ConnectionClosed, TypeOK, Phases, status
    <2>4. TypeOK'
      BY <1>0, <2>2, <2>3 DEF TypeOK, net
    <2>5. Behind' /\ Early' /\ Late' /\ Plain'
      BY <1>0, <2>1, <2>2 DEF Behind, Early, Late, Plain, net
    <2>6. Consumed' /\ EofSeen'
      BY <1>0, <2>3 DEF Consumed, EofSeen, net
    <2> QED BY <2>4, <2>5, <2>6
  <1>4. CASE NotifyWrite /\ UNCHANGED <<phase, status>>
            /\ \E w \in 1..sendable_tls : sendable_tls' = sendable_tls - w
    <2>1. sendable_tls' \in Nat /\ sendable_tls > 0 /\ phase = "notify" /\ phase' = "notify"
      BY <1>4 DEF TypeOK, NotifyWrite
    <2>2. UNCHANGED <<tls, connected, todo, sendable_plaintext, traffic, plaintext, close_notify, net, out, in>>
      BY <1>4 DEF NotifyWrite
    <2>3. TypeOK' BY <1>4, <2>1, <2>2 DEF TypeOK, net, status
    <2> QED BY <1>4, <2>1, <2>2, <2>3 DEF Behind, Early, Late, Plain, Consumed, EofSeen, net, status
  <1> QED BY <1>2, <1>3, <1>4 DEF WriteBranch, NotifyWrite

\* The peer adds to what can be read; it sends data after the handshake only.
LEMMA PeerKeepsInv ==
    ASSUME Inv, PeerHello \/ PeerSends \/ PeerCloses \/ Breaks \/ (\E x \in {"close", "bad"} : PeerLast(x))
    PROVE  Inv'
  <1> USE DEF Inv
  <1>1. /\ UNCHANGED <<tls, phase, connected, todo, sendable_plaintext, sendable_tls, traffic, plaintext,
                       close_notify, error, disconnect_sent, clean, out>>
    BY DEF PeerHello, PeerSends, PeerCloses, Breaks, PeerLast, mine, buffers, status
  <1>2. net_in' \in [hs : BOOLEAN, app : Nat, last : Lasts] /\ fin' \in BOOLEAN /\ broken' \in BOOLEAN /\ in' \in Nat
    <2>0. net_in \in [hs : BOOLEAN, app : Nat, last : Lasts] /\ fin \in BOOLEAN /\ broken \in BOOLEAN /\ in \in Nat
      BY DEF TypeOK
    <2>1. CASE PeerHello BY <2>0, <2>1 DEF PeerHello
    <2>2. CASE PeerSends BY <2>0, <2>2 DEF PeerSends
    <2>3. CASE PeerCloses \/ Breaks BY <2>0, <2>3 DEF PeerCloses, Breaks
    <2>4. ASSUME NEW x \in {"close", "bad"}, PeerLast(x)
          PROVE  net_in' \in [hs : BOOLEAN, app : Nat, last : Lasts] /\ UNCHANGED <<fin, broken, in>>
      BY <2>0, <2>4 DEF PeerLast, Lasts
    <2> QED BY <2>0, <2>1, <2>2, <2>3, <2>4
  <1>5. fin => fin'
    BY DEF PeerHello, PeerSends, PeerCloses, Breaks, PeerLast
  <1>3. tls /\ ~traffic => net_in'.app = net_in.app /\ net_in'.last = net_in.last
    BY DEF PeerHello, PeerSends, PeerCloses, Breaks, PeerLast, TypeOK
  <1>4. TypeOK' BY <1>1, <1>2 DEF TypeOK
  <1> QED BY <1>1, <1>3, <1>4, <1>5 DEF Behind, Early, Late, Plain, Consumed, EofSeen

\* The read branch of the main loop on TCP.
LEMMA ReadTcpKeepsInv ==
    ASSUME Inv, NEW r \in PacketLens \cup {0}, ReadTcp(r)
    PROVE  Inv'
  <1> USE DEF Inv
  <1>1. /\ UNCHANGED <<tls, traffic, plaintext, close_notify, fin, broken, in>>
        /\ ~tls /\ phase = "run" /\ out' \in Nat /\ connected' \in BOOLEAN /\ r \in Nat
    BY TransportAssumption DEF ReadTcp, TypeOK
  <1>2. net_in' \in [hs : BOOLEAN, app : Nat, last : Lasts]
    BY DEF ReadTcp, TypeOK
  <1>3. CASE Fail("IoError") /\ UNCHANGED <<todo, sendable_tls, sendable_plaintext, net_in>>
    <2>1. /\ phase' \in Phases \ {"boot", "run"} /\ error' = "IoError"
          /\ clean' \in BOOLEAN /\ disconnect_sent' = disconnect_sent
      BY <1>3, FailKeeps DEF Errors
    <2>2. TypeOK' BY <1>1, <1>3, <2>1 DEF TypeOK, Errors
    <2> QED BY <1>1, <1>3, <2>1, <2>2 DEF Behind, Early, Late, Plain, Consumed, EofSeen
  <1>4. CASE Queue(r, sendable_plaintext, sendable_tls, traffic) /\ ~broken
    <2>1. /\ todo' \in Nat /\ sendable_plaintext' = sendable_plaintext /\ sendable_tls' = sendable_tls
      BY <1>1, <1>4, QueueKeeps DEF TypeOK
    <2>2. phase' \in Phases /\ clean' \in BOOLEAN /\ UNCHANGED <<error, disconnect_sent>>
      BY <1>4 DEF ReadTcp, TypeOK, Phases, status
    <2>3. TypeOK' BY <1>1, <1>2, <2>1, <2>2 DEF TypeOK
    <2> QED BY <1>1, <2>1, <2>2, <2>3 DEF Behind, Early, Late, Plain, Consumed, EofSeen
  <1> QED BY <1>3, <1>4 DEF ReadTcp

\* The read branch of the main loop on TLS: it goes on only when nothing is left.
LEMMA ReadTlsKeepsInv ==
    ASSUME Inv, NEW a \in Nat, NEW l \in BOOLEAN, NEW r \in PacketLens \cup {0}, ReadTls(a, l, r)
    PROVE  Inv'
  <1> USE DEF Inv
  <1>1. /\ tls /\ phase = "run" /\ Receives(a, l) /\ Queue(r, PlaintextThen, TlsThen(l), traffic')
        /\ UNCHANGED <<tls, fin, broken, in>> /\ connected' \in BOOLEAN
    BY DEF ReadTls
  <1>0. r \in Nat /\ out' \in Nat
    BY TransportAssumption DEF ReadTls, TypeOK
  <1>2. /\ net_in' \in [hs : BOOLEAN, app : Nat, last : Lasts]
        /\ traffic' \in BOOLEAN /\ close_notify' \in BOOLEAN
        /\ PlaintextThen \in Nat /\ TlsThen(l) \in Nat
        /\ traffic' => PlaintextThen = 0
        /\ traffic' /\ todo > 0 => TlsThen(l) > 0
        /\ ~traffic' => a = 0 /\ ~close_notify' /\ net_in'.app = 0 /\ net_in'.last = "none"
    BY <1>1, ReceivesKeeps
  <1>3. /\ todo' \in Nat /\ sendable_plaintext' \in Nat /\ sendable_tls' \in Nat
        /\ traffic' /\ todo' > 0 => sendable_tls' > 0
        /\ traffic' => sendable_plaintext' = PlaintextThen
    BY <1>0, <1>1, <1>2, QueueKeeps DEF TypeOK
  <1>4. /\ phase' \in Phases /\ error' \in {error, "Decrypt"} /\ clean' \in BOOLEAN /\ disconnect_sent' \in BOOLEAN
        /\ plaintext' \in Nat /\ (a = 0 => plaintext' = 0) /\ (phase' = "run" => plaintext' = 0)
    <2>1. CASE BadRecord(l) /\ plaintext' = a /\ Fail("Decrypt")
      BY <2>1, FailKeeps DEF Errors, TypeOK
    <2>2. CASE plaintext' = Unread(a) /\ phase' \in {"ended", phase} /\ error' = error
               /\ clean' \in BOOLEAN /\ disconnect_sent' = disconnect_sent
      BY <2>2 DEF Unread, Phases, TypeOK
    <2>3. CASE a > 0 /\ plaintext' \in 0..(a - 1) /\ phase' = "stop" /\ UNCHANGED status
      BY <2>3 DEF Phases, TypeOK, status
    <2> QED BY <2>1, <2>2, <2>3 DEF ReadTls, TypeOK, status
  <1>5. TypeOK' BY <1>0, <1>1, <1>2, <1>3, <1>4 DEF TypeOK, Errors
  <1>6. Behind' /\ Late' /\ Plain' BY <1>1, <1>2, <1>3 DEF Behind, Late, Plain
  <1>7. Early' BY <1>2, <1>4 DEF Early
  <1>8. Consumed' /\ EofSeen'
    BY <1>1, <1>4 DEF Consumed, EofSeen, ReadTls, Fail, status
  <1> QED BY <1>5, <1>6, <1>7, <1>8

\* The read branches of the disconnect sequence.
LEMMA PreReadKeepsInv ==
    ASSUME Inv, NEW a \in Nat, NEW l \in BOOLEAN, PreRead(a, l)
    PROVE  Inv'
  <1> USE DEF Inv
  <1>1. /\ tls /\ phase \in {"flush", "notify"} /\ Receives(a, l) /\ plaintext' = plaintext + a
        /\ sendable_plaintext' = PlaintextThen /\ sendable_tls' = TlsThen(l)
        /\ UNCHANGED <<tls, connected, todo, fin, broken, out, in>>
    BY DEF PreRead
  <1>2. /\ net_in' \in [hs : BOOLEAN, app : Nat, last : Lasts]
        /\ traffic' \in BOOLEAN /\ close_notify' \in BOOLEAN
        /\ PlaintextThen \in Nat /\ TlsThen(l) \in Nat
        /\ traffic' => PlaintextThen = 0
        /\ phase = "flush" /\ traffic' /\ todo > 0 => TlsThen(l) > 0
        /\ ~traffic' => a = 0 /\ ~close_notify' /\ net_in'.app = 0 /\ net_in'.last = "none"
    BY <1>1, ReceivesKeeps
  <1>3. /\ phase' \in Phases \ {"boot", "run", "stop"} /\ (phase' = "flush" => phase = "flush")
        /\ error' \in {error, "Decrypt"} /\ clean' \in BOOLEAN /\ disconnect_sent' \in BOOLEAN
    <2>1. CASE Fail("Decrypt")
      BY <1>1, <2>1 DEF Fail, Phases, TypeOK
    <2>2. CASE UNCHANGED <<phase, status>>
      BY <1>1, <2>2 DEF Phases, TypeOK, status
    <2> QED BY <2>1, <2>2 DEF PreRead
  <1>4. ~traffic' => plaintext' = 0
    <2>1. ~traffic' => ~traffic
      BY <1>1 DEF Receives
    <2>2. ~traffic => plaintext = 0
      BY DEF Early
    <2> QED BY <1>1, <1>2, <2>1, <2>2
  <1>5. plaintext' \in Nat BY <1>1 DEF TypeOK
  <1>6. TypeOK' BY <1>1, <1>2, <1>3, <1>5 DEF TypeOK, Errors
  <1>7. Behind' /\ Late' /\ Plain' /\ Early' BY <1>1, <1>2, <1>3, <1>4 DEF Behind, Late, Plain, Early
  <1>8. Consumed' /\ EofSeen' BY <1>1, <1>3 DEF Consumed, EofSeen
  <1> QED BY <1>6, <1>7, <1>8

LEMMA StutterKeepsInv == ASSUME Inv, UNCHANGED vars PROVE Inv'
  BY DEF vars, buffers, net, status, Inv, TypeOK, Behind, Early, Late, Plain, Consumed, EofSeen

LEMMA NextKeepsInv == ASSUME Inv, [Next]_vars PROVE Inv'
  <1>1. ASSUME NEW a \in 0..net_in.app PROVE a \in Nat
    BY DEF Inv, TypeOK
  <1>2. CASE \E a \in 0..net_in.app, l \in BOOLEAN, r \in PacketLens \cup {0} : ReadTls(a, l, r)
    BY <1>1, <1>2, ReadTlsKeepsInv
  <1>3. CASE \E a \in 0..net_in.app, l \in BOOLEAN : PreRead(a, l)
    BY <1>1, <1>3, PreReadKeepsInv
  <1>4. CASE \E r \in PacketLens \cup {0} : ReadTcp(r)
    BY <1>4, ReadTcpKeepsInv
  <1> QED BY <1>2, <1>3, <1>4, SendingKeepsInv, ShutdownKeepsInv, WritingKeepsInv, PeerKeepsInv, StutterKeepsInv
       DEF Next, Steps

-----------------------------------------------------------------------------
(* The properties.                                                         *)

THEOREM InvHolds == Spec => []Inv
  BY InitInv, NextKeepsInv, PTL DEF Spec

\* What wants() says on TLS and on TCP.
LEMMA WantsTls ==
    ASSUME tls, NEW r, NEW w
    PROVE  /\ wants(r, w).write = (sendable_tls > 0)
           /\ wants(r, w).read = (plaintext = 0 /\ ~close_notify /\ (traffic \/ sendable_tls = 0))
  BY DEF wants

LEMMA WantsTcp == ASSUME ~tls, NEW r, NEW w PROVE wants(r, w).write = w
  BY DEF wants

LEMMA InvNoStall == ASSUME Inv PROVE NoStall
  <1>1. ASSUME phase \in {"run", "flush"}, todo > 0
        PROVE  wants(phase = "run", TRUE).write \/ (~traffic /\ wants(phase = "run", TRUE).read)
    <2>1. CASE ~tls BY <2>1, WantsTcp
    <2>2. CASE tls /\ traffic
      <3>1. sendable_tls > 0 BY <1>1, <2>2 DEF Inv, Behind
      <3> QED BY <2>2, <3>1, WantsTls
    <2>3. CASE tls /\ ~traffic
      <3>1. plaintext = 0 /\ ~close_notify BY <2>3 DEF Inv, Early
      <3>2. sendable_tls > 0 \/ sendable_tls = 0 BY DEF Inv, TypeOK
      <3> QED BY <2>3, <3>1, <3>2, WantsTls
    <2> QED BY <2>1, <2>2, <2>3
  <1>2. sendable_plaintext > 0 => ~traffic
    BY DEF Inv, Late
  <1>3. phase = "run" => plaintext = 0
    BY DEF Inv, Consumed
  <1> QED BY <1>1, <1>2, <1>3 DEF NoStall

\* Neither direction of the connection stalls, for every buffer limit: what
\* task_step waits for, as wants() tells it, covers the packets that wait, and
\* its loop around recv leaves nothing behind.
THEOREM NoStallHolds == Spec => []NoStall
  BY InvNoStall, InvHolds, PTL

\* The main loop ends as for a closed connection, and pre_write reports its end,
\* only after the peer has closed it: rustls is never written to the socket with
\* nothing in it, and when it is full that is not taken for the end.
THEOREM ClosedMeansClosedHolds == Spec => ClosedMeansClosed
  <1>1. ASSUME Inv, [Next]_vars, phase = "run", phase' = "ended"
        PROVE  fin \/ close_notify'
    BY <1>1 DEF Next, Steps, vars, status, buffers, net, mine, Bootstrap, SendPacket, Send, Fail, WantStop, WriteBranch,
       ZeroWritten, ReadTls, ReadTcp, SendDisconnect, PreRead, FlushDone, send_close_notify, NotifyWrite, NotifyDone,
       Timeout, PeerHello, PeerSends, PeerLast, PeerCloses, Breaks
  <1>2. ASSUME Inv, [Next]_vars, error' = "UnexpectedEof"
        PROVE  fin
    <2>1. Inv'
      BY <1>2, NextKeepsInv
    <2>2. CASE error = "UnexpectedEof"
      BY <1>2, <2>2 DEF Inv, EofSeen
    <2>3. CASE error # "UnexpectedEof"
      <3>1. fin' = fin
        BY <1>2, <2>3 DEF PeerCloses, Next, Steps, vars, status, buffers, net, mine, Bootstrap, SendPacket, WantStop,
           WriteBranch, ReadTls, ReadTcp, SendDisconnect, PreRead, FlushDone, send_close_notify, NotifyWrite, NotifyDone,
           Timeout, PeerHello, PeerSends, PeerLast, Breaks
      <3> QED BY <1>2, <2>1, <3>1 DEF Inv, EofSeen
    <2> QED BY <2>2, <2>3
  <1> QED BY <1>1, <1>2, InvHolds, PTL DEF Spec, ClosedMeansClosed

\* send_disconnect_and_flush sets disconnect_sent only when every packet has
\* gone through rustls and into the socket.
THEOREM SentWhenWrittenHolds == Spec => SentWhenWritten
  <1>1. ASSUME Inv, [Next]_vars, disconnect_sent', ~disconnect_sent
        PROVE  todo = 0 /\ sendable_plaintext = 0 /\ sendable_tls = 0
    <2>1. FlushDone
      BY <1>1 DEF Next, Steps, vars, status, buffers, net, mine, Bootstrap, SendPacket, Send, Fail, WantStop, WriteBranch, ConnectionClosed,
         ReadTls, ReadTcp, SendDisconnect, PreRead, send_close_notify, NotifyWrite, NotifyDone, Timeout,
         PeerHello, PeerSends, PeerLast, PeerCloses, Breaks
    <2>2. phase = "flush" /\ ~wants(FALSE, todo > 0).read /\ ~wants(FALSE, todo > 0).write
      BY <2>1 DEF FlushDone
    <2>3. todo \in Nat /\ sendable_plaintext \in Nat /\ sendable_tls \in Nat
      BY <1>1 DEF Inv, TypeOK
    <2>4. CASE ~tls
      <3>1. ~(todo > 0) BY <2>2, <2>4, WantsTcp
      <3> QED BY <1>1, <2>3, <2>4, <3>1 DEF Inv, Plain
    <2>5. CASE tls
      <3>0. ~(sendable_tls > 0) /\ ~(plaintext = 0 /\ ~close_notify /\ (traffic \/ sendable_tls = 0))
        BY <2>2, <2>5, WantsTls
      <3>1. sendable_tls = 0
        BY <2>3, <3>0
      <3>2. traffic
        BY <1>1, <3>0, <3>1 DEF Inv, Early
      <3>3. sendable_plaintext = 0
        BY <1>1, <3>2 DEF Inv, Late
      <3>4. ~(todo > 0)
        BY <1>1, <2>2, <2>5, <3>1, <3>2 DEF Inv, Behind
      <3> QED BY <2>3, <3>1, <3>3, <3>4
    <2> QED BY <2>4, <2>5
  <1> QED BY <1>1, InvHolds, PTL DEF Spec, SentWhenWritten

=============================================================================
