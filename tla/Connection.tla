----------------------------- MODULE Connection -----------------------------
(***************************************************************************)
(* How a connection is made: the builder of options (src/options.rs),      *)
(* Client::connect (src/lib.rs), and the transceiver task that it starts   *)
(* on one of the two transports, whose steps are those of Transport.       *)
(*                                                                         *)
(* Options are a record with the fields of OptionsT, and the calls of the  *)
(* builder are kept in calls, from which the properties tell what was      *)
(* asked for.  A host is the sequence of its parts between colons.         *)
(***************************************************************************)
EXTENDS Transport, Sequences, FiniteSetsExt

CONSTANTS
    Setters,        \* calls of the builder, each with the fields that it sets
    Hosts,
    AddrLists,      \* answers of the resolver: sequences of IP versions
    MaxCalls,       \* bound: calls of the builder
    None

ASSUME ConnectionAssumption ==
    /\ MaxCalls \in Nat
    /\ \A h \in Hosts : Len(h) \in Nat \ {0} /\ h = [i \in 1..Len(h) |-> h[i]]
    /\ AddrLists \subseteq Seq({4, 6})

VARIABLES
    opts, calls,    \* the options, and the calls that made them
    call,           \* where the caller is: build, gone, lookup, tcp, ready, await, join, returned, failed
    result,         \* what Client::connect returns
    conn,           \* what the connection is made from
    connect_sig     \* what the task has sent through the oneshot channel

mqtt_vars == <<opts, calls, call, result, conn, connect_sig>>
all_vars == <<vars, mqtt_vars>>

new == [clean_session |-> FALSE, keep_alive |-> 30, last_will |-> None, username |-> None, password |-> None,
        no_delay |-> FALSE, enabled_ip_versions |-> {4, 6}, connection_cfg |-> "none",
        dns_timeout |-> 3, tcp_connect_timeout |-> 10, mqtt_connect_timeout |-> 3, packets_resend_delay |-> 1,
        default_port |-> 1883, default_port_changed |-> FALSE]

ConnectionInit ==
    /\ Created(FALSE)
    /\ opts = new /\ calls = <<>> /\ call = "build"
    /\ result = None /\ conn = None /\ connect_sig = "none"

-----------------------------------------------------------------------------
(* The builder.                                                            *)

set_clean_session == [clean_session |-> TRUE]
set_keep_alive(v) == [keep_alive |-> v]
set_last_will(v) == [last_will |-> v]
set_username(v) == [username |-> v]
set_password(v) == [password |-> v]
set_no_delay == [no_delay |-> TRUE]
set_dns_timeout(v) == [dns_timeout |-> v]
set_tcp_connect_timeout(v) == [tcp_connect_timeout |-> v]
set_mqtt_connect_timeout(v) == [mqtt_connect_timeout |-> v]
set_all_timeouts(d, t, m) == [dns_timeout |-> d, tcp_connect_timeout |-> t, mqtt_connect_timeout |-> m]
set_all_timeouts_to(v) == set_all_timeouts(v, v, v)
set_packets_resend_delay(v) == [packets_resend_delay |-> v]
set_default_port(p) == [default_port |-> p, default_port_changed |-> TRUE]

\* A setter writes to none of the fields that the other calls of the builder
\* write to, and a default port only together with its flag.
ASSUME SettersAssumption ==
    \A c \in Setters :
        /\ DOMAIN c \subseteq DOMAIN new \ {"enabled_ip_versions", "connection_cfg"}
        /\ "default_port" \in DOMAIN c <=> "default_port_changed" \in DOMAIN c
        /\ "default_port_changed" \in DOMAIN c => c.default_port_changed = TRUE
        /\ "packets_resend_delay" \in DOMAIN c => c.packets_resend_delay \in Nat

Called(c) ==
    /\ call = "build" /\ Len(calls) < MaxCalls
    /\ calls' = Append(calls, c)
    /\ UNCHANGED <<vars, call, result, conn, connect_sig>>

Set(c) ==
    /\ Called(c)
    /\ opts' = [f \in DOMAIN opts |-> IF f \in DOMAIN c THEN c[f] ELSE opts[f]]

\* disable_ipv4 and disable_ipv6.
disable_ip(v) ==
    /\ Called([disabled |-> v])
    /\ opts' = [opts EXCEPT !.enabled_ip_versions = @ \ {v}]

\* Fault: the port is switched whatever it has been set to.
enable_tls_always ==
    /\ Called([connection_cfg |-> "tls"])
    /\ opts.connection_cfg = "none"
    /\ opts' = [opts EXCEPT !.connection_cfg = "tls", !.default_port = 8883]

\* enable_tls_ex, and the ways to it that find their certificates.
enable_tls ==
    /\ Called([connection_cfg |-> "tls"])
    /\ opts.connection_cfg = "none"
    /\ opts' = [opts EXCEPT !.connection_cfg = "tls",
                            !.default_port = IF opts.default_port_changed THEN @ ELSE 8883]

\* The others fail, and the options are lost.
enable_tls_fails ==
    /\ call = "build" /\ opts.connection_cfg = "none"
    /\ call' = "gone" /\ opts' = None /\ calls' = <<>>
    /\ UNCHANGED <<vars, result, conn, connect_sig>>

\* If it fails the options stay as they are.
enable_tls_client_auth ==
    /\ Called([connection_cfg |-> "tls_auth"])
    /\ opts.connection_cfg = "tls"
    /\ opts' = [opts EXCEPT !.connection_cfg = "tls_auth"]

-----------------------------------------------------------------------------
(* Client::connect.                                                        *)

\* Without a connection, or a task, there is nothing to undo.
Failed(e) ==
    /\ call' = "failed" /\ result' = e
    /\ opts' = None /\ calls' = <<>> /\ conn' = None
    /\ UNCHANGED <<vars, connect_sig>>

\* The first colon ends the name.
HostAndPort(h) == IF Len(h) > 1 THEN h ELSE Append(h, opts.default_port)

\* ServerName::try_from takes a host name, and not what is left of an address
\* of IPv6 in front of its first colon.
IsName(s) == s \notin {"", "["}

\* separate_connection_cfg and create_connection.
Connect(h) ==
    /\ call = "build"
    /\ \/ opts.connection_cfg # "none" /\ ~IsName(h[1]) /\ Failed("InvalidHostname")
       \/ opts.connection_cfg # "none" /\ IsName(h[1]) /\ Failed("TlsError")
       \/ /\ opts.connection_cfg = "none" \/ IsName(h[1])
          /\ call' = "lookup"
          /\ conn' = [host |-> h, host_and_port |-> HostAndPort(h)]
          /\ UNCHANGED <<vars, opts, calls, result, connect_sig>>

\* lookup_host takes the last colon for the one in front of the port, and an
\* address of IPv6 only in brackets.
Resolvable(hp) == Len(hp) = 2 \/ hp[1] = "["
LastPart(hp) == hp[Len(hp)]

\* filter() and next().
address(addrs) ==
    LET S == {i \in DOMAIN addrs : addrs[i] \in opts.enabled_ip_versions}
    IN  IF S = {} THEN None ELSE addrs[Min(S)]

Lookup ==
    /\ call = "lookup"
    /\ \/ Failed("DnsLookup")
       \/ Failed("LookupHostError")
       \/ /\ Resolvable(conn.host_and_port)
          /\ \E addrs \in AddrLists :
                \/ address(addrs) = None /\ Failed("HostnameNotFound")
                \/ /\ address(addrs) # None
                   /\ call' = "tcp"
                   /\ conn' = [host |-> conn.host, port |-> LastPart(conn.host_and_port),
                               version |-> address(addrs)]
                   /\ UNCHANGED <<vars, opts, calls, result, connect_sig>>

\* The socket, set_nodelay, the CONNECT packet and what the task is made from.
TcpConnect ==
    /\ call = "tcp"
    /\ \/ Failed("TcpConnect")
       \/ Failed("IoError")
       \/ /\ call' = "ready"
          /\ conn' = [conn |-> conn, nodelay |-> opts.no_delay, tls |-> opts.connection_cfg,
                      connect_packet |-> [clean_session |-> opts.clean_session, keep_alive |-> opts.keep_alive,
                                          will |-> opts.last_will, username |-> opts.username,
                                          password |-> opts.password],
                      ping_interval |-> opts.keep_alive,
                      packet_resend_delay |-> IF opts.packets_resend_delay < 1 THEN 1 ELSE opts.packets_resend_delay]
          /\ UNCHANGED <<vars, opts, calls, result, connect_sig>>

\* create_transport and Transceiver::spawn; nothing waits in between.  The rest
\* of the transport and of the task is as Created has it.
Spawn ==
    /\ call = "ready"
    /\ tls' = (conn.tls # "none") /\ sendable_tls' = Hello(tls')
    /\ UNCHANGED <<phase, connected, todo, sendable_plaintext, traffic, plaintext, close_notify, net, status, out, in>>
    /\ call' = "await" /\ opts' = None /\ calls' = <<>> /\ conn' = None
    /\ UNCHANGED <<result, connect_sig>>

\* The oneshot channel: an answer, or the task has dropped its end.
ConnectResult ==
    /\ call = "await"
    /\ \/ connect_sig = "ok" /\ call' = "returned" /\ result' = "Ok"
       \/ connect_sig = "refused" /\ call' = "join" /\ result' = "ServerError"
       \/ connect_sig = "none" /\ phase = "ended" /\ call' = "join" /\ result' = "OneshotRecvError"
    /\ UNCHANGED <<vars, opts, calls, conn, connect_sig>>

\* The Disconnect command stays behind for the task.
ConnectTimeout ==
    /\ call = "await" /\ connect_sig = "none"
    /\ call' = "returned" /\ result' = "MqttConnect"
    /\ UNCHANGED <<vars, opts, calls, conn, connect_sig>>

Join ==
    /\ call = "join" /\ phase = "ended"
    /\ call' = "returned"
    /\ UNCHANGED <<vars, opts, calls, result, conn, connect_sig>>

-----------------------------------------------------------------------------
(* The task.  Its first packet answers the CONNECT; a refusal ends it, and *)
(* so does the command Disconnect, which has one of two senders.           *)

TaskStep ==
    /\ call \in {"await", "join", "returned"}
    /\ Steps \/ (WantStop /\ result \in {"Ok", "MqttConnect"})
    /\ IF connected' /\ ~connected
       THEN connect_sig' \in (IF phase' = "stop" THEN {"ok", "refused"} ELSE {"ok"})
       ELSE UNCHANGED connect_sig
    /\ UNCHANGED <<opts, calls, call, result, conn>>

ConnectStep ==
    \/ Lookup \/ TcpConnect \/ Spawn \/ ConnectResult \/ ConnectTimeout \/ Join

ConnectionNext ==
    \/ \E c \in Setters : Set(c)
    \/ \E v \in {4, 6} : disable_ip(v)
    \/ enable_tls \/ enable_tls_fails \/ enable_tls_client_auth
    \/ \E h \in Hosts : Connect(h)
    \/ ConnectStep
    \/ TaskStep

\* The timers of Client::connect and of the disconnect sequence run out.
ConnectionSpec ==
    /\ ConnectionInit /\ [][ConnectionNext]_all_vars
    /\ WF_all_vars(ConnectStep)
    /\ WF_all_vars(TaskStep /\ Timeout)

-----------------------------------------------------------------------------
(* Properties.                                                             *)

\* What the last call of the builder that sets field f sets it to.
Asked(f, default) ==
    LET S == {i \in DOMAIN calls : f \in DOMAIN calls[i]}
    IN  IF S = {} THEN default ELSE calls[Max(S)][f]

\* The same for what is off until it is asked for.
AskedFlag(f) == Asked(f, FALSE)

AddressAsAsked ==
    /\ conn.conn.port = IF Len(conn.conn.host) > 1 THEN LastPart(conn.conn.host)
                        ELSE Asked("default_port", IF conn.tls = "none" THEN 1883 ELSE 8883)
    /\ \A i \in DOMAIN calls : "disabled" \in DOMAIN calls[i] => calls[i].disabled # conn.conn.version

ChannelAsAsked ==
    /\ conn.tls = Asked("connection_cfg", "none") /\ conn.nodelay = AskedFlag("no_delay")
    /\ conn.ping_interval = Asked("keep_alive", 30)
    /\ conn.packet_resend_delay = Max({1, Asked("packets_resend_delay", 1)})

PacketAsAsked ==
    conn.connect_packet =
        [clean_session |-> AskedFlag("clean_session"), keep_alive |-> Asked("keep_alive", 30),
         will |-> Asked("last_will", None), username |-> Asked("username", None),
         password |-> Asked("password", None)]

TimeoutsAsAsked ==
    /\ opts.dns_timeout = Asked("dns_timeout", 3)
    /\ opts.tcp_connect_timeout = Asked("tcp_connect_timeout", 10)
    /\ opts.mqtt_connect_timeout = Asked("mqtt_connect_timeout", 3)

\* A connection is made as the calls of the builder say, in whatever order they
\* come: the port of the host, or else the last default port that was set, or
\* else that of the kind of connection; to an address of a version that has not
\* been disabled; and with the last value of every option.
ConnectsAsAsked ==
    call = "ready" => AddressAsAsked /\ ChannelAsAsked /\ PacketAsAsked /\ TimeoutsAsAsked

\* Client::connect returns, whatever the resolver, the network and the broker
\* do.  A refusal is returned only after the task has ended, and with TLS the
\* task waits for the alert of the peer.
ConnectReturns == call \in {"lookup", "tcp", "ready", "await", "join"} ~> call \in {"returned", "failed"}

\* The peer keeps reading: while the task has something to write, its socket
\* becomes writable and takes some of it, again and again.
PeerReads == WF_all_vars(TaskStep /\ WriteProgress)

\* Bytes of packets that have left the task and the buffers of rustls, at least.
Written == out - todo - sendable_plaintext - sendable_tls

\* Once the handshake of TLS is over, every byte of the packets gets through
\* tx_pkt, the queue behind it and the buffers of rustls into the socket, however
\* many packets come after it, if the peer keeps reading.
GetsOut ==
    PeerReads => \A n \in ConnectLen..MaxOut :
        (tls => traffic) /\ out >= n ~> Written >= n \/ phase \notin {"run", "flush"}

=============================================================================
