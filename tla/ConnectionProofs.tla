-------------------------- MODULE ConnectionProofs --------------------------
(***************************************************************************)
(* What is proved of the transports holds for the tasks that               *)
(* Client::connect starts: until it does so the transport is as it is      *)
(* created, and from then on only the task and its peer touch it.          *)
(***************************************************************************)
EXTENDS Connection, Integers, TransportProofs, WellFoundedInduction

Started == call \in {"await", "join", "returned"}

ConnectionInv == Inv /\ (~Started => Created(FALSE))

\* A step of the builder, or of Client::connect before there is a task.
LEMMA BeforeKeepsInv ==
    ASSUME ConnectionInv, ~Started, UNCHANGED vars
    PROVE  ConnectionInv'
  <1>1. Inv' BY StutterKeepsInv DEF ConnectionInv
  <1>2. Created(FALSE)'
    BY DEF ConnectionInv, Created, Hello, vars, buffers, net, status
  <1> QED BY Zenon, <1>1, <1>2 DEF ConnectionInv

\* A step of Client::connect while the task runs.
LEMMA AfterKeepsInv ==
    ASSUME ConnectionInv, Started', UNCHANGED vars
    PROVE  ConnectionInv'
  <1>1. Inv' BY StutterKeepsInv DEF ConnectionInv
  <1> QED BY <1>1 DEF ConnectionInv

\* The transport and the task start where the specification of Transport does.
LEMMA SpawnStarts ==
    ASSUME ConnectionInv, Spawn
    PROVE  ConnectionInv'
  <1>1. Created(FALSE) /\ Started'
    BY Zenon DEF ConnectionInv, Spawn, Started
  <1>2. tls' \in BOOLEAN /\ sendable_tls' = Hello(tls')
    BY DEF Spawn
  <1>3. UNCHANGED <<phase, connected, todo, sendable_plaintext, traffic, plaintext, close_notify, net, status, out, in>>
    BY DEF Spawn
  <1>4. Hello(tls') \in Nat /\ (~tls' => Hello(tls') = 0)
    BY DEF Hello
  <1>5. TypeOK'
    BY Zenon, <1>1, <1>2, <1>3, <1>4 DEF Created, TypeOK, Phases, Lasts, Errors, net, status
  <1>6. (Behind /\ Early /\ Late /\ Plain /\ Consumed /\ EofSeen)'
    BY <1>1, <1>2, <1>3, <1>4 DEF Created, Behind, Early, Late, Plain, Consumed, EofSeen, net, status
  <1> QED BY <1>1, <1>5, <1>6 DEF ConnectionInv, Inv

LEMMA ConnectionNextKeepsInv == ASSUME ConnectionInv, [ConnectionNext]_all_vars PROVE ConnectionInv'
  <1>1. CASE UNCHANGED all_vars
    <2>1. UNCHANGED vars /\ Started' = Started
      BY <1>1 DEF all_vars, mqtt_vars, Started
    <2> QED BY <2>1, BeforeKeepsInv, AfterKeepsInv
  <1>2. CASE \/ \E c \in Setters : Set(c)
             \/ \E v \in {4, 6} : disable_ip(v)
             \/ enable_tls \/ enable_tls_fails \/ enable_tls_client_auth
    <2>1. ~Started /\ UNCHANGED vars
      BY <1>2 DEF Set, disable_ip, enable_tls, enable_tls_fails, enable_tls_client_auth, Called, Started
    <2> QED BY <2>1, BeforeKeepsInv
  <1>3. CASE (\E h \in Hosts : Connect(h)) \/ Lookup \/ TcpConnect
    <2>1. ~Started
      BY Zenon, <1>3 DEF Connect, Lookup, TcpConnect, Started
    <2>2. UNCHANGED vars
      BY <1>3 DEF Connect, Lookup, TcpConnect, Failed
    <2> QED BY Zenon, <2>1, <2>2, BeforeKeepsInv
  <1>4. CASE Spawn
    BY <1>4, SpawnStarts
  <1>5. CASE ConnectResult \/ ConnectTimeout \/ Join
    <2>1. Started' /\ UNCHANGED vars
      BY <1>5 DEF ConnectResult, ConnectTimeout, Join, Started
    <2> QED BY <2>1, AfterKeepsInv
  <1>6. CASE TaskStep
    <2>1. Next /\ Started'
      BY <1>6 DEF TaskStep, Next, Started
    <2>2. Inv'
      BY <2>1, NextKeepsInv DEF ConnectionInv
    <2> QED BY <2>1, <2>2 DEF ConnectionInv
  <1> QED BY <1>1, <1>2, <1>3, <1>4, <1>5, <1>6 DEF ConnectionNext, ConnectStep

\* Whatever the options and the resolver, the broker's answer and its timeout:
\* the task that Client::connect starts keeps the invariant of the transport,
\* so that neither direction of the connection stalls.
THEOREM ConnectionNoStall == ConnectionSpec => []NoStall
  <1>1. ConnectionInit => ConnectionInv
    <2> SUFFICES ASSUME ConnectionInit PROVE ConnectionInv
      OBVIOUS
    <2>1. Created(FALSE) /\ Init
      BY Zenon DEF ConnectionInit, Init
    <2> QED BY Zenon, <2>1, InitInv DEF ConnectionInv
  <1>2. ConnectionInv /\ [ConnectionNext]_all_vars => ConnectionInv'
    BY ConnectionNextKeepsInv
  <1>3. ConnectionInv => NoStall
    BY InvNoStall DEF ConnectionInv
  <1> QED BY <1>1, <1>2, <1>3, PTL DEF ConnectionSpec

-----------------------------------------------------------------------------
(* The builder.                                                            *)

\* The calls that a builder can have had.
Calls ==
    Setters \cup {[disabled |-> v] : v \in {4, 6}} \cup {[connection_cfg |-> t] : t \in {"tls", "tls_auth"}}

\* The calls in cs that set field f, and what the last of them sets it to.
SetBy(cs, f) == {i \in DOMAIN cs : f \in DOMAIN cs[i]}
LastOf(cs, f, default) == IF SetBy(cs, f) = {} THEN default ELSE cs[Max(SetBy(cs, f))][f]

Fields == {"clean_session", "keep_alive", "last_will", "username", "password", "no_delay", "enabled_ip_versions",
           "connection_cfg", "dns_timeout", "tcp_connect_timeout", "mqtt_connect_timeout", "packets_resend_delay",
           "default_port", "default_port_changed"}

\* The fields that keep the last value they are set to.
Kept == Fields \ {"enabled_ip_versions", "default_port", "default_port_changed"}

\* The options o are what the calls cs make of new().  The flag of the default
\* port tells enable_tls whether it may still change the port.
KeptAsAsked(o, cs) == \A f \in Kept : o[f] = LastOf(cs, f, new[f])
PortAsAsked(o, cs) ==
    o["default_port"] = LastOf(cs, "default_port", IF o["connection_cfg"] = "none" THEN 1883 ELSE 8883)
PortFlagged(o, cs) ==
    /\ SetBy(cs, "default_port") = {} => o["default_port_changed"] = FALSE
    /\ SetBy(cs, "default_port") # {} => o["default_port_changed"] = TRUE
VersionsLeft(o, cs) == \A i \in SetBy(cs, "disabled") : cs[i].disabled \notin o["enabled_ip_versions"]
Made(o, cs) ==
    /\ DOMAIN o = Fields
    /\ KeptAsAsked(o, cs) /\ PortAsAsked(o, cs) /\ PortFlagged(o, cs) /\ VersionsLeft(o, cs)
    /\ o["packets_resend_delay"] \in Nat

\* The host is kept from Connect to the socket, and the port and the address
\* are chosen as the options say.
Chosen(c) ==
    /\ c.port = IF Len(c.host) > 1 THEN LastPart(c.host) ELSE opts["default_port"]
    /\ c.version \in opts["enabled_ip_versions"]

Ready(c) ==
    [conn |-> c, nodelay |-> opts.no_delay, tls |-> opts.connection_cfg,
     connect_packet |-> [clean_session |-> opts.clean_session, keep_alive |-> opts.keep_alive, will |-> opts.last_will,
                         username |-> opts.username, password |-> opts.password],
     ping_interval |-> opts.keep_alive,
     packet_resend_delay |-> IF opts.packets_resend_delay < 1 THEN 1 ELSE opts.packets_resend_delay]

OptionsInv ==
    /\ call \in {"build", "lookup", "tcp", "ready"} => calls \in Seq(Calls) /\ Made(opts, calls)
    /\ call = "lookup" => conn.host \in Hosts /\ conn.host_and_port = HostAndPort(conn.host)
    /\ call = "tcp" => Chosen(conn)
    /\ call = "ready" => Chosen(conn.conn) /\ conn = Ready(conn.conn)

\* The calls after one more.
More(cs, c) == Append(cs, c)

\* A set of natural numbers that is not empty has a least element.
LEMMA LeastNatural ==
    ASSUME NEW T, T \subseteq Nat, T # {}
    PROVE  \E m \in T : \A k \in T : m <= k
  <1> DEFINE R == {ss \in Nat \X Nat : ss[1] < ss[2]}
  <1>1. IsWellFoundedOn(R, Nat)
    BY NatLessThanWellFounded DEF OpToRel
  <1> HIDE DEF R
  <1>2. PICK x \in T : \A y \in T : ~(<<y, x>> \in R)
    BY Zenon, <1>1, WFMin
  <1>3. \A y \in T : ~(y < x)
    BY Zenon, <1>2 DEF R
  <1> QED BY <1>3

\* A set of numbers up to n has a greatest element.
LEMMA GreatestUpTo ==
    ASSUME NEW n \in Nat, NEW S, S \subseteq 1..n, S # {}
    PROVE  Max(S) \in S
  <1> DEFINE T == {k \in Nat : \E m \in S : k = n - m}
  <1>1. T \subseteq Nat /\ T # {}
    <2>1. PICK m \in S : TRUE
      BY Zenon
    <2>2. n - m \in Nat
      BY <2>1
    <2> QED BY Zenon, <2>1, <2>2
  <1>2. PICK k \in T : \A j \in T : k <= j
    BY Zenon, <1>1, LeastNatural
  <1>3. PICK m \in S : k = n - m
    BY <1>2
  <1>4. ASSUME NEW x \in S PROVE m >= x
    <2>1. n - x \in T
      OBVIOUS
    <2>2. k <= n - x /\ m \in 1..n /\ x \in 1..n
      BY <2>1, <1>2, <1>3
    <2> QED BY <2>2, <1>3
  <1>5. \E y \in S : \A x \in S : y >= x
    BY <1>4
  <1> QED BY Zenon, <1>5 DEF Max

\* A set of numbers has a least element.
LEMMA LeastIn ==
    ASSUME NEW S, S \subseteq Nat, S # {}
    PROVE  Min(S) \in S
  <1>1. \E m \in S : \A k \in S : m <= k
    BY Zenon, LeastNatural
  <1>2. \E m \in S : \A k \in S : m =< k
    BY <1>1
  <1> QED BY Zenon, <1>2 DEF Min

\* Which calls set a field, after one more call.
LEMMA OldCalls ==
    ASSUME NEW cs \in Seq(Calls), NEW c \in Calls, NEW f
    PROVE  /\ f \notin DOMAIN c => SetBy(More(cs, c), f) = SetBy(cs, f)
           /\ \A i \in SetBy(More(cs, c), f) :
                 \/ i \in SetBy(cs, f) /\ More(cs, c)[i] = cs[i]
                 \/ f \in DOMAIN c /\ More(cs, c)[i] = c
  <1> DEFINE n == Len(cs)
             ds == More(cs, c)
  <1>1. n \in Nat /\ DOMAIN cs = 1..n /\ DOMAIN ds = 1..(n + 1)
    BY DEF More
  <1>2. ds[n + 1] = c /\ \A i \in 1..n : ds[i] = cs[i]
    BY DEF More
  <1> HIDE DEF n, ds
  <1>3. SetBy(cs, f) \subseteq 1..n /\ SetBy(ds, f) \subseteq 1..(n + 1)
    BY <1>1 DEF SetBy
  <1>4. \A i \in 1..n : i \in SetBy(ds, f) <=> i \in SetBy(cs, f)
    BY <1>1, <1>2 DEF SetBy
  <1>5. n + 1 \in SetBy(ds, f) => f \in DOMAIN c
    BY <1>2 DEF SetBy
  <1>6. \A i \in 1..(n + 1) : i \in 1..n \/ i = n + 1
    BY <1>1
  <1>7. ASSUME NEW i \in SetBy(ds, f)
        PROVE  (i \in SetBy(cs, f) /\ ds[i] = cs[i]) \/ (f \in DOMAIN c /\ ds[i] = c)
    BY <1>2, <1>3, <1>4, <1>5, <1>6
  <1>8. ASSUME f \notin DOMAIN c PROVE SetBy(ds, f) = SetBy(cs, f)
    BY <1>3, <1>4, <1>5, <1>6, <1>8
  <1> QED BY <1>7, <1>8 DEF ds

\* What one more call does to the last value of a field.
LEMMA OneMoreCall ==
    ASSUME NEW cs \in Seq(Calls), NEW c \in Calls, NEW f, NEW default
    PROVE  /\ f \in DOMAIN c => LastOf(More(cs, c), f, default) = c[f] /\ SetBy(More(cs, c), f) # {}
           /\ f \notin DOMAIN c => /\ LastOf(More(cs, c), f, default) = LastOf(cs, f, default)
                                  /\ SetBy(More(cs, c), f) = SetBy(cs, f)
  <1> DEFINE n == Len(cs)
             ds == More(cs, c)
  <1>1. n \in Nat /\ DOMAIN cs = 1..n /\ DOMAIN ds = 1..(n + 1)
    BY DEF More
  <1>2. ds[n + 1] = c /\ \A i \in 1..n : ds[i] = cs[i]
    BY DEF More
  <1>3. SetBy(cs, f) \subseteq 1..n /\ SetBy(ds, f) \subseteq 1..(n + 1)
    BY <1>1 DEF SetBy
  <1> HIDE DEF n, ds
  <1>4. CASE f \in DOMAIN c
    <2>1. n + 1 \in SetBy(ds, f)
      BY <1>1, <1>2, <1>4 DEF SetBy
    <2>2. Max(SetBy(ds, f)) = n + 1
      <3>1. \A y \in SetBy(ds, f) : n + 1 >= y
        BY <1>1, <1>3
      <3>2. \A x \in SetBy(ds, f) : (\A y \in SetBy(ds, f) : x >= y) => x = n + 1
        BY <1>1, <1>3, <2>1
      <3> QED BY <2>1, <3>1, <3>2 DEF Max
    <2>3. LastOf(ds, f, default) = c[f]
      BY <2>1, <2>2, <1>2 DEF LastOf
    <2> QED BY <1>4, <2>1, <2>3 DEF ds
  <1>5. CASE f \notin DOMAIN c
    <2>2. SetBy(ds, f) = SetBy(cs, f)
      BY <1>5, OldCalls DEF ds
    <2>3. LastOf(ds, f, default) = LastOf(cs, f, default)
      <3>1. CASE SetBy(cs, f) = {}
        BY <3>1, <2>2 DEF LastOf
      <3>2. CASE SetBy(cs, f) # {}
        <4>1. Max(SetBy(cs, f)) \in 1..n
          BY <3>2, <1>1, <1>3, GreatestUpTo
        <4> QED BY <4>1, <3>2, <2>2, <1>2 DEF LastOf
      <3> QED BY <3>1, <3>2
    <2> QED BY <1>5, <2>2, <2>3 DEF ds
  <1> QED BY <1>4, <1>5

\* The fields of new(), and those that a call sets.
LEMMA CallFields ==
    /\ DOMAIN new = Fields
    /\ \A c \in Setters : DOMAIN c \subseteq (Kept \cup {"default_port", "default_port_changed"}) \ {"connection_cfg"}
    /\ \A c \in Setters : "disabled" \notin DOMAIN c
    /\ \A v : DOMAIN [disabled |-> v] = {"disabled"}
    /\ \A t : DOMAIN [connection_cfg |-> t] = {"connection_cfg"}
  <1>1. DOMAIN new = Fields
    BY Zenon DEF new, Fields
  <1>2. \A c \in Setters : DOMAIN c \subseteq Fields \ {"enabled_ip_versions", "connection_cfg"}
    BY <1>1, SettersAssumption
  <1>3. "disabled" \notin Fields
    BY DEF Fields
  <1>4. \A c \in Setters : DOMAIN c \subseteq (Kept \cup {"default_port", "default_port_changed"}) \ {"connection_cfg"}
    BY <1>2 DEF Kept
  <1>5. \A c \in Setters : "disabled" \notin DOMAIN c
    BY <1>2, <1>3
  <1> QED BY <1>1, <1>4, <1>5

\* The options that the builder starts with.
LEMMA MadeNew == Made(new, <<>>) /\ <<>> \in Seq(Calls)
  <1>1. \A f : SetBy(<<>>, f) = {}
    BY DEF SetBy
  <1>2. \A f, d : LastOf(<<>>, f, d) = d
    BY <1>1 DEF LastOf
  <1>3. DOMAIN new = Fields
    BY CallFields
  <1>4. /\ new["default_port"] = 1883 /\ new["connection_cfg"] = "none" /\ new["default_port_changed"] = FALSE
        /\ new["packets_resend_delay"] \in Nat
    BY DEF new
  <1>5. KeptAsAsked(new, <<>>)
    BY <1>2 DEF KeptAsAsked
  <1>6. PortAsAsked(new, <<>>)
    BY <1>2, <1>4 DEF PortAsAsked
  <1>7. PortFlagged(new, <<>>) /\ VersionsLeft(new, <<>>)
    BY <1>1, <1>4 DEF PortFlagged, VersionsLeft
  <1> QED BY <1>3, <1>4, <1>5, <1>6, <1>7 DEF Made

\* The setters.
LEMMA MadeSet ==
    ASSUME NEW o, NEW cs \in Seq(Calls), Made(o, cs), NEW c \in Setters
    PROVE  /\ More(cs, c) \in Seq(Calls)
           /\ Made([f \in DOMAIN o |-> IF f \in DOMAIN c THEN c[f] ELSE o[f]], More(cs, c))
  <1> DEFINE p == [f \in DOMAIN o |-> IF f \in DOMAIN c THEN c[f] ELSE o[f]]
             ds == More(cs, c)
  <1>1. c \in Calls
    BY DEF Calls
  <1>2. ds \in Seq(Calls)
    BY <1>1 DEF More
  <1>3. DOMAIN o = Fields
    BY DEF Made
  <1>4. DOMAIN p = Fields /\ \A f \in Fields : p[f] = IF f \in DOMAIN c THEN c[f] ELSE o[f]
    BY <1>3
  <1> HIDE DEF p
  <1>5. KeptAsAsked(p, ds)
    <2> SUFFICES ASSUME NEW f \in Kept PROVE p[f] = LastOf(ds, f, new[f])
      BY DEF KeptAsAsked
    <2>1. o[f] = LastOf(cs, f, new[f]) /\ f \in Fields
      BY DEF Made, KeptAsAsked, Kept
    <2> QED BY <2>1, <1>1, <1>4, OneMoreCall
  <1>6. "connection_cfg" \notin DOMAIN c /\ "disabled" \notin DOMAIN c /\ "enabled_ip_versions" \notin DOMAIN c
    <2>1. "disabled" \notin DOMAIN c
      BY CallFields
    <2>2. "connection_cfg" \notin DOMAIN c /\ "enabled_ip_versions" \notin DOMAIN c
      BY SettersAssumption
    <2> QED BY <2>1, <2>2
  <1>7. p["connection_cfg"] = o["connection_cfg"] /\ p["enabled_ip_versions"] = o["enabled_ip_versions"]
    BY <1>4, <1>6 DEF Fields
  <1>8. PortAsAsked(p, ds)
    <2> DEFINE d == IF p["connection_cfg"] = "none" THEN 1883 ELSE 8883
    <2>1. o["default_port"] = LastOf(cs, "default_port", d)
      BY <1>7 DEF Made, PortAsAsked
    <2> HIDE DEF d
    <2>2. p["default_port"] = IF "default_port" \in DOMAIN c THEN c["default_port"] ELSE o["default_port"]
      BY Zenon, <1>4 DEF Fields
    <2>3. p["default_port"] = LastOf(ds, "default_port", d)
      BY <2>1, <2>2, <1>1, OneMoreCall
    <2> QED BY <2>3 DEF d, PortAsAsked
  <1>9. PortFlagged(p, ds)
    <2>1. p["default_port_changed"] = IF "default_port_changed" \in DOMAIN c THEN c["default_port_changed"] ELSE o["default_port_changed"]
      BY <1>4 DEF Fields
    <2>2. CASE "default_port" \in DOMAIN c
      <3>1. "default_port_changed" \in DOMAIN c /\ c["default_port_changed"] = TRUE
        BY <2>2, SettersAssumption
      <3>2. SetBy(ds, "default_port") # {}
        BY Zenon, <2>2, <1>1, OneMoreCall
      <3> QED BY <2>1, <3>1, <3>2 DEF PortFlagged
    <2>3. CASE "default_port" \notin DOMAIN c
      <3>1. "default_port_changed" \notin DOMAIN c
        BY <2>3, SettersAssumption
      <3>2. SetBy(ds, "default_port") = SetBy(cs, "default_port")
        BY Zenon, <2>3, <1>1, OneMoreCall
      <3>3. p["default_port_changed"] = o["default_port_changed"]
        BY Zenon, <2>1, <3>1
      <3> QED BY <3>2, <3>3 DEF Made, PortFlagged
    <2> QED BY <2>2, <2>3
  <1>10. VersionsLeft(p, ds)
    <2>1. SetBy(ds, "disabled") = SetBy(cs, "disabled") /\ \A i \in SetBy(ds, "disabled") : ds[i] = cs[i]
      BY <1>1, <1>6, OldCalls
    <2> QED BY Zenon, <2>1, <1>7 DEF Made, VersionsLeft
  <1>11. p["packets_resend_delay"] \in Nat
    <2>1. p["packets_resend_delay"] = IF "packets_resend_delay" \in DOMAIN c THEN c["packets_resend_delay"] ELSE o["packets_resend_delay"]
      BY <1>4 DEF Fields
    <2>2. "packets_resend_delay" \in DOMAIN c => c["packets_resend_delay"] \in Nat
      BY SettersAssumption
    <2>3. o["packets_resend_delay"] \in Nat
      BY DEF Made
    <2> QED BY <2>1, <2>2, <2>3
  <1>12. Made(p, ds)
    BY <1>4, <1>5, <1>8, <1>9, <1>10, <1>11 DEF Made
  <1> QED BY <1>2, <1>12 DEF p

\* disable_ipv4 and disable_ipv6.
LEMMA MadeDisabled ==
    ASSUME NEW o, NEW cs \in Seq(Calls), Made(o, cs), NEW v \in {4, 6},
           NEW c \in Calls, DOMAIN c = {"disabled"}, c.disabled = v
    PROVE  /\ More(cs, c) \in Seq(Calls)
           /\ Made([o EXCEPT !.enabled_ip_versions = @ \ {v}], More(cs, c))
  <1> DEFINE p == [o EXCEPT !.enabled_ip_versions = @ \ {v}]
             ds == More(cs, c)
  <1>1. "disabled" \in DOMAIN c
    OBVIOUS
  <1>2. ds \in Seq(Calls)
    BY <1>1 DEF More
  <1>3. DOMAIN o = Fields /\ "enabled_ip_versions" \in Fields
    BY DEF Made, Fields
  <1>4. /\ DOMAIN p = Fields /\ p["enabled_ip_versions"] = o["enabled_ip_versions"] \ {v}
        /\ \A f \in Fields \ {"enabled_ip_versions"} : p[f] = o[f]
    BY <1>3
  <1> HIDE DEF p
  <1>5. \A f, d : f # "disabled" => LastOf(ds, f, d) = LastOf(cs, f, d) /\ SetBy(ds, f) = SetBy(cs, f)
    BY <1>1, OneMoreCall
  <1>6. KeptAsAsked(p, ds)
    <2> SUFFICES ASSUME NEW f \in Kept PROVE p[f] = LastOf(ds, f, new[f])
      BY DEF KeptAsAsked
    <2>1. o[f] = LastOf(cs, f, new[f])
      BY DEF Made, KeptAsAsked
    <2>2. f # "disabled" /\ f \in Fields \ {"enabled_ip_versions"}
      BY DEF Kept, Fields
    <2> QED BY <2>1, <2>2, <1>4, <1>5
  <1>7. /\ p["connection_cfg"] = o["connection_cfg"] /\ p["default_port"] = o["default_port"]
        /\ p["default_port_changed"] = o["default_port_changed"]
        /\ p["packets_resend_delay"] = o["packets_resend_delay"]
    BY Zenon, <1>4 DEF Fields
  <1>8. PortAsAsked(p, ds)
    BY <1>5, <1>7 DEF Made, PortAsAsked
  <1>9. PortFlagged(p, ds)
    BY Zenon, <1>5, <1>7 DEF Made, PortFlagged
  <1>10. VersionsLeft(p, ds)
    <2> SUFFICES ASSUME NEW i \in SetBy(ds, "disabled") PROVE ds[i].disabled \notin p["enabled_ip_versions"]
      BY Zenon DEF VersionsLeft
    <2>1. (i \in SetBy(cs, "disabled") /\ ds[i] = cs[i]) \/ ds[i] = c
      <3>1. c \in Calls
        BY Zenon, <1>1
      <3>2. \A j \in SetBy(ds, "disabled") : (j \in SetBy(cs, "disabled") /\ ds[j] = cs[j]) \/ ds[j] = c
        BY <3>1, OldCalls
      <3> QED BY <3>2
    <2>2. i \in SetBy(cs, "disabled") => cs[i].disabled \notin o["enabled_ip_versions"]
      BY Zenon DEF Made, VersionsLeft
    <2> QED BY Zenon, <2>1, <2>2, <1>1, <1>4
  <1>11. Made(p, ds)
    BY <1>4, <1>6, <1>7, <1>8, <1>9, <1>10 DEF Made
  <1> QED BY <1>2, <1>11 DEF p

\* What enable_tls and enable_tls_client_auth make of the options o.  They differ
\* in the default port: the first changes it, and the second finds it changed.
TlsOf(o, p, t) ==
    /\ DOMAIN p = Fields /\ p["connection_cfg"] = t
    /\ \A f \in Fields \ {"connection_cfg", "default_port"} : p[f] = o[f]
    /\ \/ /\ o["connection_cfg"] = "none"
          /\ o["default_port_changed"] = TRUE => p["default_port"] = o["default_port"]
          /\ o["default_port_changed"] = FALSE => p["default_port"] = 8883
       \/ o["connection_cfg"] # "none" /\ p["default_port"] = o["default_port"]

\* The calls that enable TLS.
LEMMA MadeTls ==
    ASSUME NEW o, NEW cs \in Seq(Calls), Made(o, cs), NEW t \in {"tls", "tls_auth"}, NEW p, TlsOf(o, p, t),
           NEW c \in Calls, DOMAIN c = {"connection_cfg"}, c["connection_cfg"] = t
    PROVE  /\ More(cs, c) \in Seq(Calls)
           /\ Made(p, More(cs, c))
  <1> DEFINE ds == More(cs, c)
  <1>1. "disabled" \notin DOMAIN c
    OBVIOUS
  <1>2. ds \in Seq(Calls)
    BY <1>1 DEF More
  <1>3. /\ \A f, d : f # "connection_cfg" => LastOf(ds, f, d) = LastOf(cs, f, d) /\ SetBy(ds, f) = SetBy(cs, f)
        /\ \A d : LastOf(ds, "connection_cfg", d) = t
    <2>1. ASSUME NEW f, NEW d, f # "connection_cfg"
          PROVE  LastOf(ds, f, d) = LastOf(cs, f, d) /\ SetBy(ds, f) = SetBy(cs, f)
      <3>1. f \notin DOMAIN c
        BY <2>1
      <3> QED BY <3>1, OneMoreCall
    <2>2. ASSUME NEW d PROVE LastOf(ds, "connection_cfg", d) = t
      <3>1. "connection_cfg" \in DOMAIN c
        BY Zenon
      <3> QED BY <3>1, OneMoreCall
    <2> QED BY <2>1, <2>2
  <1>4. KeptAsAsked(p, ds)
    <2> SUFFICES ASSUME NEW f \in Kept PROVE p[f] = LastOf(ds, f, new[f])
      BY DEF KeptAsAsked
    <2>1. o[f] = LastOf(cs, f, new[f])
      BY DEF Made, KeptAsAsked
    <2>2. f = "connection_cfg" \/ f \in Fields \ {"connection_cfg", "default_port"}
      BY DEF Kept
    <2> QED BY <2>1, <2>2, <1>3 DEF TlsOf
  <1>5. /\ p["enabled_ip_versions"] = o["enabled_ip_versions"]
        /\ p["default_port_changed"] = o["default_port_changed"]
        /\ p["packets_resend_delay"] = o["packets_resend_delay"]
    BY DEF Fields, TlsOf
  <1>6. PortAsAsked(p, ds)
    <2>1. SUFFICES p["default_port"] = LastOf(cs, "default_port", 8883)
      BY <1>3 DEF PortAsAsked, TlsOf
    <2>2. CASE o["connection_cfg"] # "none"
      BY <2>2 DEF Made, PortAsAsked, TlsOf
    <2>3. CASE o["connection_cfg"] = "none" /\ SetBy(cs, "default_port") = {}
      <3>1. o["default_port_changed"] = FALSE
        BY Zenon, <2>3 DEF Made, PortFlagged
      <3>2. p["default_port"] = 8883
        BY <2>3, <3>1 DEF TlsOf
      <3> QED BY <2>3, <3>2 DEF LastOf
    <2>4. CASE o["connection_cfg"] = "none" /\ SetBy(cs, "default_port") # {}
      <3>1. o["default_port_changed"] = TRUE
        BY Zenon, <2>4 DEF Made, PortFlagged
      <3>2. p["default_port"] = o["default_port"]
        BY <2>4, <3>1 DEF TlsOf
      <3>3. o["default_port"] = LastOf(cs, "default_port", 1883)
        BY <2>4 DEF Made, PortAsAsked
      <3> QED BY <2>4, <3>2, <3>3 DEF LastOf
    <2> QED BY <2>2, <2>3, <2>4
  <1>7. PortFlagged(p, ds)
    <2>1. PortFlagged(o, cs) /\ SetBy(ds, "default_port") = SetBy(cs, "default_port")
      BY Zenon, <1>3 DEF Made
    <2> QED BY Zenon, <2>1, <1>5 DEF PortFlagged
  <1>8. VersionsLeft(p, ds)
    <2>1. SetBy(ds, "disabled") = SetBy(cs, "disabled") /\ \A i \in SetBy(ds, "disabled") : ds[i] = cs[i]
      <3>1. c \in Calls /\ "disabled" \notin DOMAIN c
        BY Zenon, <1>1
      <3>2. SetBy(ds, "disabled") = SetBy(cs, "disabled")
        BY Zenon, <3>1, OldCalls
      <3>3. \A j \in SetBy(ds, "disabled") : ds[j] = cs[j]
        BY <3>1, OldCalls
      <3> QED BY <3>2, <3>3
    <2>2. VersionsLeft(o, cs)
      BY Zenon DEF Made
    <2>3. \A i \in SetBy(cs, "disabled") : ds[i].disabled \notin o["enabled_ip_versions"]
      BY Zenon, <2>1, <2>2 DEF VersionsLeft
    <2> QED BY <2>1, <2>3, <1>5 DEF VersionsLeft
  <1>9. Made(p, ds)
    BY <1>4, <1>5, <1>6, <1>7, <1>8 DEF Made, TlsOf
  <1> QED BY <1>2, <1>9

-----------------------------------------------------------------------------
(* Client::connect up to the task.                                         *)

\* The calls of the builder keep the options as asked.
LEMMA BuildStep ==
    ASSUME OptionsInv,
           \/ \E c \in Setters : Set(c)
           \/ \E v \in {4, 6} : disable_ip(v)
           \/ enable_tls \/ enable_tls_client_auth
    PROVE  OptionsInv'
  <1>1. call = "build" /\ call' = "build"
    BY DEF Set, disable_ip, enable_tls, enable_tls_client_auth, Called
  <1>2. calls \in Seq(Calls) /\ Made(opts, calls)
    BY Zenon, <1>1 DEF OptionsInv
  <1>3. SUFFICES calls' \in Seq(Calls) /\ Made(opts', calls')
    BY <1>1, <1>3 DEF OptionsInv
  <1>4. DOMAIN opts = Fields
    BY Zenon, <1>2 DEF Made
  <1>5. CASE \E c \in Setters : Set(c)
    <2>1. PICK c \in Setters : Set(c)
      BY Zenon, <1>5
    <2>2. /\ calls' = More(calls, c)
          /\ opts' = [f \in DOMAIN opts |-> IF f \in DOMAIN c THEN c[f] ELSE opts[f]]
      BY <2>1 DEF Set, Called, More
    <2> QED BY <2>2, <1>2, MadeSet
  <1>6. CASE \E v \in {4, 6} : disable_ip(v)
    <2>1. PICK v \in {4, 6} : disable_ip(v)
      BY Zenon, <1>6
    <2> DEFINE c == [disabled |-> v]
    <2>2. c \in Calls /\ DOMAIN c = {"disabled"} /\ c.disabled = v
      BY DEF Calls
    <2>3. calls' = More(calls, c) /\ opts' = [opts EXCEPT !.enabled_ip_versions = @ \ {v}]
      BY Zenon, <2>1 DEF disable_ip, Called, More
    <2> HIDE DEF c
    <2> QED BY Zenon, <2>2, <2>3, <1>2, MadeDisabled
  <1>7. CASE enable_tls
    <2> DEFINE c == [connection_cfg |-> "tls"]
    <2>1. c \in Calls /\ DOMAIN c = {"connection_cfg"} /\ c["connection_cfg"] = "tls"
      BY DEF Calls
    <2>2. calls' = More(calls, c) /\ opts["connection_cfg"] = "none"
      BY <1>7 DEF enable_tls, Called, More
    <2>3. /\ DOMAIN opts' = Fields /\ opts'["connection_cfg"] = "tls"
          /\ \A f \in Fields \ {"connection_cfg", "default_port"} : opts'[f] = opts[f]
          /\ opts["default_port_changed"] = TRUE => opts'["default_port"] = opts["default_port"]
          /\ opts["default_port_changed"] = FALSE => opts'["default_port"] = 8883
      <3> DEFINE port == IF opts.default_port_changed THEN opts.default_port ELSE 8883
      <3>1. opts' = [opts EXCEPT !.connection_cfg = "tls", !.default_port = port]
        BY <1>7 DEF enable_tls
      <3>2. /\ opts["default_port_changed"] = TRUE => port = opts["default_port"]
            /\ opts["default_port_changed"] = FALSE => port = 8883
        OBVIOUS
      <3>3. "connection_cfg" \in Fields /\ "default_port" \in Fields
        BY DEF Fields
      <3> HIDE DEF port
      <3>4. /\ DOMAIN opts' = Fields /\ opts'["connection_cfg"] = "tls" /\ opts'["default_port"] = port
            /\ \A f \in Fields \ {"connection_cfg", "default_port"} : opts'[f] = opts[f]
        BY Zenon, <1>4, <3>1, <3>3
      <3> QED BY <3>2, <3>4
    <2> HIDE DEF c
    <2>4. TlsOf(opts, opts', c["connection_cfg"])
      BY <2>1, <2>2, <2>3 DEF TlsOf
    <2> QED BY Zenon, <2>1, <2>2, <2>4, <1>2, MadeTls
  <1>8. CASE enable_tls_client_auth
    <2> DEFINE c == [connection_cfg |-> "tls_auth"]
    <2>1. c \in Calls /\ DOMAIN c = {"connection_cfg"} /\ c["connection_cfg"] = "tls_auth"
      BY DEF Calls
    <2>2. calls' = More(calls, c) /\ opts["connection_cfg"] # "none"
      BY <1>8 DEF enable_tls_client_auth, Called, More
    <2>3. /\ DOMAIN opts' = Fields /\ opts'["connection_cfg"] = "tls_auth"
          /\ \A f \in Fields \ {"connection_cfg", "default_port"} : opts'[f] = opts[f]
          /\ opts'["default_port"] = opts["default_port"]
      BY <1>4, <1>8 DEF enable_tls_client_auth, Fields
    <2> HIDE DEF c
    <2>4. TlsOf(opts, opts', c["connection_cfg"])
      BY <2>1, <2>2, <2>3 DEF TlsOf
    <2> QED BY Zenon, <2>1, <2>2, <2>4, <1>2, MadeTls
  <1> QED BY <1>5, <1>6, <1>7, <1>8

\* The first address of a version that is enabled.
LEMMA AddressEnabled ==
    ASSUME NEW addrs \in AddrLists, address(addrs) # None
    PROVE  address(addrs) \in opts["enabled_ip_versions"]
  <1> DEFINE S == {i \in DOMAIN addrs : addrs[i] \in opts.enabled_ip_versions}
  <1>1. addrs \in Seq({4, 6})
    BY ConnectionAssumption
  <1>2. S \subseteq Nat
    BY <1>1
  <1>3. S # {} /\ address(addrs) = addrs[Min(S)]
    BY DEF address
  <1> HIDE DEF S
  <1>4. Min(S) \in S
    BY Zenon, <1>2, <1>3, LeastIn
  <1> QED BY <1>3, <1>4 DEF S

\* The port is the last part of the host with its port.
LEMMA PortOfHost ==
    ASSUME NEW h \in Hosts
    PROVE  LastPart(HostAndPort(h)) = IF Len(h) > 1 THEN LastPart(h) ELSE opts["default_port"]
  <1>1. Len(h) \in Nat \ {0} /\ h = [i \in 1..Len(h) |-> h[i]]
    BY ConnectionAssumption
  <1> DEFINE S == {h[i] : i \in 1..Len(h)} \cup {opts.default_port}
  <1>2. h \in Seq(S)
    <2>1. \A i \in 1..Len(h) : h[i] \in S
      OBVIOUS
    <2> HIDE DEF S
    <2> QED BY <1>1, <2>1
  <1>3. opts.default_port \in S
    OBVIOUS
  <1> HIDE DEF S
  <1>4. CASE Len(h) > 1
    BY <1>4 DEF HostAndPort
  <1>5. CASE ~(Len(h) > 1)
    <2>1. HostAndPort(h) = Append(h, opts.default_port)
      BY <1>5 DEF HostAndPort
    <2>2. LastPart(Append(h, opts.default_port)) = opts.default_port
      BY <1>2, <1>3 DEF LastPart
    <2> QED BY <1>5, <2>1, <2>2
  <1> QED BY <1>4, <1>5

\* Asked is about the calls that there are.
LEMMA AskedIs == \A f, d : Asked(f, d) = LastOf(calls, f, d)
  BY DEF Asked, LastOf, SetBy

\* The greater of one and a number.
LEMMA AtLeastOne == ASSUME NEW n \in Nat PROVE Max({1, n}) = IF n < 1 THEN 1 ELSE n
  <1> DEFINE m == IF n < 1 THEN 1 ELSE n
  <1>1. m \in {1, n} /\ \A y \in {1, n} : m >= y
    OBVIOUS
  <1>2. \A x \in {1, n} : (\A y \in {1, n} : x >= y) => x = m
    OBVIOUS
  <1> HIDE DEF m
  <1>3. Max({1, n}) = m
    BY Zenon, <1>1, <1>2 DEF Max
  <1> QED BY <1>3 DEF m

\* What the options say of a connection is what was asked.
LEMMA OptionsAsAsked ==
    ASSUME Made(opts, calls)
    PROVE  /\ opts["connection_cfg"] = Asked("connection_cfg", "none") /\ opts["no_delay"] = AskedFlag("no_delay")
           /\ opts["clean_session"] = AskedFlag("clean_session") /\ opts["keep_alive"] = Asked("keep_alive", 30)
           /\ opts["last_will"] = Asked("last_will", None) /\ opts["username"] = Asked("username", None)
           /\ opts["password"] = Asked("password", None)
           /\ opts["packets_resend_delay"] = Asked("packets_resend_delay", 1) /\ opts["packets_resend_delay"] \in Nat
           /\ opts["dns_timeout"] = Asked("dns_timeout", 3)
           /\ opts["tcp_connect_timeout"] = Asked("tcp_connect_timeout", 10)
           /\ opts["mqtt_connect_timeout"] = Asked("mqtt_connect_timeout", 3)
           /\ opts["default_port"] = Asked("default_port", IF opts["connection_cfg"] = "none" THEN 1883 ELSE 8883)
  <1>1. \A f \in Kept : opts[f] = Asked(f, new[f])
    BY AskedIs DEF Made, KeptAsAsked
  <1>2. {"connection_cfg", "no_delay", "clean_session", "keep_alive", "last_will", "username", "password",
         "packets_resend_delay", "dns_timeout", "tcp_connect_timeout", "mqtt_connect_timeout"} \subseteq Kept
    BY DEF Kept, Fields
  <1>3. /\ new["connection_cfg"] = "none" /\ new["no_delay"] = FALSE /\ new["clean_session"] = FALSE
        /\ new["keep_alive"] = 30 /\ new["last_will"] = None /\ new["username"] = None /\ new["password"] = None
        /\ new["packets_resend_delay"] = 1 /\ new["dns_timeout"] = 3 /\ new["tcp_connect_timeout"] = 10
        /\ new["mqtt_connect_timeout"] = 3
    BY Zenon DEF new
  <1>4. opts["default_port"] = Asked("default_port", IF opts["connection_cfg"] = "none" THEN 1883 ELSE 8883)
    BY AskedIs DEF Made, PortAsAsked
  <1>5. opts["packets_resend_delay"] \in Nat
    BY DEF Made
  <1>6. opts["no_delay"] = AskedFlag("no_delay")
    <2>1. opts["no_delay"] = Asked("no_delay", new["no_delay"])
      BY <1>1, <1>2
    <2> QED BY <2>1, <1>3, Zenon DEF AskedFlag
  <1>7. opts["clean_session"] = AskedFlag("clean_session")
    <2>1. opts["clean_session"] = Asked("clean_session", new["clean_session"])
      BY Zenon, <1>1, <1>2
    <2> QED BY <2>1, <1>3, Zenon DEF AskedFlag
  <1>8. /\ opts["connection_cfg"] = Asked("connection_cfg", "none") /\ opts["keep_alive"] = Asked("keep_alive", 30)
        /\ opts["last_will"] = Asked("last_will", None) /\ opts["username"] = Asked("username", None)
        /\ opts["password"] = Asked("password", None)
        /\ opts["packets_resend_delay"] = Asked("packets_resend_delay", 1)
        /\ opts["dns_timeout"] = Asked("dns_timeout", 3)
        /\ opts["tcp_connect_timeout"] = Asked("tcp_connect_timeout", 10)
        /\ opts["mqtt_connect_timeout"] = Asked("mqtt_connect_timeout", 3)
    BY <1>1, <1>2, <1>3
  <1> QED BY <1>4, <1>5, <1>6, <1>7, <1>8

\* A connection that is ready is made as asked.
LEMMA ReadyAsAsked ==
    ASSUME OptionsInv
    PROVE  ConnectsAsAsked
  <1> SUFFICES ASSUME call = "ready" PROVE AddressAsAsked /\ ChannelAsAsked /\ PacketAsAsked /\ TimeoutsAsAsked
    BY Zenon DEF ConnectsAsAsked
  <1>0. Made(opts, calls) /\ Chosen(conn.conn) /\ conn = Ready(conn.conn)
    BY Zenon DEF OptionsInv
  <1>1. /\ conn.nodelay = opts.no_delay /\ conn.tls = opts.connection_cfg
        /\ conn.ping_interval = opts.keep_alive
        /\ conn.packet_resend_delay = IF opts.packets_resend_delay < 1 THEN 1 ELSE opts.packets_resend_delay
    BY <1>0 DEF Ready
  <1>2. conn.connect_packet = [clean_session |-> opts.clean_session, keep_alive |-> opts.keep_alive,
                               will |-> opts.last_will, username |-> opts.username, password |-> opts.password]
    BY <1>0 DEF Ready
  <1>3. AddressAsAsked
    <2>1. conn.conn.port = IF Len(conn.conn.host) > 1 THEN LastPart(conn.conn.host)
                           ELSE Asked("default_port", IF conn.tls = "none" THEN 1883 ELSE 8883)
      BY <1>0, <1>1, OptionsAsAsked DEF Chosen
    <2>2. ASSUME NEW i \in DOMAIN calls, "disabled" \in DOMAIN calls[i]
          PROVE  calls[i].disabled # conn.conn.version
      <3>1. i \in SetBy(calls, "disabled")
        BY Zenon, <2>2 DEF SetBy
      <3>2. calls[i].disabled \notin opts["enabled_ip_versions"]
        BY <1>0, <3>1 DEF Made, VersionsLeft
      <3> QED BY <3>2, <1>0 DEF Chosen
    <2> QED BY <2>1, <2>2 DEF AddressAsAsked
  <1>4. ChannelAsAsked
    BY <1>0, <1>1, OptionsAsAsked, AtLeastOne DEF ChannelAsAsked
  <1>5. PacketAsAsked
    BY <1>0, <1>2, OptionsAsAsked DEF PacketAsAsked
  <1>6. TimeoutsAsAsked
    BY <1>0, OptionsAsAsked DEF TimeoutsAsAsked
  <1> QED BY <1>3, <1>4, <1>5, <1>6

\* The steps of Client::connect up to the task, and all that come after it.
LEMMA OptionsStep == ASSUME OptionsInv, [ConnectionNext]_all_vars PROVE OptionsInv'
  <1>1. CASE call' \notin {"build", "lookup", "tcp", "ready"}
    BY Zenon, <1>1 DEF OptionsInv
  <1>2. CASE UNCHANGED mqtt_vars
    BY <1>2 DEF OptionsInv, Chosen, HostAndPort, Ready, mqtt_vars
  <1>3. CASE \/ \E c \in Setters : Set(c)
             \/ \E v \in {4, 6} : disable_ip(v)
             \/ enable_tls \/ enable_tls_client_auth
    BY Zenon, <1>3, BuildStep
  <1>4. CASE \E h \in Hosts : Connect(h)
    <2>1. SUFFICES ASSUME call' = "lookup" PROVE OptionsInv'
      BY <1>1, <1>4 DEF Connect, Failed
    <2>2. PICK h \in Hosts : Connect(h)
      BY Zenon, <1>4
    <2>3. /\ call = "build" /\ conn' = [host |-> h, host_and_port |-> HostAndPort(h)]
          /\ UNCHANGED <<opts, calls>>
      BY Zenon, <2>1, <2>2 DEF Connect, Failed
    <2>4. calls' \in Seq(Calls) /\ Made(opts', calls')
      BY <2>3 DEF OptionsInv
    <2>5. (conn.host \in Hosts /\ conn.host_and_port = HostAndPort(conn.host))'
      BY Zenon, <2>3 DEF HostAndPort
    <2> QED BY Zenon, <2>1, <2>4, <2>5 DEF OptionsInv
  <1>5. CASE Lookup
    <2>1. SUFFICES ASSUME call' = "tcp" PROVE OptionsInv'
      BY Zenon, <1>1, <1>5 DEF Lookup, Failed
    <2>2. PICK addrs \in AddrLists :
              /\ address(addrs) # None
              /\ conn' = [host |-> conn.host, port |-> LastPart(conn.host_and_port), version |-> address(addrs)]
      BY Zenon, <1>5, <2>1 DEF Lookup, Failed
    <2>3. call = "lookup" /\ UNCHANGED <<opts, calls>>
      BY Zenon, <1>5, <2>1 DEF Lookup, Failed
    <2>4. calls' \in Seq(Calls) /\ Made(opts', calls')
      BY Zenon, <2>3 DEF OptionsInv
    <2>5. conn.host \in Hosts /\ conn.host_and_port = HostAndPort(conn.host)
      BY Zenon, <2>3 DEF OptionsInv
    <2>6. LastPart(conn.host_and_port) = IF Len(conn.host) > 1 THEN LastPart(conn.host) ELSE opts["default_port"]
      BY Zenon, <2>5, PortOfHost
    <2>7. address(addrs) \in opts["enabled_ip_versions"]
      BY Zenon, <2>2, AddressEnabled
    <2>8. Chosen(conn)'
      BY Zenon, <2>2, <2>3, <2>6, <2>7 DEF Chosen
    <2> QED BY Zenon, <2>1, <2>4, <2>8 DEF OptionsInv
  <1>6. CASE TcpConnect
    <2>1. SUFFICES ASSUME call' = "ready" PROVE OptionsInv'
      BY Zenon, <1>1, <1>6 DEF TcpConnect, Failed
    <2>2. /\ call = "tcp" /\ UNCHANGED <<opts, calls>>
          /\ conn' = Ready(conn)
      BY Zenon, <1>6, <2>1 DEF TcpConnect, Failed, Ready
    <2>3. calls' \in Seq(Calls) /\ Made(opts', calls')
      BY Zenon, <2>2 DEF OptionsInv
    <2>4. Chosen(conn)
      BY Zenon, <2>2 DEF OptionsInv
    <2>5. conn'.conn = conn
      BY Zenon, <2>2 DEF Ready
    <2>6. (Chosen(conn.conn) /\ conn = Ready(conn.conn))'
      BY Zenon, <2>2, <2>4, <2>5 DEF Chosen, Ready
    <2> QED BY Zenon, <2>1, <2>3, <2>6 DEF OptionsInv
  <1>7. CASE Spawn \/ enable_tls_fails \/ ConnectResult \/ ConnectTimeout \/ Join
    BY <1>1, <1>7 DEF Spawn, enable_tls_fails, ConnectResult, ConnectTimeout, Join
  <1>8. CASE TaskStep
    BY <1>1, <1>8 DEF TaskStep
  <1> QED BY Zenon, <1>2, <1>3, <1>4, <1>5, <1>6, <1>7, <1>8 DEF ConnectionNext, ConnectStep, all_vars, mqtt_vars

\* Whatever the calls of the builder and their order, the host and the addresses
\* that it resolves to: Client::connect connects as it was asked to.
THEOREM ConnectionAsAsked == ConnectionSpec => []ConnectsAsAsked
  <1>1. ConnectionInit => OptionsInv
    BY MadeNew DEF ConnectionInit, OptionsInv
  <1>2. OptionsInv /\ [ConnectionNext]_all_vars => OptionsInv'
    BY OptionsStep
  <1>3. OptionsInv => ConnectsAsAsked
    BY ReadyAsAsked
  <1> QED BY <1>1, <1>2, <1>3, PTL DEF ConnectionSpec

=============================================================================
