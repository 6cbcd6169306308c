---------------------------- MODULE StreamProofs ----------------------------
(***************************************************************************)
(* Machine-checked proofs about the bytes that Transceiver writes: what is *)
(* on the wire, and that the transmit path implements PacketStream.  They  *)
(* rest on the invariants of TransceiverProofs and on its account of what  *)
(* a step can do to the transmit path.                                     *)
(***************************************************************************)
EXTENDS TransceiverProofs, SequenceTheorems, WellFoundedInduction

-----------------------------------------------------------------------------
(* Induction over the natural numbers, stated for a set of numbers, and    *)
(* queues with something in front.                                         *)

\* A set of natural numbers that is not empty has a least element.
LEMMA LeastNatural ==
    ASSUME NEW T, T \subseteq Nat, T # {}
    PROVE  \E m \in T : \A k \in T : m <= k
  <1> DEFINE R == {ss \in Nat \X Nat : ss[1] < ss[2]}
  <1>1. IsWellFoundedOn(R, Nat)
    BY NatLessThanWellFounded DEF OpToRel
  <1> HIDE DEF R
  <1>2. PICK x \in T : \A y \in T : ~(<<y, x>> \in R)
    BY Zenon, <1>1, WFMin
  <1>3. \A y \in T : ~(y < x)
    BY Zenon, <1>2 DEF R
  <1> QED BY <1>3

\* Induction over the natural numbers.
LEMMA SetInduction ==
    ASSUME NEW S, 0 \in S, \A n \in Nat : n \in S => n + 1 \in S
    PROVE  Nat \subseteq S
  <1> SUFFICES ASSUME Nat \ S # {} PROVE FALSE
    OBVIOUS
  <1>1. PICK m \in Nat \ S : \A k \in Nat \ S : m <= k
    BY Zenon, LeastNatural
  <1>2. m # 0 /\ m - 1 \in Nat /\ (m - 1) + 1 = m
    BY <1>1
  <1>3. m - 1 \in S
    BY <1>1, <1>2
  <1> QED BY <1>1, <1>2, <1>3

\* A queue with something in front.
LEMMA Fronted ==
    ASSUME NEW S, NEW q \in Seq(S), NEW e \in S
    PROVE  /\ <<e>> \o q \in Seq(S) /\ <<e>> \o q # <<>>
           /\ Head(<<e>> \o q) = e /\ Tail(<<e>> \o q) = q
<1> DEFINE s == <<e>>
           t == s \o q
<1>1. s \in Seq(S) /\ Len(s) = 1 /\ s[1] = e /\ Len(q) \in Nat
  OBVIOUS
<1> HIDE DEF s
<1>2. /\ t \in Seq(S) /\ Len(t) = 1 + Len(q)
      /\ \A i \in 1..(1 + Len(q)) : t[i] = IF i <= 1 THEN s[i] ELSE q[i - 1]
  <2>1. /\ t \in Seq(S) /\ Len(t) = Len(s) + Len(q)
        /\ \A i \in 1..(Len(s) + Len(q)) : t[i] = IF i <= Len(s) THEN s[i] ELSE q[i - Len(s)]
    BY <1>1, ConcatProperties, Zenon
  <2> QED BY <1>1, <2>1
<1> HIDE DEF t
<1>3. t[1] = e /\ \A i \in 1..Len(q) : t[i + 1] = q[i]
  BY <1>1, <1>2
<1>4. t # <<>> /\ Head(t) = e /\ Tail(t) \in Seq(S) /\ Len(Tail(t)) = Len(q)
  BY <1>1, <1>2, <1>3
<1>5. \A i \in 1..Len(q) : Tail(t)[i] = q[i]
  BY <1>1, <1>2, <1>3
<1>6. Tail(t) = q
  BY <1>4, <1>5, SeqEqual
<1> QED BY <1>2, <1>4, <1>6 DEF t, s

\* The first element and the others make up a queue.
LEMMA Refront ==
    ASSUME NEW S, NEW q \in Seq(S), q # <<>>
    PROVE  <<Head(q)>> \o Tail(q) = q
<1>1. Len(q) \in Nat \ {0} /\ Head(q) = q[1]
  OBVIOUS
<1>2. SubSeq(q, 1, Len(q)) = <<q[1]>> \o SubSeq(q, 1 + 1, Len(q))
  BY <1>1, SubSeqRecursiveFirst
<1>3. SubSeq(q, 1, Len(q)) = q /\ Tail(q) = SubSeq(q, 2, Len(q)) /\ 1 + 1 = 2
  BY SubSeqFull, TailIsSubSeq
<1> QED BY <1>1, <1>2, <1>3

\* Appending behind.
LEMMA Rear ==
    ASSUME NEW S, NEW q \in Seq(S), NEW e \in S, NEW f \in S
    PROVE  <<e>> \o Append(q, f) = Append(<<e>> \o q, f)
<1>1. <<f>> \in Seq(S) /\ <<e>> \in Seq(S)
  OBVIOUS
<1>2. <<e>> \o q \in Seq(S)
  BY Fronted
<1>3. Append(q, f) = q \o <<f>> /\ Append(<<e>> \o q, f) = (<<e>> \o q) \o <<f>>
  BY <1>2, AppendIsConcat
<1>4. (<<e>> \o q) \o <<f>> = <<e>> \o (q \o <<f>>)
  BY <1>1, ConcatAssociative
<1> QED BY <1>3, <1>4

-----------------------------------------------------------------------------
(* The encoding of a sequence of packets.                                  *)

\* f is the function that Encoding(pkts, n) takes its value from.
Eqn(pkts, n, f) ==
    f = [i \in 0..n |-> IF i = 0 THEN <<>> ELSE f[i - 1] \o Whole(pkts[i])]

\* By induction on n there is such a function.
LEMMA EqnExists == ASSUME NEW pkts, NEW n \in Nat PROVE \E f : Eqn(pkts, n, f)
<1> DEFINE S == {k \in Nat : \E f : Eqn(pkts, k, f)}
<1>1. 0 \in S
  <2> DEFINE f == [i \in 0..0 |-> <<>>]
  <2>1. Eqn(pkts, 0, f)
    BY DEF Eqn
  <2> QED BY <2>1
<1>2. ASSUME NEW k \in Nat, k \in S PROVE k + 1 \in S
  <2>1. PICK f : Eqn(pkts, k, f)
    BY <1>2
  <2> DEFINE g == [i \in 0..(k + 1) |-> IF i <= k THEN f[i] ELSE f[k] \o Whole(pkts[k + 1])]
  <2>2. \A i \in 0..k : f[i] = IF i = 0 THEN <<>> ELSE f[i - 1] \o Whole(pkts[i])
    BY <2>1 DEF Eqn
  <2>3. ASSUME NEW i \in 0..(k + 1)
        PROVE  g[i] = IF i = 0 THEN <<>> ELSE g[i - 1] \o Whole(pkts[i])
    <3>1. CASE i <= k
      <4>1. i \in 0..k /\ (i # 0 => i - 1 \in 0..k /\ i - 1 \in 0..(k + 1) /\ i - 1 <= k)
        BY <3>1
      <4>2. g[i] = f[i] /\ (i # 0 => g[i - 1] = f[i - 1])
        BY <4>1, <3>1
      <4> QED BY <4>1, <4>2, <2>2
    <3>2. CASE i = k + 1
      <4>1. i # 0 /\ i - 1 = k /\ k \in 0..(k + 1) /\ k + 1 \in 0..(k + 1) /\ ~(k + 1 <= k)
        BY <3>2
      <4>2. g[k] = f[k]
        BY <4>1
      <4>3. g[k + 1] = f[k] \o Whole(pkts[k + 1])
        BY Zenon, <4>1
      <4> HIDE DEF g
      <4> QED BY Zenon, <4>1, <4>2, <4>3, <3>2
    <3> QED BY <3>1, <3>2
  <2>4. Eqn(pkts, k + 1, g)
    BY Zenon, <2>3 DEF Eqn
  <2> QED BY <2>4
<1> HIDE DEF S
<1>3. Nat \subseteq S
  BY <1>1, <1>2, SetInduction
<1> QED BY <1>3 DEF S

\* By induction on the number of packets there is no other, and what it says of
\* the first n packets is the same for every continuation of them.
LEMMA EqnUnique ==
    ASSUME NEW pkts, NEW more, NEW n \in Nat, NEW m \in Nat, NEW f, NEW g,
           Eqn(pkts, n, f), Eqn(more, m, g), n <= m,
           \A i \in 1..n : more[i] = pkts[i]
    PROVE  \A i \in 0..n : g[i] = f[i]
<1> DEFINE S == {k \in Nat : k <= n => g[k] = f[k]}
<1>1. 0 \in S
  BY DEF Eqn
<1>2. ASSUME NEW k \in Nat, k \in S PROVE k + 1 \in S
  <2> SUFFICES ASSUME k + 1 <= n PROVE g[k + 1] = f[k + 1]
    OBVIOUS
  <2>1. k + 1 \in 0..n /\ k + 1 \in 0..m /\ k + 1 # 0 /\ (k + 1) - 1 = k /\ k + 1 \in 1..n
    OBVIOUS
  <2>2. f[k + 1] = f[k] \o Whole(pkts[k + 1])
    BY Zenon, <2>1 DEF Eqn
  <2>3. g[k + 1] = g[k] \o Whole(more[k + 1])
    BY <2>1 DEF Eqn
  <2>4. g[k] = f[k] /\ more[k + 1] = pkts[k + 1]
    BY <1>2, <2>1
  <2> QED BY <2>2, <2>3, <2>4
<1> HIDE DEF S
<1>3. Nat \subseteq S
  BY <1>1, <1>2, SetInduction
<1> QED BY <1>3 DEF S

\* The encoding satisfies its recursive definition: its value, no packet, one
\* packet more; and it depends on the packets up to n only.
LEMMA EncodingIs ==
    ASSUME NEW pkts, NEW n \in Nat, NEW f, Eqn(pkts, n, f)
    PROVE  Encoding(pkts, n) = f[n]
<1> DEFINE g == CHOOSE h : Eqn(pkts, n, h)
<1>1. Eqn(pkts, n, g)
  OBVIOUS
<1>2. Encoding(pkts, n) = g[n]
  BY DEF Encoding, Eqn
<1> HIDE DEF g
<1>3. \A i \in 0..n : g[i] = f[i]
  BY <1>1, EqnUnique
<1> QED BY <1>2, <1>3

LEMMA EncodingZero == ASSUME NEW pkts PROVE Encoding(pkts, 0) = <<>>
<1>1. PICK f : Eqn(pkts, 0, f)
  BY EqnExists
<1>2. f[0] = <<>>
  BY <1>1 DEF Eqn
<1> QED BY <1>1, <1>2, EncodingIs

LEMMA EncodingSame ==
    ASSUME NEW pkts, NEW more, NEW n \in Nat, \A i \in 1..n : more[i] = pkts[i]
    PROVE  Encoding(more, n) = Encoding(pkts, n)
<1>1. PICK f : Eqn(pkts, n, f)
  BY EqnExists
<1>2. PICK g : Eqn(more, n, g)
  BY EqnExists
<1>3. g[n] = f[n]
  BY <1>1, <1>2, EqnUnique
<1> QED BY <1>1, <1>2, <1>3, EncodingIs

LEMMA EncodingNext ==
    ASSUME NEW pkts, NEW n \in Nat
    PROVE  Encoding(pkts, n + 1) = Encoding(pkts, n) \o Whole(pkts[n + 1])
<1>1. PICK f : Eqn(pkts, n, f)
  BY EqnExists
<1>2. PICK g : Eqn(pkts, n + 1, g)
  BY EqnExists
<1>3. g[n] = f[n]
  BY <1>1, <1>2, EqnUnique
<1>4. n + 1 \in 0..(n + 1) /\ n + 1 # 0 /\ (n + 1) - 1 = n
  OBVIOUS
<1>5. g[n + 1] = g[n] \o Whole(pkts[n + 1])
  BY <1>2, <1>4 DEF Eqn
<1>6. Encoding(pkts, n) = f[n] /\ Encoding(pkts, n + 1) = g[n + 1]
  BY <1>1, <1>2, EncodingIs
<1> QED BY Zenon, <1>3, <1>5, <1>6

\* The bytes of a packet.
LEMMA WholeType ==
    ASSUME NEW e \in InternalPacket
    PROVE  Whole(e) \in Seq(Bytes) /\ Len(Whole(e)) = Size[e.pkt]
<1>1. e.pkt \in Packets /\ e.set_dup \in BOOLEAN
  BY DEF InternalPacket
<1>2. Size[e.pkt] \in Nat
  BY <1>1, SizeAssumption
<1>3. Whole(e) \in Seq(Bytes)
  BY <1>1, <1>2, SliceType DEF Whole
<1>4. Len(Whole(e)) = Size[e.pkt]
  BY <1>2 DEF Whole, Slice
<1> QED BY <1>3, <1>4

\* The encoding of packets is a sequence of bytes.
LEMMA EncodingType ==
    ASSUME NEW pkts \in Seq(InternalPacket), NEW n \in 0..Len(pkts)
    PROVE  Encoding(pkts, n) \in Seq(Bytes)
<1> DEFINE S == {k \in Nat : k <= Len(pkts) => Encoding(pkts, k) \in Seq(Bytes)}
<1>1. 0 \in S
  <2>1. Encoding(pkts, 0) = <<>>
    BY EncodingZero
  <2>2. <<>> \in Seq(Bytes)
    OBVIOUS
  <2> QED BY Zenon, <2>1, <2>2
<1>2. ASSUME NEW k \in Nat, k \in S PROVE k + 1 \in S
  <2> SUFFICES ASSUME k + 1 <= Len(pkts) PROVE Encoding(pkts, k + 1) \in Seq(Bytes)
    OBVIOUS
  <2>1. pkts[k + 1] \in InternalPacket /\ k <= Len(pkts)
    OBVIOUS
  <2>2. Whole(pkts[k + 1]) \in Seq(Bytes)
    BY <2>1, WholeType
  <2>3. Encoding(pkts, k) \in Seq(Bytes)
    BY <1>2, <2>1
  <2>4. Encoding(pkts, k) \o Whole(pkts[k + 1]) \in Seq(Bytes)
    BY <2>2, <2>3
  <2>5. Encoding(pkts, k + 1) = Encoding(pkts, k) \o Whole(pkts[k + 1])
    BY EncodingNext
  <2> QED BY Zenon, <2>4, <2>5
<1> HIDE DEF S
<1>3. Nat \subseteq S
  BY <1>1, <1>2, SetInduction
<1> QED BY <1>3 DEF S

\* s is where t begins.
Begins(s, t) == Len(s) <= Len(t) /\ \A i \in 1..Len(s) : t[i] = s[i]

\* The same in the words of SubSeq.
LEMMA BeginsSubSeq ==
    ASSUME NEW s \in Seq(Bytes), NEW t \in Seq(Bytes)
    PROVE  Begins(s, t) <=> (Len(s) <= Len(t) /\ s = SubSeq(t, 1, Len(s)))
<1>1. ASSUME Len(s) <= Len(t)
      PROVE  /\ SubSeq(t, 1, Len(s)) \in Seq(Bytes) /\ Len(SubSeq(t, 1, Len(s))) = Len(s)
             /\ \A i \in 1..Len(s) : SubSeq(t, 1, Len(s))[i] = t[i]
  BY <1>1
<1>2. ASSUME Len(s) <= Len(t), \A i \in 1..Len(s) : t[i] = s[i]
      PROVE  s = SubSeq(t, 1, Len(s))
  BY <1>1, <1>2
<1> QED BY <1>1, <1>2 DEF Begins

\* What is written behind s leaves s where it is.
LEMMA BeginsConcat ==
    ASSUME NEW s \in Seq(Bytes), NEW t \in Seq(Bytes)
    PROVE  Begins(s, s \o t)
  BY DEF Begins

\* The beginning of a beginning.
LEMMA BeginsTransitive ==
    ASSUME NEW s \in Seq(Bytes), NEW t \in Seq(Bytes), NEW u \in Seq(Bytes),
           Begins(s, t), Begins(t, u)
    PROVE  Begins(s, u)
  BY DEF Begins

\* The bytes of the first packets are the beginning of those of all packets.
LEMMA EncodingBegins ==
    ASSUME NEW pkts \in Seq(InternalPacket), NEW m \in Nat, NEW n \in 0..Len(pkts), m <= n
    PROVE  Begins(Encoding(pkts, m), Encoding(pkts, n))
<1> DEFINE S == {k \in Nat : m + k <= Len(pkts) => Begins(Encoding(pkts, m), Encoding(pkts, m + k))}
<1>1. 0 \in S
  BY DEF Begins
<1>2. ASSUME NEW k \in Nat, k \in S PROVE k + 1 \in S
  <2> SUFFICES ASSUME m + (k + 1) <= Len(pkts)
               PROVE  Begins(Encoding(pkts, m), Encoding(pkts, m + (k + 1)))
    OBVIOUS
  <2>1. /\ m + k \in 0..Len(pkts) /\ (m + k) + 1 = m + (k + 1) /\ m \in 0..Len(pkts)
        /\ pkts[(m + k) + 1] \in InternalPacket /\ m + k \in Nat
    OBVIOUS
  <2>2. /\ Encoding(pkts, m) \in Seq(Bytes) /\ Encoding(pkts, m + k) \in Seq(Bytes)
        /\ Encoding(pkts, (m + k) + 1) \in Seq(Bytes)
    BY <2>1, EncodingType
  <2>3. Begins(Encoding(pkts, m + k), Encoding(pkts, (m + k) + 1))
    BY Zenon, <2>1, <2>2, EncodingNext, BeginsConcat, WholeType
  <2>4. Begins(Encoding(pkts, m), Encoding(pkts, m + k))
    BY <1>2, <2>1
  <2>5. Begins(Encoding(pkts, m), Encoding(pkts, (m + k) + 1))
    BY <2>2, <2>3, <2>4, BeginsTransitive
  <2> QED BY <2>1, <2>5
<1> HIDE DEF S
<1>3. Nat \subseteq S
  BY <1>1, <1>2, SetInduction
<1>4. n - m \in Nat /\ m + (n - m) = n
  OBVIOUS
<1> QED BY <1>3, <1>4 DEF S

-----------------------------------------------------------------------------
(* The bytes on the wire.                                                  *)

\* How many of the accepted packets have left the queue, and the bytes that
\* have been written of them.
Behind == Len(accepted) - Len(internal_pkt_queue)
Written ==
    IF tx_pkt = None THEN Encoding(accepted, Behind)
    ELSE Encoding(accepted, Behind - 1) \o Slice(tx_pkt.pkt, tx_pkt.set_dup, 0, tx_pkt.pos)

\* The wire holds just these bytes until a packet is lost, the queue is left
\* only when it is empty or a packet is lost, and DISCONNECT is accepted last.
StreamInv ==
    /\ wire = Written \/ Lost
    /\ tx_pkt = None /\ pc # "pop" => internal_pkt_queue = <<>> \/ Lost

\* DISCONNECT is the last packet that was accepted, and no other is one.
DisconnectLast ==
    /\ accepted # <<>>
    /\ accepted[Len(accepted)].pkt = "DISCONNECT"
    /\ \A i \in 1..(Len(accepted) - 1) : accepted[i].pkt # "DISCONNECT"

\* It is accepted when the flush begins, and reported as sent after all bytes.
FlushInv ==
    /\ phase \in Early => \A i \in 1..Len(accepted) : accepted[i].pkt # "DISCONNECT"
    /\ phase = "flush" => DisconnectLast
    /\ disconnect_sent => phase = "done" /\ wire = Encoding(accepted, Len(accepted)) /\ DisconnectLast

\* Two adjacent slices of a packet make one.
LEMMA SliceJoin ==
    ASSUME NEW p \in Packets, NEW dup \in BOOLEAN, NEW from \in Nat, NEW to \in Nat, from <= to
    PROVE  Slice(p, dup, 0, from) \o Slice(p, dup, from, to) = Slice(p, dup, 0, to)
<1> DEFINE a == Slice(p, dup, 0, from)
           b == Slice(p, dup, from, to)
           c == Slice(p, dup, 0, to)
<1>1. /\ a \in Seq(Bytes) /\ b \in Seq(Bytes) /\ c \in Seq(Bytes)
      /\ Len(a) = from /\ Len(b) = to - from /\ Len(c) = to
  <2>1. a \in Seq(Bytes)
    <3>1. 0 <= from
      OBVIOUS
    <3> QED BY <3>1, SliceType
  <2>1b. b \in Seq(Bytes)
    BY SliceType
  <2>1c. c \in Seq(Bytes)
    <3>1. 0 <= to
      OBVIOUS
    <3> QED BY <3>1, SliceType
  <2>2. to - from \in Nat
    OBVIOUS
  <2>3. DOMAIN a = 1..from /\ DOMAIN b = 1..(to - from) /\ DOMAIN c = 1..to
    BY DEF Slice
  <2> HIDE DEF a, b, c
  <2> QED BY <2>1, <2>1b, <2>1c, <2>2, <2>3
<1>2. \A i \in 1..from : a[i] = c[i]
  BY DEF Slice
<1>3. \A i \in 1..(to - from) : b[i] = c[from + i]
  <2> TAKE i \in 1..(to - from)
  <2>1. b[i] = [pkt |-> p, idx |-> from + i, dup |-> dup /\ from + i = 1]
    BY DEF Slice
  <2>2. from + i \in 1..(to - 0) /\ 0 + (from + i) = from + i
    OBVIOUS
  <2>3. c[from + i] = [pkt |-> p, idx |-> 0 + (from + i), dup |-> dup /\ 0 + (from + i) = 1]
    BY <2>2 DEF Slice
  <2> QED BY <2>1, <2>2, <2>3
<1> HIDE DEF a, b, c
<1>4. a \o b \in Seq(Bytes) /\ Len(a \o b) = to
  BY <1>1
<1>5. ASSUME NEW i \in 1..to PROVE (a \o b)[i] = c[i]
  <2>0. i \in Nat /\ i <= to /\ 1 <= i
    OBVIOUS
  <2>1. CASE i <= from
    BY <1>1, <1>2, <2>1
  <2>2. CASE ~(i <= from)
    <3> DEFINE j == i - from
    <3>1. j \in 1..(to - from) /\ from + j = i /\ i \in 1..(Len(a) + Len(b))
      BY <1>1, <2>0, <2>2
    <3>2. (a \o b)[i] = b[i - Len(a)]
      BY <1>1, <2>0, <2>2, <3>1
    <3> HIDE DEF j
    <3>3. b[j] = c[i]
      BY <1>3, <3>1
    <3> QED BY <1>1, <3>2, <3>3 DEF j
  <2> QED BY Zenon, <2>1, <2>2
<1>6. a \o b = c
  BY <1>1, <1>4, <1>5, SeqEqual
<1> QED BY <1>6 DEF a, b, c

\* They do so behind other bytes, too.
LEMMA SliceAfter ==
    ASSUME NEW s \in Seq(Bytes), NEW p \in Packets, NEW dup \in BOOLEAN,
           NEW from \in Nat, NEW to \in Nat, from <= to
    PROVE  (s \o Slice(p, dup, 0, from)) \o Slice(p, dup, from, to) = s \o Slice(p, dup, 0, to)
<1> DEFINE u == Slice(p, dup, 0, from)
           v == Slice(p, dup, from, to)
<1>1. u \in Seq(Bytes)
  <2>1. 0 <= from
    OBVIOUS
  <2> QED BY <2>1, SliceType
<1>2. v \in Seq(Bytes)
  BY SliceType
<1>3. u \o v = Slice(p, dup, 0, to)
  BY SliceJoin
<1> HIDE DEF u, v
<1>4. (s \o u) \o v = s \o (u \o v)
  BY <1>1, <1>2, ConcatAssociative
<1>5. QED
  BY Zenon, <1>3, <1>4 DEF u, v

\* Nothing of a packet is no byte.
LEMMA SliceNone ==
    ASSUME NEW p \in Packets, NEW dup \in BOOLEAN, NEW s \in Seq(Bytes)
    PROVE  s \o Slice(p, dup, 0, 0) = s
<1>1. Slice(p, dup, 0, 0) \in Seq(Bytes) /\ Len(Slice(p, dup, 0, 0)) = 0
  BY SliceType DEF Slice
<1>2. Slice(p, dup, 0, 0) = <<>>
  BY <1>1
<1> QED BY <1>2

\* A write of bytes from+1 .. to of the packet after the k complete ones.
LEMMA TransmitWritten ==
    ASSUME NEW acc \in Seq(InternalPacket), acc = accepted',
           NEW k \in Nat, k + 1 <= Len(acc), k + 1 = Behind',
           NEW from \in Nat, NEW to \in Nat, from <= to, to <= Size[acc[k + 1].pkt],
           wire = Encoding(acc, k) \o Slice(acc[k + 1].pkt, acc[k + 1].set_dup, 0, from),
           Transmit(acc[k + 1].pkt, acc[k + 1].set_dup, from, to)
    PROVE  wire' = Written'
<1> DEFINE e == acc[k + 1]
<1>1. e \in InternalPacket /\ e.pkt \in Packets /\ e.set_dup \in BOOLEAN
  <2>1. e \in InternalPacket
    OBVIOUS
  <2> QED BY <2>1 DEF InternalPacket
<1>2. Encoding(acc, k) \in Seq(Bytes)
  BY EncodingType
<1> DEFINE s == Encoding(acc, k)
<1> HIDE DEF e, s
<1>3. wire' = (s \o Slice(e.pkt, e.set_dup, 0, from)) \o Slice(e.pkt, e.set_dup, from, to)
  BY DEF Transmit, e, s
<1>6. wire' = s \o Slice(e.pkt, e.set_dup, 0, to)
  BY Zenon, <1>1, <1>2, <1>3, SliceAfter DEF s
<1>7. CASE to = Size[e.pkt]
  <2>1. tx_pkt' = None
    BY <1>7 DEF Transmit, e
  <2>2. Encoding(acc, k + 1) = Encoding(acc, k) \o Whole(acc[k + 1])
    BY Zenon, EncodingNext
  <2>3. wire' = Encoding(acc, k + 1)
    BY <1>6, <1>7, <2>2 DEF Whole, e, s
  <2> QED BY <2>1, <2>3 DEF Written
<1>8. CASE to # Size[e.pkt]
  <2>1. tx_pkt' = [pkt |-> e.pkt, pos |-> to, set_dup |-> e.set_dup]
    BY <1>8 DEF Transmit, e
  <2>2. tx_pkt' \in TxPacket
    BY <1>1, <2>1 DEF TxPacket
  <2>3. tx_pkt' # None
    BY <2>2, NoneAssumption
  <2>4. tx_pkt'.pkt = e.pkt /\ tx_pkt'.pos = to /\ tx_pkt'.set_dup = e.set_dup
    BY <2>1
  <2>5. Behind' - 1 = k
    OBVIOUS
  <2> QED BY <1>6, <2>3, <2>4, <2>5 DEF Written, s
<1> QED BY <1>7, <1>8

\* Whatever a step does to the transmit path, the wire holds the bytes written.
LEMMA WrittenStep ==
    ASSUME TypeOK, TypeOK', ControlInv, BootInv, QueueIsAcceptedTail, StreamInv, StreamKinds
    PROVE  wire' = Written' \/ Lost'
<1> DEFINE acc == accepted
<1>0. /\ accepted \in Seq(InternalPacket) /\ accepted' \in Seq(InternalPacket)
      /\ internal_pkt_queue \in Seq(InternalPacket)
  BY Zenon DEF TypeOK
<1>1. acc \in Seq(InternalPacket) /\ acc = accepted /\ Len(acc) \in Nat
  BY <1>0
<1>2. /\ internal_pkt_queue \in Seq(InternalPacket) /\ Len(internal_pkt_queue) \in Nat
      /\ accepted' \in Seq(InternalPacket)
  BY <1>0
<1>3. Behind \in Nat /\ Behind <= Len(acc)
  BY <1>1, <1>2 DEF QueueIsAcceptedTail, Behind
<1> HIDE DEF acc
<1>4. ASSUME tx_pkt # None
      PROVE  /\ tx_pkt \in TxPacket /\ tx_pkt.pos \in Nat /\ tx_pkt.pkt \in Packets
             /\ Behind >= 1 /\ acc[Behind] \in InternalPacket
             /\ acc[Behind].pkt = tx_pkt.pkt /\ acc[Behind].set_dup = tx_pkt.set_dup
  <2>1. tx_pkt \in TxPacket
    BY Zenon, <1>4 DEF TypeOK
  <2>2. /\ Behind >= 1
        /\ acc[Behind] = [pkt |-> tx_pkt.pkt, set_dup |-> tx_pkt.set_dup]
    BY <1>4 DEF QueueIsAcceptedTail, Behind, acc
  <2>3. acc[Behind] \in InternalPacket
    BY <1>1, <1>3, <2>2
  <2> QED BY <2>1, <2>2, <2>3 DEF TxPacket
<1>5. CASE Still
  <2>1. Written' = Written
    BY <1>5 DEF Still, Written, Behind
  <2>2. Lost => Lost'
    BY <1>5 DEF Still, Lost
  <2> QED BY <1>5, <2>1, <2>2 DEF Still, StreamInv
<1>6. CASE Begun
  <2>1. tx_pkt # None /\ tx_pkt.pos = 0 /\ tx_pkt.set_dup = FALSE /\ internal_pkt_queue = <<>>
    BY <1>6 DEF Begun, ControlInv, BootInv
  <2>2. Behind' = Behind
    BY <1>6 DEF Begun, Behind
  <2>3. wire = Written
    BY <2>1 DEF StreamInv, Lost
  <2>4. PICK n \in 0..Size[tx_pkt.pkt] : Transmit(tx_pkt.pkt, FALSE, 0, n)
    BY Zenon, <1>6 DEF Begun, try_send_packet
  <2> DEFINE k == Behind - 1
  <2>5. k \in Nat /\ k + 1 = Behind /\ k + 1 <= Len(acc)
    BY <1>3, <1>4, <2>1
  <2>6. wire = Encoding(acc, k) \o Slice(tx_pkt.pkt, tx_pkt.set_dup, 0, 0)
    BY <2>1, <2>3 DEF Written, acc
  <2>7. acc = accepted'
    BY <1>6 DEF Begun, acc
  <2>8. n \in Nat /\ 0 <= n /\ n <= Size[acc[k + 1].pkt] /\ 0 \in Nat
    BY <1>4, <2>1, <2>5, SizeAssumption
  <2>9. /\ Transmit(acc[k + 1].pkt, acc[k + 1].set_dup, 0, n)
        /\ wire = Encoding(acc, k) \o Slice(acc[k + 1].pkt, acc[k + 1].set_dup, 0, 0)
    BY Zenon, <1>4, <2>1, <2>4, <2>5, <2>6
  <2> HIDE DEF k
  <2> QED BY Zenon, <1>1, <2>2, <2>5, <2>7, <2>8, <2>9, TransmitWritten
<1>7. CASE Continued
  <2>1. tx_pkt # None /\ phase \in {"run", "flush"}
    BY <1>7 DEF Continued, ControlInv
  <2>2. Behind' = Behind
    BY <1>7 DEF Continued, Behind
  <2>3. wire = Written
    BY <2>1 DEF StreamInv, Lost
  <2>4. PICK to \in (tx_pkt.pos + 1)..Size[tx_pkt.pkt] :
          Transmit(tx_pkt.pkt, tx_pkt.set_dup, tx_pkt.pos, to)
    BY <1>7 DEF Continued
  <2> DEFINE k == Behind - 1
             from == tx_pkt.pos
  <2>5. k \in Nat /\ k + 1 = Behind /\ k + 1 <= Len(acc)
    BY <1>3, <1>4, <2>1
  <2>6. wire = Encoding(acc, k) \o Slice(tx_pkt.pkt, tx_pkt.set_dup, 0, from)
    BY <2>1, <2>3 DEF Written, acc
  <2>7. acc = accepted'
    BY <1>7 DEF Continued, acc
  <2>8. from \in Nat /\ to \in Nat /\ from <= to /\ to <= Size[acc[k + 1].pkt]
    BY <1>4, <2>1, <2>5, SizeAssumption
  <2>9. /\ Transmit(acc[k + 1].pkt, acc[k + 1].set_dup, from, to)
        /\ wire = Encoding(acc, k) \o Slice(acc[k + 1].pkt, acc[k + 1].set_dup, 0, from)
    BY Zenon, <1>4, <2>1, <2>4, <2>5, <2>6
  <2> HIDE DEF k, from
  <2> QED BY Zenon, <1>1, <2>2, <2>5, <2>7, <2>8, <2>9, TransmitWritten
<1>8. CASE Popped
  <2> DEFINE k == Behind
             e == Head(internal_pkt_queue)
  <2>1. /\ tx_pkt = None /\ phase \in {"run", "flush"} /\ internal_pkt_queue # <<>>
        /\ internal_pkt_queue' = Tail(internal_pkt_queue)
    BY <1>8 DEF Popped, ControlInv
  <2>2. wire = Encoding(acc, k)
    BY <2>1 DEF StreamInv, Lost, Written, acc
  <2>3. acc = accepted'
    BY <1>8 DEF Popped, acc
  <2>4. Len(internal_pkt_queue) >= 1 /\ Len(internal_pkt_queue') = Len(internal_pkt_queue) - 1
    BY <1>2, <2>1
  <2>5. k \in Nat /\ k + 1 = Behind' /\ k + 1 <= Len(acc)
    BY <1>1, <1>2, <1>3, <2>3, <2>4 DEF Behind
  <2>6. acc[k + 1] = e
    <3>1. \A i \in DOMAIN internal_pkt_queue : internal_pkt_queue[i] = accepted[Behind + i]
      BY Zenon DEF QueueIsAcceptedTail, Behind
    <3>2. 1 \in DOMAIN internal_pkt_queue
      BY <1>2, <2>4
    <3> QED BY <1>2, <2>1, <3>1, <3>2 DEF acc
  <2>7. acc[k + 1] \in InternalPacket
    BY <1>1, <2>5
  <2>8. PICK n \in 0..Size[e.pkt] : Transmit(e.pkt, e.set_dup, 0, n)
    BY <1>8 DEF Popped, try_send_packet
  <2> HIDE DEF k, e
  <2>9. acc[k + 1].pkt \in Packets /\ acc[k + 1].set_dup \in BOOLEAN
    BY <2>7 DEF InternalPacket
  <2>10. n \in Nat /\ 0 <= n /\ n <= Size[acc[k + 1].pkt] /\ 0 \in Nat
    BY <2>6, <2>8, <2>9, SizeAssumption
  <2>11. Encoding(acc, k) \in Seq(Bytes)
    BY <1>1, <2>5, EncodingType
  <2>12. wire = Encoding(acc, k) \o Slice(acc[k + 1].pkt, acc[k + 1].set_dup, 0, 0)
    BY <2>2, <2>9, <2>11, SliceNone
  <2>13. Transmit(acc[k + 1].pkt, acc[k + 1].set_dup, 0, n)
    BY <2>6, <2>8
  <2> QED BY Zenon, <1>1, <2>3, <2>5, <2>10, <2>12, <2>13, TransmitWritten
<1>9. ASSUME NEW p \in Packets, NEW dup \in BOOLEAN, Accepts(p, dup)
      PROVE  wire' = Written' \/ Lost'
  <2> DEFINE e == [pkt |-> p, set_dup |-> dup]
             more == Append(acc, e)
  <2>1. more = accepted' /\ queue_internal_packet(p, dup)
    BY <1>9 DEF Accepts, queue_internal_packet, acc
  <2>2. e \in InternalPacket /\ e.pkt = p /\ e.set_dup = dup
    BY DEF InternalPacket
  <2> HIDE DEF e
  <2>3. /\ more \in Seq(InternalPacket) /\ Len(more) = Len(acc) + 1 /\ more[Len(acc) + 1] = e
        /\ \A i \in 1..Len(acc) : more[i] = acc[i]
    BY <1>1, <2>2
  <2> HIDE DEF more
  <2>4. ASSUME NEW k \in Nat, k <= Len(acc) PROVE Encoding(more, k) = Encoding(acc, k)
    BY <1>1, <2>3, <2>4, EncodingSame
  <2>5. CASE tx_pkt # None
    <3>1. /\ internal_pkt_queue' = Append(internal_pkt_queue, [pkt |-> p, set_dup |-> dup])
          /\ UNCHANGED <<tx_pkt, wire>>
      BY <2>1, <2>5 DEF queue_internal_packet
    <3>2. Len(internal_pkt_queue') = Len(internal_pkt_queue) + 1
      BY <1>2, <3>1
    <3>3. Behind' = Behind
      BY <1>1, <1>2, <2>1, <2>3, <3>2 DEF Behind
    <3>4. wire = Written
      BY <2>5 DEF StreamInv, Lost
    <3>5. Encoding(more, Behind - 1) = Encoding(acc, Behind - 1)
      <4>1. Behind - 1 \in Nat /\ Behind - 1 <= Len(acc)
        BY <1>1, <1>3, <1>4, <2>5
      <4> QED BY <2>4, <4>1
    <3> QED BY <2>1, <2>5, <3>1, <3>3, <3>4, <3>5 DEF Written, acc
  <2>6. CASE tx_pkt = None
    <3>1. try_send_packet(p, dup) /\ UNCHANGED internal_pkt_queue
      BY <2>1, <2>6 DEF queue_internal_packet
    <3>2. ~broken /\ pc # "pop"
      BY <1>9, <3>1 DEF try_send_packet, Accepts
    <3>3. internal_pkt_queue = <<>> /\ wire = Encoding(acc, Behind)
      BY <2>6, <3>2 DEF StreamInv, Lost, Written, acc
    <3> DEFINE k == Len(acc)
    <3>4. Len(internal_pkt_queue) = 0 /\ Len(internal_pkt_queue') = 0
      BY <3>1, <3>3
    <3>5. Behind = k /\ k \in Nat /\ k + 1 <= Len(more) /\ k + 1 = Behind'
      BY <1>1, <2>1, <2>3, <3>4 DEF Behind
    <3>6. wire = Encoding(more, k)
      BY <2>4, <3>3, <3>5
    <3>7. Encoding(more, k) \in Seq(Bytes)
      BY <2>3, <3>5, EncodingType
    <3>8. PICK n \in 0..Size[p] : Transmit(p, dup, 0, n)
      BY <3>1 DEF try_send_packet
    <3>9. n \in Nat /\ 0 <= n /\ n <= Size[p] /\ 0 \in Nat
      BY <3>8, SizeAssumption
    <3> HIDE DEF k
    <3>10. more[k + 1].pkt = p /\ more[k + 1].set_dup = dup
      BY <2>2, <2>3 DEF k
    <3>11. wire = Encoding(more, k) \o Slice(p, dup, 0, 0)
      BY <3>6, <3>7, SliceNone
    <3> QED BY Zenon, <2>1, <2>3, <3>5, <3>8, <3>9, <3>10, <3>11, TransmitWritten
  <2> QED BY <2>5, <2>6
<1>10. CASE Fails
  BY <1>10 DEF Fails
<1> QED BY <1>5, <1>6, <1>7, <1>8, <1>9, <1>10 DEF StreamKinds

\* The task leaves the queue only when it is empty (send_next_packet).
LEMMA EmptyStep ==
    ASSUME TypeOK, ControlInv, BootInv, StreamInv, StreamKinds
    PROVE  tx_pkt' = None /\ pc' # "pop" => internal_pkt_queue' = <<>> \/ Lost'
<1>1. CASE Still
  <2>1. Lost => Lost'
    BY <1>1 DEF Still, Lost
  <2> QED BY <1>1, <2>1 DEF Still, StreamInv
<1>2. CASE Begun
  BY <1>2 DEF Begun, BootInv
<1>3. CASE Continued
  <2>1. PICK to \in (tx_pkt.pos + 1)..Size[tx_pkt.pkt] :
          /\ Transmit(tx_pkt.pkt, tx_pkt.set_dup, tx_pkt.pos, to)
          /\ pc' = IF to = Size[tx_pkt.pkt] THEN "pop" ELSE "write"
    BY <1>3 DEF Continued
  <2>2. CASE to = Size[tx_pkt.pkt]
    BY <2>1, <2>2
  <2>3. CASE to # Size[tx_pkt.pkt]
    <3>1. tx_pkt \in TxPacket
      BY Zenon, <1>3 DEF Continued, ControlInv, TypeOK
    <3>2. tx_pkt.pkt \in Packets /\ tx_pkt.pos \in Nat /\ tx_pkt.set_dup \in BOOLEAN
      BY <3>1 DEF TxPacket
    <3>3. to \in Nat
      BY <3>2, SizeAssumption
    <3>4. tx_pkt' = [pkt |-> tx_pkt.pkt, pos |-> to, set_dup |-> tx_pkt.set_dup]
      BY <2>1, <2>3 DEF Transmit
    <3>5. tx_pkt' \in TxPacket
      BY <3>2, <3>3, <3>4 DEF TxPacket
    <3> QED BY <3>5, NoneAssumption
  <2> QED BY <2>2, <2>3
<1>4. CASE Popped
  BY <1>4 DEF Popped
<1>5. ASSUME NEW p \in Packets, NEW dup \in BOOLEAN, Accepts(p, dup)
      PROVE  tx_pkt' = None => internal_pkt_queue' = <<>>
  BY <1>5 DEF Accepts, queue_internal_packet, try_send_packet, StreamInv, Lost
<1>6. CASE Fails
  BY <1>6 DEF Fails
<1> QED BY <1>1, <1>2, <1>3, <1>4, <1>5, <1>6 DEF StreamKinds

\* What is known of DISCONNECT is kept by every step.
LEMMA FlushStep ==
    ASSUME TypeOK, ControlInv, QueueIsAcceptedTail, StreamInv, FlushInv, StreamKinds
    PROVE  FlushInv'
<1>1. accepted \in Seq(InternalPacket) /\ Len(accepted) \in Nat
  <2>1. accepted \in Seq(InternalPacket)
    BY Zenon DEF TypeOK
  <2> QED BY <2>1
<1>2. CASE Still
  <2>1. UNCHANGED <<wire, accepted>> /\ DisconnectLast' = DisconnectLast
    BY <1>2 DEF Still, DisconnectLast
  <2>2. ASSUME phase = "flush", pc = "select", tx_pkt = None
        PROVE  wire = Encoding(accepted, Len(accepted)) /\ DisconnectLast
    <3>1. ~Lost /\ internal_pkt_queue = <<>>
      BY <2>2 DEF StreamInv, Lost
    <3>2. Behind = Len(accepted)
      BY <1>1, <3>1 DEF Behind
    <3> QED BY <2>2, <3>1, <3>2 DEF StreamInv, Written, FlushInv
  <2>3. phase' \in Early => \A i \in 1..Len(accepted) : accepted[i].pkt # "DISCONNECT"
    BY <1>2 DEF Still, FlushInv
  <2>4. phase' = "flush" => DisconnectLast
    BY <1>2 DEF Still, FlushInv
  <2>5. disconnect_sent' =>
          phase' = "done" /\ wire = Encoding(accepted, Len(accepted)) /\ DisconnectLast
    BY <1>2, <2>2 DEF Still, FlushInv
  <2> QED BY <2>1, <2>3, <2>4, <2>5 DEF FlushInv
<1>3. CASE Begun \/ Continued \/ Popped
  <2>1. UNCHANGED <<accepted, disconnect_sent>> /\ DisconnectLast' = DisconnectLast
    BY Zenon, <1>3 DEF Begun, Continued, Popped, Writing, DisconnectLast
  <2>2. \/ phase = "boot" /\ phase' = "run"
        \/ phase \in {"run", "flush"} /\ phase' = phase
    BY Zenon, <1>3 DEF Begun, Continued, Popped, ControlInv
  <2> QED BY <2>1, <2>2 DEF FlushInv, Early
<1>4. ASSUME NEW p \in Packets, NEW dup \in BOOLEAN, Accepts(p, dup) PROVE FlushInv'
  <2> DEFINE e == [pkt |-> p, set_dup |-> dup]
             n == Len(accepted)
  <2>1. accepted' = Append(accepted, e) /\ e.pkt = p /\ e \in InternalPacket
    BY <1>4 DEF Accepts, queue_internal_packet, InternalPacket
  <2> HIDE DEF e
  <2>2. /\ Len(accepted') = n + 1 /\ accepted'[n + 1] = e /\ accepted' # <<>> /\ n \in Nat
        /\ \A i \in 1..n : accepted'[i] = accepted[i]
    BY <1>1, <2>1
  <2>3. phase \in Early /\ \A i \in 1..n : accepted'[i].pkt # "DISCONNECT"
    BY <1>4, <2>2 DEF Accepts, FlushInv, Early
  <2>4. ~disconnect_sent'
    BY <1>4, <2>3 DEF Accepts, FlushInv, Early
  <2> HIDE DEF n
  <2>5. CASE p # "DISCONNECT" /\ phase' = "run"
    <3>1. \A i \in 1..(n + 1) : accepted'[i].pkt # "DISCONNECT"
      <4> TAKE i \in 1..(n + 1)
      <4>1. i \in 1..n \/ i = n + 1
        BY <2>2
      <4> QED BY <2>1, <2>2, <2>3, <2>5, <4>1
    <3> QED BY <2>2, <2>4, <2>5, <3>1 DEF FlushInv
  <2>6. CASE p = "DISCONNECT" /\ phase' = "flush"
    <3>1. DisconnectLast'
      <4>1. (n + 1) - 1 = n
        BY <2>2
      <4> QED BY <2>1, <2>2, <2>3, <2>6, <4>1 DEF DisconnectLast
    <3> QED BY <2>4, <2>6, <3>1 DEF FlushInv, Early
  <2> QED BY <1>4, <2>5, <2>6 DEF Accepts
<1>5. CASE Fails
  <2>1. UNCHANGED <<wire, accepted, disconnect_sent>> /\ DisconnectLast' = DisconnectLast
    BY <1>5 DEF Fails, DisconnectLast
  <2>2. phase' \in {"stop", "done"} /\ phase # "done" /\ (phase' = "stop" => phase \in Early)
    BY <1>5 DEF Fails, Lost, Early
  <2> QED BY <2>1, <2>2 DEF FlushInv, Early
<1> QED BY <1>2, <1>3, <1>4, <1>5 DEF StreamKinds

\* What has been written of the packets is the beginning of all their bytes.
LEMMA WrittenBegins ==
    ASSUME TypeOK, QueueIsAcceptedTail
    PROVE  /\ Written \in Seq(Bytes)
           /\ Begins(Written, Encoding(accepted, Len(accepted)))
<1>0. accepted \in Seq(InternalPacket) /\ internal_pkt_queue \in Seq(InternalPacket)
  BY Zenon DEF TypeOK
<1>1. Len(accepted) \in Nat /\ Len(internal_pkt_queue) \in Nat
  BY <1>0
<1>2. Behind \in Nat /\ Behind <= Len(accepted)
  BY <1>1 DEF QueueIsAcceptedTail, Behind
<1>3. CASE tx_pkt = None
  <2>1. Written = Encoding(accepted, Behind)
    BY <1>3 DEF Written
  <2>2. Behind \in 0..Len(accepted) /\ Len(accepted) \in 0..Len(accepted)
    BY <1>1, <1>2
  <2>3. Encoding(accepted, Behind) \in Seq(Bytes)
    BY <1>0, <2>2, EncodingType
  <2>4. Begins(Encoding(accepted, Behind), Encoding(accepted, Len(accepted)))
    BY <1>0, <1>1, <1>2, <2>2, EncodingBegins
  <2> QED BY <2>1, <2>3, <2>4
<1>4. CASE tx_pkt # None
  <2> DEFINE k == Behind - 1
             e == accepted[k + 1]
             s == Encoding(accepted, k)
             a == Slice(e.pkt, e.set_dup, 0, tx_pkt.pos)
             b == Slice(e.pkt, e.set_dup, tx_pkt.pos, Size[e.pkt])
  <2>1. tx_pkt \in TxPacket
    BY Zenon, <1>4 DEF TypeOK
  <2>2. tx_pkt.pos \in Nat /\ tx_pkt.pkt \in Packets /\ tx_pkt.set_dup \in BOOLEAN
    BY <2>1 DEF TxPacket
  <2>3. /\ Behind >= 1 /\ tx_pkt.pos < Size[tx_pkt.pkt]
        /\ accepted[Behind] = [pkt |-> tx_pkt.pkt, set_dup |-> tx_pkt.set_dup]
    BY <1>4 DEF QueueIsAcceptedTail, Behind
  <2>4. k \in Nat /\ k + 1 = Behind /\ k \in 0..Len(accepted) /\ k + 1 \in 0..Len(accepted)
    BY <1>1, <1>2, <2>3
  <2>5. e.pkt = tx_pkt.pkt /\ e.set_dup = tx_pkt.set_dup
    BY <2>3, <2>4
  <2>6. Size[e.pkt] \in Nat /\ tx_pkt.pos <= Size[e.pkt] /\ 0 <= tx_pkt.pos
    BY <2>2, <2>3, <2>5, SizeAssumption
  <2>7. s \in Seq(Bytes)
    BY <1>0, <2>4, EncodingType
  <2>8. Encoding(accepted, k + 1) = s \o Whole(e)
    BY Zenon, <2>4, EncodingNext
  <2>8a. Written = s \o a
    BY <1>4, <2>5 DEF Written
  <2> HIDE DEF e, k, s
  <2>9. a \in Seq(Bytes)
    BY Zenon, <2>2, <2>5, <2>6, SliceType
  <2>10. b \in Seq(Bytes)
    BY Zenon, <2>2, <2>5, <2>6, SliceType
  <2>11. (s \o a) \o b = s \o Whole(e)
    <3>1. e.pkt \in Packets /\ e.set_dup \in BOOLEAN
      BY <2>2, <2>5
    <3>2. (s \o a) \o b = s \o Slice(e.pkt, e.set_dup, 0, Size[e.pkt])
      BY Zenon, <2>2, <2>6, <2>7, <3>1, SliceAfter
    <3> QED BY <3>2 DEF Whole
  <2> HIDE DEF a, b
  <2>13. s \o a \in Seq(Bytes)
    BY <2>7, <2>9
  <2>14. Begins(s \o a, (s \o a) \o b)
    BY Zenon, <2>10, <2>13, BeginsConcat
  <2>15. Begins(Encoding(accepted, k + 1), Encoding(accepted, Len(accepted)))
    BY <1>0, <1>1, <2>4, EncodingBegins
  <2>16. /\ Encoding(accepted, k + 1) \in Seq(Bytes)
         /\ Encoding(accepted, Len(accepted)) \in Seq(Bytes)
    BY <1>0, <1>1, <2>4, EncodingType
  <2>17. Begins(s \o a, Encoding(accepted, k + 1))
    BY Zenon, <2>8, <2>11, <2>14
  <2>18. Begins(s \o a, Encoding(accepted, Len(accepted)))
    BY Zenon, <2>13, <2>15, <2>16, <2>17, BeginsTransitive
  <2> QED BY <2>8a, <2>13, <2>18
<1> QED BY <1>3, <1>4

\* Nothing is written or accepted in a step after which a packet is lost.
LEMMA LostStep ==
    ASSUME StreamKinds, Lost'
    PROVE  UNCHANGED <<wire, accepted>>
<1>1. CASE Still
  BY <1>1 DEF Still
<1>2. CASE Begun \/ Continued \/ Popped
  BY Zenon, <1>2 DEF Begun, Continued, Popped, Writing, Lost
<1>3. ASSUME NEW p \in Packets, NEW dup \in BOOLEAN, Accepts(p, dup) PROVE FALSE
  BY <1>3 DEF Accepts, queue_internal_packet, try_send_packet, Lost
<1>4. CASE Fails
  BY <1>4 DEF Fails
<1> QED BY <1>1, <1>2, <1>3, <1>4 DEF StreamKinds

\* The wire, the queue and the flag are right at the start.
LEMMA StreamInitially == Init => StreamInv /\ FlushInv
<1> SUFFICES ASSUME Init PROVE StreamInv /\ FlushInv
  OBVIOUS
<1> DEFINE e == [pkt |-> "CONNECT", set_dup |-> FALSE]
<1>1. /\ tx_pkt \in TxPacket /\ tx_pkt.pkt = "CONNECT" /\ tx_pkt.pos = 0 /\ tx_pkt.set_dup = FALSE
      /\ "CONNECT" \in Packets
  BY DEF Init, TxPacket, Packets
<1>2. tx_pkt # None
  BY <1>1, NoneAssumption
<1>3. internal_pkt_queue = <<>> /\ wire = <<>> /\ accepted = <<e>> /\ e.pkt = "CONNECT"
  BY DEF Init
<1> HIDE DEF e
<1>4. Len(accepted) = 1 /\ Len(internal_pkt_queue) = 0 /\ accepted[1] = e
  BY <1>3
<1>5. Behind - 1 = 0
  BY <1>4 DEF Behind
<1>6. Encoding(accepted, 0) = <<>> /\ <<>> \in Seq(Bytes)
  BY EncodingZero
<1>7. <<>> \o Slice("CONNECT", FALSE, 0, 0) = <<>>
  BY Zenon, <1>1, <1>6, SliceNone
<1>8. wire = Written
  BY Zenon, <1>1, <1>2, <1>3, <1>5, <1>6, <1>7 DEF Written
<1>9. StreamInv
  BY <1>2, <1>8 DEF StreamInv
<1>10. \A i \in 1..1 : accepted[i].pkt # "DISCONNECT"
  BY <1>3, <1>4
<1>11. phase = "boot" /\ disconnect_sent = FALSE
  BY DEF Init
<1>12. FlushInv
  BY <1>4, <1>10, <1>11 DEF FlushInv
<1> QED BY <1>9, <1>12

\* The inductive invariant of the transmit path.
THEOREM StreamCorrect == Spec => [](StreamInv /\ FlushInv)
<1>1. TypeOK /\ TypeOK' /\ ControlInv /\ BootInv /\ QueueIsAcceptedTail /\ StreamInv /\ FlushInv /\ [Next]_vars
        => StreamInv' /\ FlushInv'
  <2> SUFFICES ASSUME TypeOK, TypeOK', ControlInv, BootInv, QueueIsAcceptedTail, StreamInv, FlushInv,
                      [Next]_vars
               PROVE  StreamInv' /\ FlushInv'
    OBVIOUS
  <2>1. StreamKinds
    BY StreamStep
  <2>2. StreamInv'
    BY <2>1, WrittenStep, EmptyStep DEF StreamInv
  <2>3. FlushInv'
    BY <2>1, FlushStep
  <2> QED BY <2>2, <2>3
<1> QED BY <1>1, StreamInitially, ControlCorrect, BootCorrect, QueueCorrect, PTL DEF Spec

\* As long as the wire holds what was written, it is a prefix of the stream.
LEMMA WrittenIsStream ==
    ASSUME TypeOK, QueueIsAcceptedTail, wire = Written
    PROVE  WireIsAcceptedStream
<1> DEFINE all == Encoding(accepted, Len(accepted))
<1>1. accepted \in Seq(InternalPacket) /\ Len(accepted) \in 0..Len(accepted)
  <2>1. accepted \in Seq(InternalPacket)
    BY Zenon DEF TypeOK
  <2> QED BY <2>1
<1>2. all \in Seq(Bytes)
  BY <1>1, EncodingType
<1>3. wire \in Seq(Bytes) /\ Begins(wire, all)
  BY WrittenBegins
<1> HIDE DEF all
<1>4. Len(wire) <= Len(all) /\ wire = SubSeq(all, 1, Len(wire))
  BY <1>2, <1>3, BeginsSubSeq
<1> QED BY <1>4 DEF all, WireIsAcceptedStream

\* The transport is given, to the byte, a prefix of the packets the handlers
\* produced, in their order and with DUP where they asked for it
\* (try_send_packet, continue_writing_packet, clear_tx_packet), for packets
\* of any size and any number of them.
THEOREM WireCorrect == Spec => []WireIsAcceptedStream
<1>1. TypeOK /\ QueueIsAcceptedTail /\ StreamInv => WireIsAcceptedStream \/ Lost
  BY WrittenIsStream DEF StreamInv
<1>2. TypeOK /\ ControlInv /\ [Next]_vars /\ WireIsAcceptedStream /\ Lost' => WireIsAcceptedStream'
  <2> SUFFICES ASSUME TypeOK, ControlInv, [Next]_vars, WireIsAcceptedStream, Lost'
               PROVE  WireIsAcceptedStream'
    OBVIOUS
  <2>1. UNCHANGED <<wire, accepted>>
    BY StreamStep, LostStep
  <2> QED BY <2>1 DEF WireIsAcceptedStream
<1>3. Init => ~Lost
  BY DEF Init, Lost
<1> QED BY <1>1, <1>2, <1>3, ControlCorrect, QueueCorrect, StreamCorrect, PTL DEF Spec

\* disconnect_sent is reported only with every accepted packet written and
\* the DISCONNECT packet as the last of them (disconnect_sequence).
THEOREM FlushCorrect == Spec => []DisconnectSentMeansFlushed
<1>1. FlushInv => DisconnectSentMeansFlushed
  BY DEF FlushInv, DisconnectLast, DisconnectSentMeansFlushed
<1> QED BY <1>1, StreamCorrect, PTL

-----------------------------------------------------------------------------
(* The abstract stream of packets.                                         *)

\* A reader before the first byte, and the function that Reader(bytes, n) takes
\* its value from.
Unread == [dup |-> FALSE, frames |-> <<>>]

REqn(bytes, n, f) ==
    f = [i \in 0..n |-> IF i = 0 THEN Unread ELSE ReadByte(f[i - 1], bytes[i])]

\* There is one, and only one, as for Encoding.
LEMMA REqnExists == ASSUME NEW bytes, NEW n \in Nat PROVE \E f : REqn(bytes, n, f)
<1> DEFINE S == {k \in Nat : \E f : REqn(bytes, k, f)}
<1>1. 0 \in S
  <2> DEFINE f == [i \in 0..0 |-> Unread]
  <2>1. REqn(bytes, 0, f)
    BY DEF REqn
  <2> QED BY <2>1
<1>2. ASSUME NEW k \in Nat, k \in S PROVE k + 1 \in S
  <2>1. PICK f : REqn(bytes, k, f)
    BY <1>2
  <2> DEFINE g == [i \in 0..(k + 1) |-> IF i <= k THEN f[i] ELSE ReadByte(f[k], bytes[k + 1])]
  <2>2. \A i \in 0..k : f[i] = IF i = 0 THEN Unread ELSE ReadByte(f[i - 1], bytes[i])
    BY <2>1 DEF REqn
  <2>3. ASSUME NEW i \in 0..(k + 1)
        PROVE  g[i] = IF i = 0 THEN Unread ELSE ReadByte(g[i - 1], bytes[i])
    <3>1. CASE i <= k
      <4>1. i \in 0..k /\ (i # 0 => i - 1 \in 0..k /\ i - 1 \in 0..(k + 1) /\ i - 1 <= k)
        BY <3>1
      <4>2. g[i] = f[i] /\ (i # 0 => g[i - 1] = f[i - 1])
        BY <4>1, <3>1
      <4> QED BY <4>1, <4>2, <2>2
    <3>2. CASE i = k + 1
      <4>1. i # 0 /\ i - 1 = k /\ k \in 0..(k + 1) /\ k + 1 \in 0..(k + 1) /\ ~(k + 1 <= k)
        BY <3>2
      <4>2. g[k] = f[k]
        BY <4>1
      <4>3. g[k + 1] = ReadByte(f[k], bytes[k + 1])
        BY <4>1
      <4> HIDE DEF g
      <4> QED BY <4>1, <4>2, <4>3, <3>2
    <3> QED BY <3>1, <3>2
  <2>4. REqn(bytes, k + 1, g)
    BY <2>3 DEF REqn
  <2> QED BY <2>4
<1> HIDE DEF S
<1>3. Nat \subseteq S
  BY <1>1, <1>2, SetInduction
<1> QED BY <1>3 DEF S

LEMMA REqnUnique ==
    ASSUME NEW bytes, NEW more, NEW n \in Nat, NEW m \in Nat, NEW f, NEW g,
           REqn(bytes, n, f), REqn(more, m, g), n <= m,
           \A i \in 1..n : more[i] = bytes[i]
    PROVE  \A i \in 0..n : g[i] = f[i]
<1> DEFINE S == {k \in Nat : k <= n => g[k] = f[k]}
<1>1. 0 \in S
  BY DEF REqn
<1>2. ASSUME NEW k \in Nat, k \in S PROVE k + 1 \in S
  <2> SUFFICES ASSUME k + 1 <= n PROVE g[k + 1] = f[k + 1]
    OBVIOUS
  <2>1. k + 1 \in 0..n /\ k + 1 \in 0..m /\ k + 1 # 0 /\ (k + 1) - 1 = k /\ k + 1 \in 1..n
    OBVIOUS
  <2>2. f[k + 1] = ReadByte(f[k], bytes[k + 1])
    BY <2>1 DEF REqn
  <2>3. g[k + 1] = ReadByte(g[k], more[k + 1])
    BY <2>1 DEF REqn
  <2>4. g[k] = f[k] /\ more[k + 1] = bytes[k + 1]
    BY <1>2, <2>1
  <2> QED BY <2>2, <2>3, <2>4
<1> HIDE DEF S
<1>3. Nat \subseteq S
  BY <1>1, <1>2, SetInduction
<1> QED BY <1>3 DEF S

\* The reader satisfies its recursive definition.
LEMMA ReaderIs ==
    ASSUME NEW bytes, NEW n \in Nat, NEW f, REqn(bytes, n, f)
    PROVE  Reader(bytes, n) = f[n]
<1> DEFINE g == CHOOSE h : REqn(bytes, n, h)
<1>1. REqn(bytes, n, g)
  OBVIOUS
<1>2. Reader(bytes, n) = g[n]
  BY DEF Reader, REqn, Unread
<1> HIDE DEF g
<1>3. \A i \in 0..n : g[i] = f[i]
  BY <1>1, REqnUnique
<1> QED BY <1>2, <1>3

LEMMA ReaderZero == ASSUME NEW bytes PROVE Reader(bytes, 0) = Unread
<1>1. PICK f : REqn(bytes, 0, f)
  BY REqnExists
<1>2. f[0] = Unread
  BY <1>1 DEF REqn
<1> QED BY <1>1, <1>2, ReaderIs

LEMMA ReaderSame ==
    ASSUME NEW bytes, NEW more, NEW n \in Nat, \A i \in 1..n : more[i] = bytes[i]
    PROVE  Reader(more, n) = Reader(bytes, n)
<1>1. PICK f : REqn(bytes, n, f)
  BY REqnExists
<1>2. PICK g : REqn(more, n, g)
  BY REqnExists
<1>3. g[n] = f[n]
  BY <1>1, <1>2, REqnUnique
<1> QED BY <1>1, <1>2, <1>3, ReaderIs

LEMMA ReaderNext ==
    ASSUME NEW bytes, NEW n \in Nat
    PROVE  Reader(bytes, n + 1) = ReadByte(Reader(bytes, n), bytes[n + 1])
<1>1. PICK f : REqn(bytes, n, f)
  BY REqnExists
<1>2. PICK g : REqn(bytes, n + 1, g)
  BY REqnExists
<1>3. g[n] = f[n]
  BY <1>1, <1>2, REqnUnique
<1>4. n + 1 \in 0..(n + 1) /\ n + 1 # 0 /\ (n + 1) - 1 = n
  OBVIOUS
<1>5. g[n + 1] = ReadByte(g[n], bytes[n + 1])
  BY <1>2, <1>4 DEF REqn
<1>6. Reader(bytes, n) = f[n] /\ Reader(bytes, n + 1) = g[n + 1]
  BY <1>1, <1>2, ReaderIs
<1> QED BY <1>3, <1>5, <1>6

\* The bytes of the beginning of a packet.
LEMMA SliceFields ==
    ASSUME NEW p \in Packets, NEW dup \in BOOLEAN, NEW to \in Nat
    PROVE  /\ Slice(p, dup, 0, to) \in Seq(Bytes) /\ Len(Slice(p, dup, 0, to)) = to
           /\ \A j \in 1..to : /\ Slice(p, dup, 0, to)[j].pkt = p
                               /\ Slice(p, dup, 0, to)[j].idx = j
           /\ to > 0 => Slice(p, dup, 0, to)[1].dup = dup
<1> DEFINE t == Slice(p, dup, 0, to)
<1>1. t \in Seq(Bytes)
  <2>1. 0 \in Nat /\ 0 <= to
    OBVIOUS
  <2> QED BY <2>1, SliceType
<1>2. DOMAIN t = 1..to
  <2>1. to - 0 = to
    OBVIOUS
  <2> QED BY <2>1 DEF Slice
<1>3. ASSUME NEW j \in 1..to
      PROVE  t[j].pkt = p /\ t[j].idx = j
  <2>1. j \in 1..(to - 0) /\ 0 + j = j
    OBVIOUS
  <2>2. t[j] = [pkt |-> p, idx |-> 0 + j, dup |-> dup /\ 0 + j = 1]
    BY <2>1 DEF Slice
  <2> QED BY <2>1, <2>2
<1>4. ASSUME to > 0 PROVE t[1].dup = dup
  <2>1. 1 \in 1..(to - 0) /\ 0 + 1 = 1
    BY <1>4
  <2>2. t[1] = [pkt |-> p, idx |-> 0 + 1, dup |-> dup /\ 0 + 1 = 1]
    BY <2>1 DEF Slice
  <2>3. (dup /\ 0 + 1 = 1) = dup
    BY <2>1
  <2> QED BY <2>2, <2>3
<1> HIDE DEF t
<1>5. Len(t) = to
  BY <1>1, <1>2
<1> QED BY <1>1, <1>3, <1>4, <1>5 DEF t

\* One byte, read.
LEMMA ReadOne ==
    ASSUME NEW r, NEW b
    PROVE  /\ ReadByte(r, b).dup = IF b.idx = 1 THEN b.dup ELSE r.dup
           /\ b.idx # Size[b.pkt] => ReadByte(r, b).frames = r.frames
           /\ b.idx = Size[b.pkt] =>
                ReadByte(r, b).frames = Append(r.frames, [pkt |-> b.pkt, set_dup |-> ReadByte(r, b).dup])
<1> DEFINE d == IF b.idx = 1 THEN b.dup ELSE r.dup
           f == IF b.idx = Size[b.pkt] THEN Append(r.frames, [pkt |-> b.pkt, set_dup |-> d]) ELSE r.frames
<1>1. ReadByte(r, b) = [dup |-> d, frames |-> f]
  BY DEF ReadByte
<1> HIDE DEF d, f
<1>2. ReadByte(r, b).dup = d /\ ReadByte(r, b).frames = f
  BY <1>1
<1> QED BY <1>2 DEF d, f

\* What a reader finds in these bytes.
FramesOf(bytes) == Reader(bytes, Len(bytes)).frames

\* Reading the first bytes of a packet behind other bytes: the packet is met
\* when its last byte is.
LEMMA ReadSlice ==
    ASSUME NEW s \in Seq(Bytes), NEW p \in Packets, NEW dup \in BOOLEAN,
           NEW to \in Nat, to <= Size[p]
    PROVE  /\ to < Size[p] => FramesOf(s \o Slice(p, dup, 0, to)) = FramesOf(s)
           /\ to = Size[p] => FramesOf(s \o Slice(p, dup, 0, to))
                                = Append(FramesOf(s), [pkt |-> p, set_dup |-> dup])
<1> DEFINE m == Len(s)
           t == Slice(p, dup, 0, to)
           w == s \o t
           old == FramesOf(s)
           e == [pkt |-> p, set_dup |-> dup]
<1>0. Size[p] \in Nat \ {0} /\ m \in Nat
  BY SizeAssumption
<1>1. /\ t \in Seq(Bytes) /\ Len(t) = to
      /\ \A j \in 1..to : t[j].pkt = p /\ t[j].idx = j
      /\ to > 0 => t[1].dup = dup
  BY SliceFields
<1> HIDE DEF t
<1>2. w \in Seq(Bytes) /\ Len(w) = m + to /\ \A i \in 1..m : w[i] = s[i]
  BY <1>1
<1>3. ASSUME NEW j \in Nat, j + 1 <= to
      PROVE  /\ w[m + (j + 1)].pkt = p /\ w[m + (j + 1)].idx = j + 1
             /\ j = 0 => w[m + (j + 1)].dup = dup
  <2>1. j + 1 \in 1..to /\ m + (j + 1) \in 1..(m + to) /\ m + (j + 1) > m /\ (m + (j + 1)) - m = j + 1
    BY <1>0, <1>3
  <2>2. w[m + (j + 1)] = t[j + 1]
    BY <1>0, <1>1, <2>1
  <2> HIDE DEF w
  <2>3. t[j + 1].pkt = p /\ t[j + 1].idx = j + 1
    BY <1>1, <2>1
  <2>4. j = 0 => t[j + 1].dup = dup
    BY <1>1, <2>1
  <2> QED BY <2>2, <2>3, <2>4
<1> HIDE DEF w
<1>4. Reader(w, m) = Reader(s, m) /\ Reader(s, m).frames = old
  BY <1>0, <1>2, ReaderSame DEF FramesOf
<1> DEFINE S == {j \in Nat : j <= to =>
                   /\ j < Size[p] => Reader(w, m + j).frames = old
                   /\ j = Size[p] => Reader(w, m + j).frames = Append(old, e)
                   /\ j > 0 => Reader(w, m + j).dup = dup}
<1> HIDE DEF m, e, old
<1>5. 0 \in S
  BY <1>0, <1>4
<1>6. ASSUME NEW j \in Nat, j \in S PROVE j + 1 \in S
  <2> SUFFICES ASSUME j + 1 <= to
               PROVE  /\ j + 1 < Size[p] => Reader(w, m + (j + 1)).frames = old
                      /\ j + 1 = Size[p] => Reader(w, m + (j + 1)).frames = Append(old, e)
                      /\ Reader(w, m + (j + 1)).dup = dup
    BY <1>6
  <2> DEFINE b == w[m + (j + 1)]
             r == Reader(w, m + j)
  <2>1. /\ j < Size[p] /\ j + 1 \in 1..to /\ j <= to
        /\ m + (j + 1) = (m + j) + 1 /\ m + j \in Nat
    BY <1>0
  <2>2. b.pkt = p /\ b.idx = j + 1 /\ (j = 0 => b.dup = dup)
    BY <1>3
  <2>3. r.frames = old /\ (j > 0 => r.dup = dup)
    BY <1>6, <2>1
  <2>4. Reader(w, m + (j + 1)) = ReadByte(r, b)
    BY <2>1, ReaderNext
  <2> HIDE DEF b, r
  <2>5. ReadByte(r, b).dup = dup
    <3>1. CASE j = 0
      <4>1. b.idx = 1 /\ b.dup = dup
        BY <2>2, <3>1
      <4> QED BY Zenon, <4>1, ReadOne
    <3>2. CASE j > 0
      <4>1. b.idx # 1 /\ r.dup = dup
        BY <2>2, <2>3, <3>2
      <4> QED BY Zenon, <4>1, ReadOne
    <3> QED BY <3>1, <3>2
  <2>6. j + 1 < Size[p] => ReadByte(r, b).frames = old
    <3>1. j + 1 < Size[p] => b.idx # Size[b.pkt]
      BY <1>0, <2>2
    <3> QED BY Zenon, <2>3, <3>1, ReadOne
  <2>7. j + 1 = Size[p] => ReadByte(r, b).frames = Append(old, e)
    BY <2>2, <2>3, <2>5, ReadOne DEF e
  <2> QED BY <2>4, <2>5, <2>6, <2>7
<1> HIDE DEF S
<1>7. Nat \subseteq S
  BY <1>5, <1>6, SetInduction
<1>8. /\ to < Size[p] => Reader(w, m + to).frames = old
      /\ to = Size[p] => Reader(w, m + to).frames = Append(old, e)
  BY <1>7 DEF S
<1>9. FramesOf(w) = Reader(w, m + to).frames
  BY <1>2 DEF FramesOf
<1> QED BY <1>8, <1>9 DEF w, t, e, old

\* A write of bytes from+1 .. to of the packet p adds this packet to those a
\* reader sees when it completes it.
LEMMA TransmitFrames ==
    ASSUME NEW s \in Seq(Bytes), NEW p \in Packets, NEW dup \in BOOLEAN,
           NEW from \in Nat, NEW to \in Nat, from <= to, to <= Size[p], from < Size[p],
           wire = s \o Slice(p, dup, 0, from),
           Transmit(p, dup, from, to)
    PROVE  /\ to < Size[p] => Frames' = Frames
           /\ to = Size[p] => Frames' = Append(Frames, [pkt |-> p, set_dup |-> dup])
<1> DEFINE w == wire'
           v == wire
<1>1. w = s \o Slice(p, dup, 0, to)
  <2>1. w = (s \o Slice(p, dup, 0, from)) \o Slice(p, dup, from, to)
    BY DEF Transmit
  <2> QED BY Zenon, <2>1, SliceAfter
<1>2. Size[p] \in Nat /\ from <= Size[p]
  BY SizeAssumption
<1>3. v = s \o Slice(p, dup, 0, from) /\ Frames = FramesOf(v) /\ Frames' = FramesOf(w)
  BY DEF Frames, FramesOf
<1> HIDE DEF w, v
<1>4. FramesOf(v) = FramesOf(s)
  BY Zenon, <1>2, <1>3, ReadSlice
<1>5. /\ to < Size[p] => FramesOf(w) = FramesOf(s)
      /\ to = Size[p] => FramesOf(w) = Append(FramesOf(s), [pkt |-> p, set_dup |-> dup])
  BY <1>1, ReadSlice
<1> QED BY <1>3, <1>4, <1>5

\* A write that begins or goes on with e, in terms of the abstract stream.
LEMMA TransmitKinds ==
    ASSUME NEW acc \in Seq(InternalPacket), NEW k \in Nat, k + 1 <= Len(acc),
           NEW e \in InternalPacket,
           NEW from \in Nat, NEW to \in Nat, from <= to, to <= Size[e.pkt], from < Size[e.pkt],
           wire = Encoding(acc, k) \o Slice(e.pkt, e.set_dup, 0, from),
           Transmit(e.pkt, e.set_dup, from, to)
    PROVE  \/ tx_pkt' = None /\ Frames' = Append(Frames, e)
           \/ /\ tx_pkt' # None /\ tx_pkt'.pkt = e.pkt /\ tx_pkt'.set_dup = e.set_dup
              /\ Frames' = Frames
<1>1. e.pkt \in Packets /\ e.set_dup \in BOOLEAN /\ e = [pkt |-> e.pkt, set_dup |-> e.set_dup]
  BY DEF InternalPacket
<1>2. Encoding(acc, k) \in Seq(Bytes)
  BY EncodingType
<1>3. Size[e.pkt] \in Nat
  BY <1>1, SizeAssumption
<1>4. /\ to < Size[e.pkt] => Frames' = Frames
      /\ to = Size[e.pkt] => Frames' = Append(Frames, [pkt |-> e.pkt, set_dup |-> e.set_dup])
  BY Zenon, <1>1, <1>2, TransmitFrames
<1>5. CASE to = Size[e.pkt]
  <2>1. tx_pkt' = None
    BY <1>5 DEF Transmit
  <2> QED BY <1>1, <1>4, <1>5, <2>1
<1>6. CASE to # Size[e.pkt]
  <2>1. to < Size[e.pkt]
    BY <1>3, <1>6
  <2>2. tx_pkt' = [pkt |-> e.pkt, pos |-> to, set_dup |-> e.set_dup]
    BY <1>6 DEF Transmit
  <2>3. tx_pkt' \in TxPacket
    BY <1>1, <2>2 DEF TxPacket
  <2>4. tx_pkt' # None
    BY <2>3, NoneAssumption
  <2>5. tx_pkt'.pkt = e.pkt /\ tx_pkt'.set_dup = e.set_dup
    BY <2>2
  <2> QED BY <1>4, <2>1, <2>4, <2>5
<1> QED BY <1>5, <1>6

\* Each thing a step can do to the transmit path is a step of PacketStream.
LEMMA StreamRefines ==
    ASSUME TypeOK, TypeOK', ControlInv, BootInv, QueueIsAcceptedTail, StreamInv, StreamKinds
    PROVE  [Stream!Next]_(Stream!vars)
<1> DEFINE acc == accepted
           q == internal_pkt_queue
           e == [pkt |-> tx_pkt.pkt, set_dup |-> tx_pkt.set_dup]
<1>0. /\ accepted \in Seq(InternalPacket) /\ accepted' \in Seq(InternalPacket)
      /\ q \in Seq(InternalPacket) /\ q' \in Seq(InternalPacket)
  BY Zenon DEF TypeOK
<1>1. Len(acc) \in Nat /\ Len(q) \in Nat
  BY <1>0
<1>2. Behind \in Nat /\ Behind <= Len(acc)
  BY <1>1 DEF QueueIsAcceptedTail, Behind
<1>3. /\ tx_pkt = None => Backlog = q
      /\ tx_pkt' = None => Backlog' = q'
  BY <1>0, ConcatEmptySeq DEF Backlog
<1>4. ASSUME tx_pkt # None
      PROVE  /\ e \in InternalPacket /\ e.pkt = tx_pkt.pkt /\ e.set_dup = tx_pkt.set_dup
             /\ tx_pkt.pos \in Nat /\ tx_pkt.pos < Size[e.pkt]
             /\ Behind >= 1 /\ Backlog = <<e>> \o q
  <2>1. tx_pkt \in TxPacket
    BY Zenon, <1>4 DEF TypeOK
  <2>2. tx_pkt.pkt \in Packets /\ tx_pkt.set_dup \in BOOLEAN /\ tx_pkt.pos \in Nat
    BY <2>1 DEF TxPacket
  <2>3. Behind >= 1 /\ tx_pkt.pos < Size[tx_pkt.pkt]
    BY <1>4 DEF QueueIsAcceptedTail, Behind
  <2> QED BY <1>4, <2>2, <2>3 DEF InternalPacket, Backlog
<1>4a. ASSUME tx_pkt' # None, NEW f \in InternalPacket, tx_pkt'.pkt = f.pkt, tx_pkt'.set_dup = f.set_dup
       PROVE  Backlog' = <<f>> \o q'
  <2>1. f = [pkt |-> tx_pkt'.pkt, set_dup |-> tx_pkt'.set_dup]
    BY <1>4a DEF InternalPacket
  <2> QED BY <1>4a, <2>1 DEF Backlog
<1>5. CASE Still
  <2>1. Backlog' = Backlog /\ Frames' = Frames
    BY <1>5 DEF Still, Backlog, Frames
  <2>2. broken' = broken \/ (~broken /\ broken')
    <3>1. broken \in BOOLEAN /\ broken' \in BOOLEAN /\ (broken => broken')
      BY <1>5, Zenon DEF Still, TypeOK
    <3> QED BY <3>1
  <2>3. CASE broken' = broken
    BY <2>1, <2>3 DEF Stream!vars
  <2>4. CASE ~broken /\ broken'
    BY <2>1, <2>4 DEF Stream!Next, Stream!Break
  <2> QED BY <2>2, <2>3, <2>4
<1>6. CASE Begun \/ Continued
  <2>1. tx_pkt # None /\ UNCHANGED <<internal_pkt_queue, broken>> /\ ~broken /\ wire = Written
    BY Zenon, <1>6 DEF Begun, Continued, Writing, ControlInv, StreamInv, Lost
  <2>2. PICK to \in Nat : /\ tx_pkt.pos <= to /\ to <= Size[e.pkt]
                          /\ Transmit(e.pkt, e.set_dup, tx_pkt.pos, to)
    <3>1. CASE Begun
      <4>1. tx_pkt.pos = 0 /\ tx_pkt.set_dup = FALSE
        BY <3>1 DEF Begun, BootInv
      <4>2. PICK n \in 0..Size[tx_pkt.pkt] : Transmit(tx_pkt.pkt, FALSE, 0, n)
        BY Zenon, <3>1 DEF Begun, try_send_packet
      <4>3. n \in Nat /\ 0 <= n /\ n <= Size[tx_pkt.pkt]
        BY <4>2
      <4> QED BY Zenon, <1>4, <2>1, <4>1, <4>2, <4>3
    <3>2. CASE Continued
      <4>1. PICK n \in (tx_pkt.pos + 1)..Size[tx_pkt.pkt] :
              Transmit(tx_pkt.pkt, tx_pkt.set_dup, tx_pkt.pos, n)
        BY <3>2 DEF Continued
      <4>2. n \in Nat /\ tx_pkt.pos <= n /\ n <= Size[tx_pkt.pkt]
        BY <1>4, <2>1, <4>1
      <4> QED BY <1>4, <2>1, <4>1, <4>2
    <3> QED BY <1>6, <3>1, <3>2
  <2> DEFINE k == Behind - 1
  <2>3. k \in Nat /\ k + 1 <= Len(acc)
    BY <1>1, <1>2, <1>4, <2>1
  <2>4. wire = Encoding(acc, k) \o Slice(e.pkt, e.set_dup, 0, tx_pkt.pos)
    BY <1>4, <2>1 DEF Written
  <2> HIDE DEF k, e
  <2>5. \/ tx_pkt' = None /\ Frames' = Append(Frames, e)
        \/ /\ tx_pkt' # None /\ tx_pkt'.pkt = e.pkt /\ tx_pkt'.set_dup = e.set_dup
           /\ Frames' = Frames
    BY Zenon, <1>0, <1>4, <2>1, <2>2, <2>3, <2>4, TransmitKinds
  <2>6. e \in InternalPacket /\ Backlog = <<e>> \o q /\ q' = q
    BY <1>4, <2>1
  <2>7. Backlog # <<>> /\ Head(Backlog) = e /\ Tail(Backlog) = q
    BY <1>0, <2>6, Fronted
  <2>8. CASE tx_pkt' = None /\ Frames' = Append(Frames, e)
    <3>1. Stream!Emit
      BY Zenon, <1>3, <2>1, <2>6, <2>7, <2>8 DEF Stream!Emit
    <3> QED BY <3>1 DEF Stream!Next
  <2>9. CASE /\ tx_pkt' # None /\ tx_pkt'.pkt = e.pkt /\ tx_pkt'.set_dup = e.set_dup
             /\ Frames' = Frames
    <3>1. Backlog' = Backlog
      BY <1>4a, <2>6, <2>9
    <3> QED BY <2>1, <2>9, <3>1 DEF Stream!vars
  <2> QED BY <2>5, <2>8, <2>9
<1>7. CASE Popped
  <2> DEFINE f == Head(internal_pkt_queue)
  <2>1. /\ tx_pkt = None /\ UNCHANGED broken /\ ~broken /\ wire = Written
        /\ q # <<>> /\ q' = Tail(q)
    BY <1>7 DEF Popped, Writing, ControlInv, StreamInv, Lost
  <2>2. f \in InternalPacket /\ Len(q) >= 1
    BY <1>0, <2>1
  <2>3. f.pkt \in Packets /\ f.set_dup \in BOOLEAN
    BY <2>2 DEF InternalPacket
  <2>4. PICK n \in 0..Size[f.pkt] : Transmit(f.pkt, f.set_dup, 0, n)
    BY <1>7 DEF Popped, try_send_packet
  <2>5. n \in Nat /\ 0 <= n /\ n <= Size[f.pkt] /\ 0 \in Nat /\ 0 < Size[f.pkt]
    BY <2>3, <2>4, SizeAssumption
  <2> DEFINE k == Behind
  <2>6. k \in Nat /\ k + 1 <= Len(acc)
    BY <1>1, <1>2, <2>2 DEF Behind
  <2>7. wire = Encoding(acc, k)
    BY <2>1 DEF Written
  <2> HIDE DEF k, f
  <2>8. Encoding(acc, k) \in Seq(Bytes)
    BY <1>0, <2>6, EncodingType
  <2>9. wire = Encoding(acc, k) \o Slice(f.pkt, f.set_dup, 0, 0)
    BY <2>3, <2>7, <2>8, SliceNone
  <2>10. \/ tx_pkt' = None /\ Frames' = Append(Frames, f)
         \/ /\ tx_pkt' # None /\ tx_pkt'.pkt = f.pkt /\ tx_pkt'.set_dup = f.set_dup
            /\ Frames' = Frames
    BY Zenon, <1>0, <2>2, <2>4, <2>5, <2>6, <2>9, TransmitKinds
  <2>11. Backlog = q /\ <<f>> \o q' = q
    BY <1>0, <1>3, <2>1, Refront DEF f
  <2>12. CASE tx_pkt' = None /\ Frames' = Append(Frames, f)
    <3>1. Stream!Emit
      BY <1>3, <2>1, <2>11, <2>12 DEF Stream!Emit, f
    <3> QED BY <3>1 DEF Stream!Next
  <2>13. CASE /\ tx_pkt' # None /\ tx_pkt'.pkt = f.pkt /\ tx_pkt'.set_dup = f.set_dup
              /\ Frames' = Frames
    <3>1. Backlog' = Backlog
      BY <1>4a, <2>2, <2>11, <2>13
    <3> QED BY <2>1, <2>13, <3>1 DEF Stream!vars
  <2> QED BY <2>10, <2>12, <2>13
<1>8. ASSUME NEW p \in Packets, NEW dup \in BOOLEAN, Accepts(p, dup)
      PROVE  Stream!Next
  <2> DEFINE f == [pkt |-> p, set_dup |-> dup]
  <2>1. /\ f \in InternalPacket /\ f.pkt = p /\ f.set_dup = dup
        /\ accepted' = Append(acc, f) /\ queue_internal_packet(p, dup) /\ UNCHANGED broken
    BY <1>8 DEF Accepts, queue_internal_packet, InternalPacket
  <2>2. CASE tx_pkt # None
    <3>1. q' = Append(q, f) /\ UNCHANGED <<tx_pkt, wire>>
      BY <2>1, <2>2 DEF queue_internal_packet
    <3> HIDE DEF f, e
    <3>2. e \in InternalPacket /\ Backlog = <<e>> \o q /\ Backlog' = <<e>> \o q'
      BY <1>4, <1>4a, <2>2, <3>1
    <3>3. Backlog' = Append(Backlog, f) /\ Backlog # <<>> /\ Frames' = Frames
      BY <1>0, <2>1, <3>1, <3>2, Rear, Fronted DEF Frames
    <3>4. Stream!Accept(f)
      BY <2>1, <3>3 DEF Stream!Accept
    <3> QED BY <2>1, <3>4 DEF Stream!Next
  <2>3. CASE tx_pkt = None
    <3>1. try_send_packet(p, dup) /\ q' = q
      BY <2>1, <2>3 DEF queue_internal_packet
    <3>2. ~broken /\ pc # "pop"
      BY <1>8, <3>1 DEF try_send_packet, Accepts
    <3>3. q = <<>> /\ wire = Encoding(acc, Behind)
      BY <2>3, <3>2 DEF StreamInv, Lost, Written
    <3> DEFINE k == Len(acc)
               more == Append(acc, f)
    <3>4. Behind = k /\ k \in Nat
      BY <1>1, <3>3 DEF Behind
    <3> HIDE DEF f
    <3>5. /\ more \in Seq(InternalPacket) /\ k + 1 <= Len(more)
          /\ \A i \in 1..k : more[i] = acc[i]
      BY <1>0, <2>1
    <3> HIDE DEF more
    <3>6. Encoding(more, k) = Encoding(acc, k)
      BY <3>4, <3>5, EncodingSame
    <3>7. Encoding(more, k) \in Seq(Bytes)
      BY <3>4, <3>5, EncodingType
    <3>8. PICK n \in 0..Size[p] : Transmit(p, dup, 0, n)
      BY <3>1 DEF try_send_packet
    <3>9. n \in Nat /\ 0 <= n /\ n <= Size[p] /\ 0 \in Nat /\ 0 < Size[p]
      BY <3>8, SizeAssumption
    <3>10. wire = Encoding(more, k) \o Slice(p, dup, 0, 0)
      BY <3>3, <3>4, <3>6, <3>7, SliceNone
    <3>11. \/ tx_pkt' = None /\ Frames' = Append(Frames, f)
           \/ /\ tx_pkt' # None /\ tx_pkt'.pkt = f.pkt /\ tx_pkt'.set_dup = f.set_dup
              /\ Frames' = Frames
      BY Zenon, <2>1, <3>4, <3>5, <3>8, <3>9, <3>10, TransmitKinds
    <3>12. Backlog = <<>>
      BY <1>3, <2>3, <3>3
    <3>13. CASE tx_pkt' = None /\ Frames' = Append(Frames, f)
      <4>1. Backlog' = <<>>
        BY <1>3, <3>1, <3>3, <3>13
      <4>2. Stream!AcceptAndEmit(f)
        BY <2>1, <3>2, <3>12, <3>13, <4>1 DEF Stream!AcceptAndEmit
      <4> QED BY <2>1, <4>2 DEF Stream!Next
    <3>14. CASE /\ tx_pkt' # None /\ tx_pkt'.pkt = f.pkt /\ tx_pkt'.set_dup = f.set_dup
                /\ Frames' = Frames
      <4>1. Backlog' = <<f>> \o <<>>
        BY <1>4a, <2>1, <3>1, <3>3, <3>14
      <4>2. <<f>> \o <<>> = Append(<<>>, f)
        BY <2>1
      <4>3. Stream!Accept(f)
        BY <2>1, <3>2, <3>12, <3>14, <4>1, <4>2 DEF Stream!Accept
      <4> QED BY <2>1, <4>3 DEF Stream!Next
    <3> QED BY <3>11, <3>13, <3>14
  <2> QED BY <2>2, <2>3
<1>9. CASE Fails
  <2>1. Frames' = Frames /\ broken /\ broken' /\ tx_pkt' = None /\ Backlog' = q'
    BY <1>3, <1>9 DEF Fails, Lost, Frames
  <2>2. CASE UNCHANGED <<tx_pkt, internal_pkt_queue>>
    <3>1. Backlog' = Backlog
      BY <2>2 DEF Backlog
    <3> QED BY <1>9, <2>1, <3>1 DEF Fails, Stream!vars
  <2>3. CASE tx_pkt # None /\ UNCHANGED internal_pkt_queue
    <3> HIDE DEF e
    <3>1. Backlog # <<>> /\ Tail(Backlog) = q
      BY <1>0, <1>4, <2>3, Fronted
    <3>2. Stream!Lose
      BY <1>9, <2>1, <2>3, <3>1 DEF Stream!Lose, Fails
    <3> QED BY <3>2 DEF Stream!Next
  <2>4. CASE /\ tx_pkt = None /\ internal_pkt_queue # <<>>
             /\ internal_pkt_queue' = Tail(internal_pkt_queue)
    <3>1. Stream!Lose
      BY <1>3, <1>9, <2>1, <2>4 DEF Stream!Lose, Fails
    <3> QED BY <3>1 DEF Stream!Next
  <2> QED BY <1>9, <2>2, <2>3, <2>4 DEF Fails
<1> QED BY <1>5, <1>6, <1>7, <1>8, <1>9 DEF StreamKinds

\* The byte-level transmit path implements PacketStream, whatever the sizes
\* of the packets and the places where the transport cuts the writes.
THEOREM StreamImplemented == Spec => TransmitsInOrder
<1>1. Init => Stream!Init
  <2> SUFFICES ASSUME Init PROVE Stream!Init
    OBVIOUS
  <2> DEFINE e == [pkt |-> "CONNECT", set_dup |-> FALSE]
  <2>1. /\ tx_pkt \in TxPacket /\ tx_pkt.pkt = "CONNECT" /\ tx_pkt.set_dup = FALSE
        /\ internal_pkt_queue = <<>> /\ wire = <<>> /\ broken = FALSE
        /\ e \in InternalPacket
    BY DEF Init, TxPacket, Packets, InternalPacket
  <2>2. tx_pkt # None
    BY <2>1, NoneAssumption
  <2>3. Backlog = <<e>> \o <<>>
    BY Zenon, <2>1, <2>2 DEF Backlog
  <2> HIDE DEF e
  <2>4. <<e>> \o <<>> = <<e>>
    BY <2>1
  <2>5. Frames = <<>>
    <3>1. Reader(<<>>, 0) = Unread
      BY ReaderZero
    <3>2. Len(<<>>) = 0
      OBVIOUS
    <3> QED BY <2>1, <3>1, <3>2 DEF Frames, Unread
  <2> QED BY <2>1, <2>3, <2>4, <2>5 DEF Stream!Init
<1>2. TypeOK /\ TypeOK' /\ ControlInv /\ BootInv /\ QueueIsAcceptedTail /\ StreamInv /\ [Next]_vars
        => [Stream!Next]_(Stream!vars)
  BY StreamStep, StreamRefines
<1> QED
  BY <1>1, <1>2, ControlCorrect, BootCorrect, QueueCorrect, StreamCorrect, PTL
  DEF Spec, TransmitsInOrder, Stream!Spec

=============================================================================
