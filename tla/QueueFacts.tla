---------------------------- MODULE QueueFacts ----------------------------
(***************************************************************************)
(* Facts that several proofs need.  Sequences used as queues: what is in   *)
(* them when an element is taken from the front or added at the back.      *)
(***************************************************************************)
EXTENDS Naturals, Sequences, TLAPS

Elems(q) == {q[i] : i \in DOMAIN q}

\* A sequence with one element replaced.
LEMMA Overwritten ==
    ASSUME NEW S, NEW s \in Seq(S), NEW i \in 1..Len(s), NEW e \in S
    PROVE  [s EXCEPT ![i] = e] \in Seq(S) /\ Len([s EXCEPT ![i] = e]) = Len(s)
  OBVIOUS

\* What is in a queue after an element was taken from it.
LEMMA Taken ==
    ASSUME NEW S, NEW q \in Seq(S), q # <<>>
    PROVE  /\ Head(q) \in S /\ Tail(q) \in Seq(S) /\ Len(Tail(q)) <= Len(q)
           /\ Elems(q) = {Head(q)} \cup Elems(Tail(q))
  <1>1. Head(q) \in S /\ Tail(q) \in Seq(S) /\ Len(Tail(q)) = Len(q) - 1 /\ Len(q) \in Nat \ {0}
    OBVIOUS
  <1>2. DOMAIN q = 1..Len(q) /\ DOMAIN Tail(q) = 1..(Len(q) - 1) /\ Head(q) = q[1]
    OBVIOUS
  <1>3. \A i \in 1..(Len(q) - 1) : Tail(q)[i] = q[i + 1]
    OBVIOUS
  <1>4. ASSUME NEW x \in Elems(Tail(q)) PROVE x \in Elems(q)
    <2>1. PICK i \in 1..(Len(q) - 1) : Tail(q)[i] = x
      BY <1>2 DEF Elems
    <2>2. i + 1 \in DOMAIN q /\ q[i + 1] = x
      BY <2>1, <1>1, <1>2, <1>3
    <2> QED BY <2>2 DEF Elems
  <1>5. ASSUME NEW x \in Elems(q), x # Head(q) PROVE x \in Elems(Tail(q))
    <2>1. PICK i \in 1..Len(q) : q[i] = x
      BY <1>2 DEF Elems
    <2>2. i # 1
      BY <2>1, <1>5, <1>2
    <2>3. i - 1 \in 1..(Len(q) - 1) /\ (i - 1) + 1 = i
      BY <2>2, <1>1
    <2>4. i - 1 \in DOMAIN Tail(q) /\ Tail(q)[i - 1] = x
      BY <2>1, <2>3, <1>2, <1>3
    <2> QED BY Zenon, <2>4 DEF Elems
  <1>6. Head(q) \in Elems(q)
    BY <1>1, <1>2 DEF Elems
  <1> QED BY <1>1, <1>4, <1>5, <1>6

\* What is in a queue after an element was added to it.
LEMMA Added ==
    ASSUME NEW S, NEW q \in Seq(S), NEW y \in S
    PROVE  /\ Append(q, y) \in Seq(S) /\ Len(Append(q, y)) = Len(q) + 1
           /\ Elems(Append(q, y)) = Elems(q) \cup {y}
  <1>1. /\ Append(q, y) \in Seq(S) /\ Len(Append(q, y)) = Len(q) + 1 /\ Len(q) \in Nat
        /\ DOMAIN q = 1..Len(q) /\ DOMAIN Append(q, y) = 1..(Len(q) + 1)
    OBVIOUS
  <1>2. /\ Append(q, y)[Len(q) + 1] = y
        /\ \A i \in 1..Len(q) : Append(q, y)[i] = q[i]
    OBVIOUS
  <1>3. ASSUME NEW x \in Elems(Append(q, y)), x # y PROVE x \in Elems(q)
    <2>1. PICK i \in 1..(Len(q) + 1) : Append(q, y)[i] = x
      BY <1>1 DEF Elems
    <2>2. i \in 1..Len(q)
      BY <2>1, <1>1, <1>2, <1>3
    <2>3. i \in DOMAIN q /\ q[i] = x
      BY <2>1, <2>2, <1>1, <1>2
    <2> QED BY <2>3 DEF Elems
  <1>4. ASSUME NEW x \in Elems(q) PROVE x \in Elems(Append(q, y))
    <2>1. PICK i \in 1..Len(q) : q[i] = x
      BY <1>1 DEF Elems
    <2>2. i \in DOMAIN Append(q, y) /\ Append(q, y)[i] = x
      BY <2>1, <1>1, <1>2
    <2> QED BY <2>2 DEF Elems
  <1>5. y \in Elems(Append(q, y))
    <2>1. Len(q) + 1 \in DOMAIN Append(q, y)
      BY <1>1
    <2> QED BY <2>1, <1>2 DEF Elems
  <1> QED BY <1>1, <1>3, <1>4, <1>5

=============================================================================
