-------------------------- MODULE SubscriptionSet --------------------------
(***************************************************************************)
(* The tree of subscriptions of the transceiver task and the dispatching   *)
(* of messages through it (src/transceiver/subscription.rs), with the      *)
(* operations that process_packet and the command branch of task_step      *)
(* perform on it (src/transceiver/mod.rs).                                 *)
(*                                                                         *)
(* A topic is the sequence of its components, as TopicSlicer cuts it.  An  *)
(* entry of the tree is named by the path that leads to it, and the leaf   *)
(* any_recursive of a node by the path of the node followed by "#".  A     *)
(* listener is one lossy queue, one unbounded queue or one fast callback.  *)
(***************************************************************************)
EXTENDS Naturals, Sequences, FiniteSets, FiniteSetsExt, SequencesExt

CONSTANTS
    Patterns,       \* topics that are subscribed to
    Topics,         \* topics of messages
    Listeners,
    Kind,           \* Kind[l]: "lossy", "unbounded" or "callback"
    CallbackId,     \* CallbackId[l]: taken before the command is queued
    QueueCap,       \* capacity of the lossy queues
    MaxInbox        \* bound: messages a listener has not looked at

ASSUME ListenersAssumption ==
    /\ Kind \in [Listeners -> {"lossy", "unbounded", "callback"}]
    /\ CallbackId \in [Listeners -> Nat]
    /\ \A l, m \in Listeners : CallbackId[l] = CallbackId[m] => l = m
    /\ QueueCap \in Nat /\ MaxInbox \in Nat
    /\ <<>> \notin Patterns \cup Topics

VARIABLES
    entries,        \* paths of the entries of the tree
    subscribed,     \* leaves that have the flag
    queues,         \* lossy_queue and unbounded_queue of a leaf, by kind
    fast_callbacks, \* of a leaf
    asked,          \* subscriptions the broker has not granted yet
    inbox,          \* messages delivered to a listener and not looked at
    open            \* listeners whose receiving end exists

vars == <<entries, subscribed, queues, fast_callbacks, asked, inbox, open>>
leafvars == <<queues, fast_callbacks>>

Leaves == Patterns
QueueKinds == {"lossy", "unbounded"}

Init ==
    /\ entries = {}
    /\ subscribed = {}
    /\ queues = [p \in Leaves |-> [k \in QueueKinds |-> <<>>]]
    /\ fast_callbacks = [p \in Leaves |-> <<>>]
    /\ asked = {}
    /\ inbox = [l \in Listeners |-> 0]
    /\ open = Listeners

-----------------------------------------------------------------------------
(* Finding the leaf of a pattern.                                          *)

Upto(p, n) == SubSeq(p, 1, n)
Inner(p) == 1..(Len(p) - 1)

\* The walk stops at the first component that is "#" and not the last one,
\* and in `get` at the first that leads to no entry.
BadAt(p) == {i \in Inner(p) : p[i] = "#"}
MissingAt(p) == {i \in Inner(p) : Upto(p, i) \notin entries}

\* Whether `get` returns a Subscription object, nothing or Err.
get(p) ==
    LET stop == BadAt(p) \cup MissingAt(p) IN
    IF stop # {} THEN (IF Min(stop) \in BadAt(p) THEN "err" ELSE "none")
    ELSE IF Last(p) = "#" \/ p \in entries THEN "some" ELSE "none"

\* The entries `get_or_create` makes, whether or not it then returns Err.
get_or_create(p) ==
    LET end == IF BadAt(p) # {} THEN Min(BadAt(p)) - 1
               ELSE IF Last(p) = "#" THEN Len(p) - 1 ELSE Len(p)
    IN entries \cup {Upto(p, i) : i \in 1..end}

-----------------------------------------------------------------------------
(* Dispatching.                                                            *)

RECURSIVE NodeDispatchEager(_, _)
\* Fault: an entry hands the message to its leaf and to its children.
NodeDispatchEager(path, topic) ==
    LET Child(name) ==
            LET at == Append(path, name) IN
            IF at \notin entries THEN <<>>
            ELSE IF Len(topic) > 1 THEN <<at>> \o NodeDispatchEager(at, Tail(topic)) ELSE <<at>>
    IN <<Append(path, "#")>> \o Child("*") \o Child(Head(topic))

RECURSIVE NodeDispatch(_, _)
\* SubscriptionSetNode::dispatch and SubscriptionSetEntry::dispatch: the
\* leaves a message with this topic comes to below the node at `path`.
NodeDispatch(path, topic) ==
    LET Child(name) ==
            LET at == Append(path, name) IN
            IF at \notin entries THEN <<>>
            ELSE IF Len(topic) > 1 THEN NodeDispatch(at, Tail(topic)) ELSE <<at>>
    IN <<Append(path, "#")>> \o Child("*")
            \o (IF Head(topic) = "*" THEN <<>> ELSE Child(Head(topic)))

Visited(topic) == SelectSeq(NodeDispatch(<<>>, topic), LAMBDA p : p \in Leaves)

RECURSIVE PruneSkipping(_, _, _)
\* Fault: the element that swap_remove has moved is not looked at.
PruneSkipping(vec, i, gone) ==
    IF i > Len(vec) THEN [vec |-> vec, seen |-> <<>>]
    ELSE LET hit == vec[i] \in gone
             rest == PruneSkipping(IF hit THEN Front([vec EXCEPT ![i] = Last(vec)]) ELSE vec,
                                   i + 1, gone)
         IN [rest EXCEPT !.seen = <<vec[i]>> \o @]

RECURSIVE Prune(_, _, _)
\* prune: the vector without the queues in `gone`, each replaced by the last
\* element, and the queues that the predicate was called with.
Prune(vec, i, gone) ==
    IF i > Len(vec) THEN [vec |-> vec, seen |-> <<>>]
    ELSE LET hit == vec[i] \in gone
             rest == IF hit THEN Prune(Front([vec EXCEPT ![i] = Last(vec)]), i, gone)
                     ELSE Prune(vec, i + 1, gone)
         IN [rest EXCEPT !.seen = <<vec[i]>> \o @]

Pruned(p, k) == Prune(queues[p][k], 1, Listeners \ open)

\* How often Subscription::dispatch of leaf p sends the message to l: a queue
\* of kind lossy that is full is skipped.
Sends(p, l) ==
    LET calls == IF Kind[l] = "callback" THEN fast_callbacks[p]
                 ELSE Pruned(p, Kind[l]).seen
    IN IF l \in open /\ (Kind[l] = "lossy" => inbox[l] < QueueCap)
       THEN Cardinality({i \in DOMAIN calls : calls[i] = l}) ELSE 0

Dispatch(topic) ==
    /\ \A l \in Listeners : inbox[l] < MaxInbox
    /\ UNCHANGED <<entries, subscribed, fast_callbacks, asked, open>>
    /\ LET at == Visited(topic) IN
        /\ inbox' = [l \in Listeners |->
                inbox[l] + MapThenSumSet(LAMBDA i : Sends(at[i], l), DOMAIN at)]
        /\ queues' = [p \in Leaves |-> IF p \notin ToSet(at) THEN queues[p]
                                       ELSE [k \in QueueKinds |-> Pruned(p, k).vec]]

-----------------------------------------------------------------------------
(* Adding and removing listeners.                                          *)

\* Fault: callbacks are pushed in the order of their commands.
PushCallback(cbs, l) == Append(cbs, l)

\* The place of the callback follows from its id.
add_fast_callback(cbs, l) ==
    LET before == {i \in DOMAIN cbs : CallbackId[cbs[i]] < CallbackId[l]} IN
    IF cbs = <<>> \/ CallbackId[Last(cbs)] < CallbackId[l] THEN Append(cbs, l)
    ELSE IF l \in ToSet(cbs) THEN cbs
    ELSE InsertAt(cbs, Cardinality(before) + 1, l)

\* Subscription::add.
add(p, l) ==
    IF Kind[l] = "callback"
    THEN /\ fast_callbacks' = [fast_callbacks EXCEPT ![p] = add_fast_callback(@, l)]
         /\ UNCHANGED queues
    ELSE /\ queues' = [queues EXCEPT ![p][Kind[l]] = Append(@, l)]
         /\ UNCHANGED fast_callbacks

Has(p, l) == \/ l \in ToSet(fast_callbacks[p])
             \/ \E k \in QueueKinds : l \in ToSet(queues[p][k])
Unused(l) == (\A p \in Leaves : ~Has(p, l)) /\ (\A a \in asked : a.who # l)

\* The Subscribe command.
Subscribe(p, l) ==
    /\ Unused(l) /\ l \in open
    /\ \/ get(p) = "some" /\ p \in subscribed /\ add(p, l) /\ UNCHANGED asked
       \/ /\ get(p) = "none" \/ (get(p) = "some" /\ p \notin subscribed)
          /\ asked' = asked \cup {[topic |-> p, who |-> l]}
          /\ UNCHANGED leafvars
    /\ UNCHANGED <<entries, subscribed, inbox, open>>

\* SUBACK with a success.
Granted(a) ==
    /\ asked' = asked \ {a}
    /\ entries' = get_or_create(a.topic)
    /\ \/ BadAt(a.topic) = {} /\ subscribed' = subscribed \cup {a.topic} /\ add(a.topic, a.who)
       \/ BadAt(a.topic) # {} /\ UNCHANGED <<subscribed, leafvars>>
    /\ UNCHANGED <<inbox, open>>

\* SUBACK with a failure.
Refused(a) ==
    /\ asked' = asked \ {a}
    /\ UNCHANGED <<entries, subscribed, leafvars, inbox, open>>

\* UnsubKind::Immediate: SubscriptionSet::clear.
clear(p) ==
    /\ get(p) = "some" /\ p \in subscribed
    /\ subscribed' = subscribed \ {p}
    /\ queues' = [queues EXCEPT ![p] = [k \in QueueKinds |-> <<>>]]
    /\ fast_callbacks' = [fast_callbacks EXCEPT ![p] = <<>>]
    /\ UNCHANGED <<entries, asked, inbox, open>>

\* UnsubKind::FastCallback.
remove_fast_callback(p, l) ==
    /\ get(p) = "some" /\ l \in ToSet(fast_callbacks[p])
    /\ fast_callbacks' = [fast_callbacks EXCEPT ![p] = Remove(@, l)]
    /\ UNCHANGED <<entries, subscribed, queues, asked, inbox, open>>

\* The owner of a receiving end takes what is there, or drops it.
Look(l) ==
    /\ inbox[l] > 0
    /\ inbox' = [inbox EXCEPT ![l] = 0]
    /\ UNCHANGED <<entries, subscribed, leafvars, asked, open>>

Close(l) ==
    /\ Kind[l] # "callback" /\ l \in open /\ ~Unused(l)
    /\ open' = open \ {l}
    /\ inbox' = [inbox EXCEPT ![l] = 0]
    /\ UNCHANGED <<entries, subscribed, leafvars, asked>>

\* The steps about the patterns in P, the topics in T and the listeners in L.
Steps(P, T, L) ==
    \/ \E t \in T : Dispatch(t)
    \/ \E p \in P, l \in L : Subscribe(p, l) \/ remove_fast_callback(p, l)
    \/ \E a \in asked : Granted(a) \/ Refused(a)
    \/ \E p \in P : clear(p)
    \/ \E l \in L : Look(l) \/ Close(l)

Next == Steps(Patterns, Topics, Listeners)

Spec == Init /\ [][Next]_vars

-----------------------------------------------------------------------------
(* Properties.                                                             *)

\* What the wildcards mean: "*" stands for one component, "#" at the end for
\* one or more.
Matches(p, t) ==
    LET Fits(n) == \A i \in 1..n : p[i] \in {"*", t[i]} IN
    \/ Last(p) # "#" /\ Len(p) = Len(t) /\ Fits(Len(p))
    \/ Last(p) = "#" /\ Len(p) <= Len(t) /\ Fits(Len(p) - 1)

\* The walk of the tree comes to exactly the subscriptions whose pattern
\* matches the topic, to each of them once, whatever was subscribed to and
\* cleared before.
DispatchMatches ==
    \A t \in Topics :
        LET at == Visited(t) IN
        /\ \A i, j \in DOMAIN at : at[i] = at[j] => i = j
        /\ {p \in ToSet(at) : p \in subscribed} = {p \in subscribed : Matches(p, t)}

\* Every listener of a matching subscription gets the message once and the
\* others do not get it, although queues that are closed are taken out of the
\* vectors while these are walked; only lossy queues that are full miss it.
EachOnce ==
    [][\A t \in Topics : Dispatch(t) =>
        \A l \in Listeners : inbox'[l] =
            inbox[l] + (IF /\ \E p \in subscribed : Matches(p, t) /\ Has(p, l)
                           /\ l \in open
                           /\ Kind[l] = "lossy" => inbox[l] < QueueCap
                        THEN 1 ELSE 0)]_vars

\* The callbacks of a leaf are ordered by their ids, which the binary search
\* of remove_fast_callback relies on, although ids are taken before the
\* commands are queued.
CallbacksSorted ==
    \A p \in Leaves : \A i, j \in DOMAIN fast_callbacks[p] :
        i < j => CallbackId[fast_callbacks[p][i]] < CallbackId[fast_callbacks[p][j]]

\* A pattern with a "#" before its end is refused by `get` ("Err(()) if the
\* topic pattern is invalid"), so that the broker is never asked for it.  Does
\* not hold: `get` stops at the first missing entry.
InvalidRejected == \A a \in asked : BadAt(a.topic) = {}

=============================================================================
