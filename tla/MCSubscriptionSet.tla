------------------------- MODULE MCSubscriptionSet -------------------------
(* An instance of SubscriptionSet that is bounded to two parts of its      *)
(* states: one listener on many patterns, and many listeners on one        *)
(* pattern.                                                                *)
EXTENDS SubscriptionSet

SomePatterns == {<<"a">>, <<"*">>, <<"#">>, <<"a", "b">>, <<"*", "b">>, <<"a", "#">>, <<"a", "*", "b">>,
                 <<"a", "#", "b">>}
SomeTopics == {<<"a">>, <<"b">>, <<"*">>, <<"b", "b">>, <<"a", "*">>, <<"a", "a", "b">>}

MCKind == [l \in Listeners |-> CASE l \in {"u1", "u2", "u3"} -> "unbounded"
                                  [] l \in {"l1", "l2"} -> "lossy"
                                  [] OTHER -> "callback"]
MCCallbackId == [l \in Listeners |-> CASE l = "u1" -> 1 [] l = "u2" -> 2 [] l = "u3" -> 3
                                        [] l = "l1" -> 4 [] l = "l2" -> 5
                                        [] l = "c1" -> 6 [] l = "c2" -> 7 [] OTHER -> 8]

OneListener == \A l \in Listeners \ {"c1"} : Unused(l) /\ inbox[l] = 0 /\ l \in open
OnePattern ==
    /\ subscribed \subseteq {<<"a">>} /\ entries \subseteq {<<"a">>}
    /\ \A a \in asked : a.topic = <<"a">>

MCNext ==
    \/ OneListener /\ Steps(Patterns, Topics, {"c1"})
    \/ OnePattern /\ Steps({<<"a">>}, {<<"a">>}, Listeners)

MCSpec == Init /\ [][MCNext]_vars

=============================================================================
