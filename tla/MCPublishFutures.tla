-------------------------- MODULE MCPublishFutures --------------------------
(* Instances of PublishFutures with one caller per notifier map.           *)
EXTENDS PublishFutures

MCAwait == [c \in Callers |-> CASE c = "a" -> "ack" [] c = "r" -> "rec" [] OTHER -> "comp"]

=============================================================================
