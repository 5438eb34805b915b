---------------------------- MODULE MCTopicCheck ----------------------------
(* Bounded instances of TopicCheck for TLC. *)
EXTENDS TopicCheck, TLC

NoFailures == {}

\* Topics with and without durable subscriptions.
DurableStates == {"absent", "unused", "consumed", "offline", "durable"}
=============================================================================
