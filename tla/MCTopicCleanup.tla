--------------------------- MODULE MCTopicCleanup ---------------------------
(* Bounded instances of TopicCleanup for TLC. *)
EXTENDS TopicCleanup, TLC, FiniteSets

\* The credentials are refused, the broker or the proxy reports an error.
SomeFailures ==
    {[status |-> 401, object |-> FALSE], [status |-> 502, object |-> TRUE]}

\* A topic that others use is skipped like one that is gone.
FewStates == {"absent", "unused"}

TopicSymmetry == Permutations(Topics)

\* The topics that a broker has, that a run deals with, that the screen names.
InPlay ==
    {t \in Topics :
        \/ \E b \in Brokers : topics[b][t] # "absent"
        \/ \E v \in Visits : t \in names[v] \cup todo[v] \cup {name[v]}
        \/ t \in {currentTopic, single.asked, single.name}}

\* Bound: runs of two visits overlap over one topic at a time, while the tabs
\* stay open and the timer is off.
SmallOverlap ==
    /\ OnTabs
    /\ ~session.timer
    /\ Cardinality(InPlay) <= 1

BoundedNext == Next /\ (visit' > 1 => SmallOverlap')

BoundedSpec == Init /\ [][BoundedNext]_vars
=============================================================================
