--------------------------- MODULE MCQueueCleanup ---------------------------
(* Bounded instances of QueueCleanup for TLC. *)
EXTENDS QueueCleanup, TLC, FiniteSets

NoFailures == {}

\* The credentials are refused.  Any other response does to the session what
\* NoReply or the factory's own 500 do, which are always in Rejections.
Unauthorized == {[status |-> 401, object |-> FALSE]}

\* Bound: nothing tells a queue that others use from one that is gone.
FewStates == \A b \in Brokers, q \in Queues : queues[b][q] # "used"

\* The queues that a broker has, that a run deals with, that the screen names.
InPlay ==
    {q \in Queues :
        \/ \E b \in Brokers : queues[b][q] # "absent"
        \/ \E v \in Visits : q \in names[v] \cup todo[v] \cup {name[v]}
        \/ q \in {currentQueue, single.asked, single.name}}

\* Bound: once there are two scopes, one queue is in play at a time.
OneQueue == Cardinality(InPlay) <= 1

\* Bound: the stomp-only mode is entered before the first run only, the timer
\* started again between runs only.
RunInSession ==
    /\ session'.stompOnly =>
          (session.stompOnly \/ \A v \in Visits : phase[v] = "off" /\ names[v] = {})
    /\ (session'.timer /\ ~session.timer) =>
          \A v \in Visits : ~deletingUnusedQueues(v)

\* Bound: with two scopes, or during a single deletion, the session is moved
\* from outside only by a failing call or the logout.
Calm ==
    UNCHANGED <<runVars, single>> =>
        \/ \E f \in Rejections : session' = AfterApiError(session, f)
        \/ session' = [session EXCEPT !.connected = FALSE, !.timer = FALSE]

\* No step of a run, which Fairness speaks of, is held up by a bound.
BoundedInit == Init /\ FewStates

BoundedNext ==
    /\ Next
    /\ FewStates'
    /\ RunInSession
    /\ visit' > 1 => OneQueue'
    /\ visit > 1 \/ single.phase # "off" => Calm

BoundedSpec == BoundedInit /\ [][BoundedNext]_vars /\ Fairness
=============================================================================
