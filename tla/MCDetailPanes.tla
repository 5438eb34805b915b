---------------------------- MODULE MCDetailPanes ----------------------------
(* Bounded instances of DetailPanes for TLC. *)
EXTENDS DetailPanes, TLC, FiniteSets

NoFailures == {}

PaneSymmetry == Permutations(Queues)

\* Bound: one pane is used, the others are as they were at the start.
BrowserUsed    == ~BrowserInit \/ \E m \in Messages : life[m] # "coming"
ConnectionUsed == ~ConnectionInit
CheckUsed      == ~CheckInit

OnePane ==
    /\ ~(BrowserUsed /\ (ConnectionUsed \/ CheckUsed))
    /\ ~(ConnectionUsed /\ CheckUsed)

\* Bound: on the Queues tab a second visit, a second browse and a deletion take
\* place while the tabs stay open, the timer is off and the broker information
\* is not being read.
Crowded ==
    \/ visit > 1
    \/ Cardinality({s \in Slots : browses[s] # NoBrowse}) > 1
    \/ deletion # NoDeletion

Settled == OnTabs /\ session.loginok /\ ~session.timer /\ ~connecting

BoundedNext ==
    /\ Next
    /\ OnePane'
    /\ Crowded' => Settled'

BoundedSpec == Init /\ [][BoundedNext]_vars
=============================================================================
