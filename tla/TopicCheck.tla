----------------------------- MODULE TopicCheck -----------------------------
(***************************************************************************)
(* TopicCleanup with three history variables that say what was so while the  *)
(* two reads of a re-check were under way.                                 *)
(***************************************************************************)
EXTENDS TopicCleanup

VARIABLES
    kept,   \* per scope: topics with a durable subscription at every moment
            \* since the check was issued
    manned, \* per scope: topics with a consumer at every moment since
    lull    \* per scope: topics without a consumer or durable subscription
            \* at some moment since

checkHistory == <<kept, manned, lull>>

Consumed(b) == {t \in Topics : topics[b][t] \in {"consumed", "durable"}}

AtRest(b) == {t \in Topics : topics[b][t] \in {"absent", "unused"}}

CheckInit ==
    /\ Init
    /\ kept = [v \in Visits |-> {}]
    /\ manned = [v \in Visits |-> {}]
    /\ lull = [v \in Visits |-> {}]

\* The re-check of scope v is issued in this step, or was before and is not
\* answered in full, nor given up in this step.
Issued(v)   == phase[v] # "checking" /\ phase'[v] = "checking"
UnderWay(v) == phase[v] = "checking" /\ waiting[v] # {} /\ phase'[v] = "checking"

Remember ==
    /\ kept' = [v \in Visits |->
                 CASE Issued(v)   -> Protected(asked[v])'
                   [] UnderWay(v) -> kept[v] \cap Protected(asked[v])'
                   [] OTHER       -> kept[v]]
    /\ manned' = [v \in Visits |->
                   CASE Issued(v)   -> Consumed(asked[v])'
                     [] UnderWay(v) -> manned[v] \cap Consumed(asked[v])'
                     [] OTHER       -> manned[v]]
    /\ lull' = [v \in Visits |->
                 CASE Issued(v)   -> AtRest(asked[v])'
                   [] UnderWay(v) -> lull[v] \cup AtRest(asked[v])'
                   [] OTHER       -> lull[v]]

CheckSpec == CheckInit /\ [][Next /\ Remember]_<<vars, checkHistory>>

FairCheckSpec == CheckSpec /\ Fairness

(***************************************************************************)
(* Properties.                                                             *)
(***************************************************************************)

\* A durable subscription that exists throughout the re-check protects its
\* topic, connected or not, and so do consumers that are there throughout,
\* whatever the order in which the broker answers the two reads and whatever
\* else its clients do between them.
OccupiedKept ==
    \A v \in Visits :
        phase[v] = "deleting" => eligible[v] \cap (kept[v] \cup manned[v]) = {}

\* "excludes ... topics with subscriptions, and topics with active or inactive
\* durable subscriptions ... After confirmation, eligibility is checked again"
\* (README.md): a topic found eligible was so at some moment of the check.
EligibleWasUnused ==
    \A v \in Visits : phase[v] = "deleting" => eligible[v] \subseteq lull[v]
=============================================================================
