--------------------------- MODULE SubscriberCheck ---------------------------
(***************************************************************************)
(* "Check subscribers": one read per subscriber that refreshTopics found,  *)
(* all at once; every answer adds a row to subscriberTesterList.  The list *)
(* is emptied when a check begins, the answers of an earlier one are not   *)
(* told apart, and meanwhile refreshTopics replaces the subscribers.       *)
(*                                                                         *)
(* The order of the rows, the counters they show and the verdict made of   *)
(* them are not represented, nor are the reads that refreshTopics makes    *)
(* of durable subscribers itself, which add no rows.                       *)
(***************************************************************************)
EXTENDS ConsoleSession

CONSTANTS
    Subscribers,
    MaxRows       \* bound on the rows and reads of one subscriber

ASSUME MaxRowsAssumption == MaxRows \in Nat

VARIABLES
    topicSubscribers,
    subscriberTesterVisible,  \* hides the button, shows the list
    asking,                   \* the question whether to go on is on screen
    subscriberTesterList,     \* per subscriber, its rows
    detailReads,              \* per subscriber, the reads outstanding
    checked,                  \* history: the subscribers of the last check
    undisturbed               \* history: no earlier check was under way when
                              \* it began, and none of its reads has failed

checkVars == <<topicSubscribers, subscriberTesterVisible, asking,
               subscriberTesterList, detailReads, checked, undisturbed>>

CheckTypeOK ==
    /\ topicSubscribers \subseteq Subscribers
    /\ subscriberTesterVisible \in BOOLEAN
    /\ asking \in BOOLEAN
    /\ subscriberTesterList \in [Subscribers -> Nat]
    /\ detailReads \in [Subscribers -> Nat]
    /\ checked \subseteq Subscribers
    /\ undisturbed \in BOOLEAN

CheckInit ==
    /\ topicSubscribers = {}
    /\ subscriberTesterVisible = FALSE
    /\ asking = FALSE
    /\ subscriberTesterList = [s \in Subscribers |-> 0]
    /\ detailReads = [s \in Subscribers |-> 0]
    /\ checked = {}
    /\ undisturbed = TRUE

\* Success of refreshTopics, whenever the session reads its lists.
TopicsRead ==
    /\ ListRead
    /\ topicSubscribers' \in SUBSET Subscribers
    /\ UNCHANGED <<subscriberTesterVisible, asking, subscriberTesterList,
                   detailReads, checked, undisturbed>>

AskToCheck ==
    /\ OnTabs
    /\ ~subscriberTesterVisible
    /\ ~asking
    /\ asking' = TRUE
    /\ UNCHANGED <<sessionVars, topicSubscribers, subscriberTesterVisible,
                   subscriberTesterList, detailReads, checked, undisturbed>>

DoNotCheck ==
    /\ asking
    /\ asking' = FALSE
    /\ UNCHANGED <<sessionVars, topicSubscribers, subscriberTesterVisible,
                   subscriberTesterList, detailReads, checked, undisturbed>>

\* What a check changes besides the list.
AskForAll ==
    /\ asking
    /\ asking' = FALSE
    /\ \A s \in Subscribers : detailReads[s] < MaxRows
    /\ subscriberTesterVisible' = TRUE
    /\ detailReads' = [s \in Subscribers |->
           IF s \in topicSubscribers THEN detailReads[s] + 1 ELSE detailReads[s]]
    /\ checked' = topicSubscribers
    /\ undisturbed' = (detailReads = [s \in Subscribers |-> 0])
    /\ UNCHANGED <<sessionVars, topicSubscribers>>

\* Mutant of CheckSubscribers: the rows of the last check are kept.
CheckMore == AskForAll /\ UNCHANGED subscriberTesterList

CheckSubscribers ==
    /\ AskForAll
    /\ subscriberTesterList' = [s \in Subscribers |-> 0]

CloseCheckSubscribers ==
    /\ OnTabs
    /\ subscriberTesterVisible
    /\ ~asking
    /\ subscriberTesterVisible' = FALSE
    /\ UNCHANGED <<sessionVars, topicSubscribers, asking, subscriberTesterList,
                   detailReads, checked, undisturbed>>

Answered(s) ==
    /\ detailReads[s] > 0
    /\ detailReads' = [detailReads EXCEPT ![s] = @ - 1]
    /\ UNCHANGED <<target, connecting, busy, topicSubscribers, asking,
                   subscriberTesterVisible, checked>>

SubscriberRead(s) ==
    /\ Answered(s)
    /\ subscriberTesterList[s] < MaxRows
    /\ subscriberTesterList' = [subscriberTesterList EXCEPT ![s] = @ + 1]
    /\ UNCHANGED <<session, undisturbed>>

\* An answer without a value makes the callback throw before it adds a row.
SubscriberMissing(s) ==
    /\ Answered(s)
    /\ undisturbed' = FALSE
    /\ UNCHANGED <<session, subscriberTesterList>>

SubscriberFailed(s, f) ==
    /\ Answered(s)
    /\ undisturbed' = FALSE
    /\ session' = AfterApiError(session, f)
    /\ UNCHANGED subscriberTesterList

CheckStep ==
    \/ TopicsRead
    \/ AskToCheck \/ DoNotCheck \/ CheckSubscribers \/ CloseCheckSubscribers
    \/ \E s \in Subscribers : SubscriberRead(s) \/ SubscriberMissing(s)
    \/ \E s \in Subscribers, f \in Failures \cup {NoReply} : SubscriberFailed(s, f)

(***************************************************************************)
(* Property.                                                               *)
(***************************************************************************)

\* Unless a read failed, or answers of an earlier check were still to come
\* when it began, every subscriber of the last check has its row or its read
\* outstanding, once, and nobody else has, however often the subscribers were
\* replaced and the list was closed and opened since.
CheckIsComplete ==
    undisturbed =>
        \A s \in Subscribers :
            subscriberTesterList[s] + detailReads[s]
                = IF s \in checked THEN 1 ELSE 0
=============================================================================
