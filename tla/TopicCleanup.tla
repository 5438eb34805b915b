---------------------------- MODULE TopicCleanup ----------------------------
(***************************************************************************)
(* Deleting topics from the Topics tab: "Delete topics without consumers"  *)
(* (deleteUnusedTopics) and the Delete button of the details               *)
(* (deleteTopic), with the calls of AMQInfoFact.js they are made of, in    *)
(* the session of ConsoleSession.                                          *)
(*                                                                         *)
(* Unlike the queues, the topics are checked once, after the confirmation, *)
(* and the check (getUnusedTopics) is made of two concurrent reads: the    *)
(* topics with their consumers, and the broker information with its        *)
(* durable subscriptions, which protect a topic also while nobody is       *)
(* connected.  The broker may answer the two at different times.           *)
(*                                                                         *)
(* Not represented: texts, what else is known of a topic, advisory topics  *)
(* (never eligible), the order of the names (any order is considered).     *)
(***************************************************************************)
EXTENDS ConsoleSession

CONSTANTS
    Topics,      \* names of topics
    NoTopic,
    TopicStates, \* what the clients make of a topic (bound)
    MaxVisits,   \* bound on the times the Topics tab is opened
    UseSingle    \* whether the Delete button of the details is used; bound:
                 \* one such deletion at a time

ASSUME NoTopicAssumption == NoTopic \notin Topics
ASSUME MaxVisitsAssumption == MaxVisits \in Nat \ {0}
ASSUME UseSingleAssumption == UseSingle \in BOOLEAN

\* "offline": no consumer, but a durable subscription whose client is away;
\* "durable": a consumer and a durable subscription.
ASSUME TopicStatesAssumption ==
    /\ TopicStates \subseteq {"absent", "unused", "consumed", "offline", "durable"}
    /\ "absent" \in TopicStates

Visits == 1..MaxVisits   \* each one a scope of TopicsCtrl
Reads == {"topics", "info"}

VARIABLES
    topics,        \* per broker and name: its state
    visit,         \* the scope on screen
    currentTopic,  \* amqInfo.currentTopic, shared by all scopes
    phase,         \* per scope: where its deleteUnusedTopics is
    names,         \* ... the names agreed to
    todo,          \* ... the names offered for agreement, then those to come
    name,          \* ... the name being deleted
    asked,         \* ... the broker its outstanding requests address
    waiting,       \* ... the reads of its check the broker has not processed
    free,          \* ... the topics read without consumers
    protected,     \* ... the topics read with durable subscriptions
    eligible,      \* ... the topics found eligible after the confirmation
    served,        \* ... the broker has processed the outstanding deletion
    deleted, skipped, failed,
    removals,      \* history: the names the broker removed for the run
    single         \* the single deletion: its phase, the name in the dialog,
                   \* the name posted, the broker it is posted to, and
                   \* whether that broker has processed it

checkVars == <<asked, waiting, free, protected>>
resultVars == <<deleted, skipped, failed>>
planVars == <<phase, names, todo, name, eligible, served>>
runVars == <<planVars, checkVars, resultVars, removals>>
vars == <<sessionVars, topics, visit, currentTopic, runVars, single>>

Phases == {"off", "listing", "confirming", "checking", "deleting"}

ScreenTypeOK ==
    /\ topics \in [Brokers -> [Topics -> TopicStates]]
    /\ visit \in Visits
    /\ currentTopic \in Topics \cup {NoTopic}
    /\ single \in [phase : {"off", "confirming", "deleting"},
                   asked : Topics \cup {NoTopic},
                   name : Topics \cup {NoTopic},
                   to : Brokers \cup {Unset},
                   served : BOOLEAN]

ChainTypeOK ==
    /\ phase \in [Visits -> Phases]
    /\ todo \in [Visits -> SUBSET Topics]
    /\ name \in [Visits -> Topics \cup {NoTopic}]
    /\ asked \in [Visits -> Brokers \cup {Unset}]
    /\ waiting \in [Visits -> SUBSET Reads]
    /\ free \in [Visits -> SUBSET Topics]
    /\ protected \in [Visits -> SUBSET Topics]
    /\ eligible \in [Visits -> SUBSET Topics]
    /\ served \in [Visits -> BOOLEAN]

ResultTypeOK ==
    /\ names \in [Visits -> SUBSET Topics]
    /\ deleted \in [Visits -> SUBSET Topics]
    /\ skipped \in [Visits -> SUBSET Topics]
    /\ failed \in [Visits -> SUBSET Topics]
    /\ removals \in [Visits -> SUBSET Topics]

\* A run that waits for an answer has an addressee, and a name to delete.
AtHand(v) ==
    /\ phase[v] \in {"listing", "checking", "deleting"} => asked[v] \in Brokers
    /\ phase[v] = "deleting" => name[v] \in Topics

TypeOK ==
    /\ SessionTypeOK
    /\ ScreenTypeOK
    /\ ChainTypeOK
    /\ ResultTypeOK
    /\ \A v \in Visits : AtHand(v)

NoSingle == [phase |-> "off", asked |-> NoTopic, name |-> NoTopic,
             to |-> Unset, served |-> FALSE]

Init ==
    /\ SessionInit
    /\ topics \in [Brokers -> [Topics -> TopicStates]]
    /\ visit = 1
    /\ currentTopic = NoTopic
    /\ phase = [v \in Visits |-> "off"]
    /\ names = [v \in Visits |-> {}]
    /\ todo = [v \in Visits |-> {}]
    /\ name = [v \in Visits |-> NoTopic]
    /\ asked = [v \in Visits |-> Unset]
    /\ waiting = [v \in Visits |-> {}]
    /\ free = [v \in Visits |-> {}]
    /\ protected = [v \in Visits |-> {}]
    /\ eligible = [v \in Visits |-> {}]
    /\ served = [v \in Visits |-> FALSE]
    /\ deleted = [v \in Visits |-> {}]
    /\ skipped = [v \in Visits |-> {}]
    /\ failed = [v \in Visits |-> {}]
    /\ removals = [v \in Visits |-> {}]
    /\ single = NoSingle

(***************************************************************************)
(* Guards and parts of actions.                                            *)
(***************************************************************************)

\* A $confirm dialog is modal: the page behind it takes no clicks.
DialogOpen == single.phase = "confirming" \/ \E v \in Visits : phase[v] = "confirming"

UserCanAct == OnTabs /\ ~DialogOpen

deletingUnusedTopics(v) == phase[v] # "off"

Free(b)      == {t \in Topics : topics[b][t] \in {"unused", "offline"}}
Protected(b) == {t \in Topics : topics[b][t] \in {"offline", "durable"}}
Removed(b, t) == [topics EXCEPT ![b][t] = "absent"]

\* getUnusedTopics: two reads of the broker that the URLs address now.
getUnusedTopics(v) ==
    /\ asked' = [asked EXCEPT ![v] = target]
    /\ waiting' = [waiting EXCEPT ![v] = Reads]
    /\ free' = [free EXCEPT ![v] = {}]
    /\ protected' = [protected EXCEPT ![v] = {}]

\* ... and what it returns when both have been answered.
unusedTopics(v) == free[v] \ protected[v]

Checked(v) == phase[v] \in {"listing", "checking"} /\ waiting[v] = {}

\* The check is over and forgotten; the request that follows goes to b.
CheckDone(v, b) ==
    /\ asked' = [asked EXCEPT ![v] = b]
    /\ waiting' = [waiting EXCEPT ![v] = {}]
    /\ free' = [free EXCEPT ![v] = {}]
    /\ protected' = [protected EXCEPT ![v] = {}]

\* finally: whatever ended the run, its scope can start another.
Close(v) ==
    /\ phase' = [phase EXCEPT ![v] = "off"]
    /\ todo' = [todo EXCEPT ![v] = {}]
    /\ name' = [name EXCEPT ![v] = NoTopic]
    /\ eligible' = [eligible EXCEPT ![v] = {}]
    /\ served' = [served EXCEPT ![v] = FALSE]
    /\ CheckDone(v, Unset)

\* Mutant of Delete: the name of another link is used.
DeleteNameless(v, t, before, found) ==
    /\ phase' = [phase EXCEPT ![v] = "deleting"]
    /\ todo' = [todo EXCEPT ![v] = @ \ (before \cup {t})]
    /\ skipped' = [skipped EXCEPT ![v] = @ \cup before]
    /\ eligible' = [eligible EXCEPT ![v] = found]
    /\ served' = [served EXCEPT ![v] = FALSE]
    /\ CheckDone(v, target)
    /\ UNCHANGED <<connecting, busy, name>>

\* The next link that deletes: the names before it in the chain are skipped
\* at once, deleteTopic(t, null, true) is posted.
Delete(v, t, before, found) ==
    /\ phase' = [phase EXCEPT ![v] = "deleting"]
    /\ name' = [name EXCEPT ![v] = t]
    /\ todo' = [todo EXCEPT ![v] = @ \ (before \cup {t})]
    /\ skipped' = [skipped EXCEPT ![v] = @ \cup before]
    /\ eligible' = [eligible EXCEPT ![v] = found]
    /\ served' = [served EXCEPT ![v] = FALSE]
    /\ CheckDone(v, target)
    /\ UNCHANGED <<connecting, busy>>

\* No link is left that deletes: the rest is skipped, refreshAll is called.
Finish(v) ==
    /\ skipped' = [skipped EXCEPT ![v] = @ \cup todo[v]]
    /\ Close(v)
    /\ RefreshAll

\* The chain goes on, given the topics the check found.
Continue(v, found) ==
    \/ \E t \in todo[v] \cap found, before \in SUBSET (todo[v] \ found) :
          Delete(v, t, before, found)
    \/ /\ todo[v] \cap found = {}
       /\ Finish(v)

(***************************************************************************)
(* deleteUnusedTopics.                                                     *)
(***************************************************************************)

StartRun ==
    /\ UserCanAct
    /\ ~deletingUnusedTopics(visit)
    /\ phase' = [phase EXCEPT ![visit] = "listing"]
    /\ getUnusedTopics(visit)
    /\ UNCHANGED <<sessionVars, topics, visit, currentTopic, names, todo, name,
                   eligible, served, resultVars, removals, single>>

\* The candidates have come: with none the run is over, else it asks.
Listed(v) ==
    /\ Checked(v)
    /\ phase[v] = "listing"
    /\ IF unusedTopics(v) = {}
       THEN Close(v)
       ELSE /\ phase' = [phase EXCEPT ![v] = "confirming"]
            /\ todo' = [todo EXCEPT ![v] = unusedTopics(v)]
            /\ CheckDone(v, Unset)
            /\ UNCHANGED <<name, eligible, served>>
    /\ UNCHANGED <<sessionVars, topics, visit, currentTopic, names, resultVars,
                   removals, single>>

Confirm(v) ==
    /\ phase[v] = "confirming"
    /\ phase' = [phase EXCEPT ![v] = "checking"]
    /\ names' = [names EXCEPT ![v] = todo[v]]
    /\ deleted' = [deleted EXCEPT ![v] = {}]
    /\ skipped' = [skipped EXCEPT ![v] = {}]
    /\ failed' = [failed EXCEPT ![v] = {}]
    /\ removals' = [removals EXCEPT ![v] = {}]
    /\ getUnusedTopics(v)
    /\ UNCHANGED <<sessionVars, topics, visit, currentTopic, todo, name,
                   eligible, served, single>>

Cancel(v) ==
    /\ phase[v] = "confirming"
    /\ Close(v)
    /\ UNCHANGED <<sessionVars, topics, visit, currentTopic, names, resultVars,
                   removals, single>>

\* Mutant of Rechecked: the candidates are deleted as they were listed.
RecheckedUnread(v) ==
    /\ Checked(v)
    /\ phase[v] = "checking"
    /\ Continue(v, todo[v])
    /\ UNCHANGED <<target, session, topics, visit, currentTopic, names, deleted,
                   failed, removals, single>>

\* Mutant of Rechecked: what the second check found replaces what was agreed.
RecheckedOnly(v) ==
    /\ Checked(v)
    /\ phase[v] = "checking"
    /\ \/ \E t \in unusedTopics(v), before \in SUBSET (todo[v] \ unusedTopics(v)) :
             Delete(v, t, before, unusedTopics(v))
       \/ /\ unusedTopics(v) = {}
          /\ Finish(v)
    /\ UNCHANGED <<target, session, topics, visit, currentTopic, names, deleted,
                   failed, removals, single>>

\* The one re-check that all deletions of the run rest on has come.
Rechecked(v) ==
    /\ Checked(v)
    /\ phase[v] = "checking"
    /\ Continue(v, unusedTopics(v))
    /\ UNCHANGED <<target, session, topics, visit, currentTopic, names, deleted,
                   failed, removals, single>>

\* Mutant of CheckFailed: deletingUnusedTopics is only reset on success.
CheckFailedForGood(v) ==
    /\ phase[v] \in {"listing", "checking"}
    /\ \E f \in Rejections : session' = AfterApiError(session, f)
    /\ UNCHANGED <<target, connecting, busy, topics, visit, currentTopic,
                   runVars, single>>

\* Either read failed, or the two answers cannot be verified: the other answer
\* is not waited for.  Nothing is refreshed, as nothing was deleted.
CheckFailed(v) ==
    /\ phase[v] \in {"listing", "checking"}
    /\ \E f \in Rejections : session' = AfterApiError(session, f)
    /\ Close(v)
    /\ UNCHANGED <<target, connecting, busy, topics, visit, currentTopic, names,
                   resultVars, removals, single>>

\* Mutant of Deleted: an answer whose body reports a failure counts as success.
DeletedUnread(v) ==
    /\ phase[v] = "deleting"
    /\ deleted' = [deleted EXCEPT ![v] = @ \cup {name[v]}]
    /\ currentTopic' = IF currentTopic = name[v] THEN NoTopic ELSE currentTopic
    /\ Continue(v, eligible[v])
    /\ UNCHANGED <<target, session, topics, visit, names, failed, removals, single>>

Deleted(v) ==
    /\ phase[v] = "deleting"
    /\ served[v]
    /\ deleted' = [deleted EXCEPT ![v] = @ \cup {name[v]}]
    /\ currentTopic' = IF currentTopic = name[v] THEN NoTopic ELSE currentTopic
    /\ Continue(v, eligible[v])
    /\ UNCHANGED <<target, session, topics, visit, names, failed, removals, single>>

\* Refused, or lost: then the broker may have removed the topic all the same.
DeleteFailed(v) ==
    /\ phase[v] = "deleting"
    /\ \E f \in Rejections : session' = AfterApiError(session, f)
    /\ failed' = [failed EXCEPT ![v] = @ \cup {name[v]}]
    /\ Continue(v, eligible[v])
    /\ UNCHANGED <<target, topics, visit, currentTopic, names, deleted, removals,
                   single>>

(***************************************************************************)
(* deleteTopic, from the details.                                          *)
(***************************************************************************)

DeleteTopic ==
    /\ UseSingle
    /\ UserCanAct
    /\ currentTopic # NoTopic
    /\ single.phase = "off"
    /\ single' = [NoSingle EXCEPT !.phase = "confirming", !.asked = currentTopic]
    /\ UNCHANGED <<sessionVars, topics, visit, currentTopic, runVars>>

\* The name is read again from currentTopic once the dialog is answered; a
\* details pane that a run has closed meanwhile makes the callback throw.
ConfirmSingle ==
    /\ single.phase = "confirming"
    /\ single' = IF currentTopic = NoTopic
                 THEN NoSingle
                 ELSE [single EXCEPT !.phase = "deleting",
                                     !.name = currentTopic, !.to = target]
    /\ UNCHANGED <<sessionVars, topics, visit, currentTopic, runVars>>

CancelSingle ==
    /\ single.phase = "confirming"
    /\ single' = NoSingle
    /\ UNCHANGED <<sessionVars, topics, visit, currentTopic, runVars>>

\* refreshAll, then showDetails(null), whatever is open by now.
SingleDeleted ==
    /\ single.phase = "deleting"
    /\ single.served
    /\ single' = NoSingle
    /\ currentTopic' = NoTopic
    /\ RefreshAll
    /\ UNCHANGED <<target, session, topics, visit, runVars>>

SingleFailed ==
    /\ single.phase = "deleting"
    /\ single' = NoSingle
    /\ \E f \in Rejections : session' = AfterApiError(session, f)
    /\ UNCHANGED <<target, connecting, busy, topics, visit, currentTopic, runVars>>

(***************************************************************************)
(* The rest of the screen.                                                 *)
(***************************************************************************)

\* Mutant of ShowDetails: the dialog does not block the page.
ShowBehindDialog(t) ==
    /\ OnTabs
    /\ currentTopic' = t
    /\ UNCHANGED <<sessionVars, topics, visit, runVars, single>>

\* Details, Close, or the link to the topic from another tab; the rows may
\* name topics that are gone.
ShowDetails(t) ==
    /\ UserCanAct
    /\ currentTopic' = t
    /\ UNCHANGED <<sessionVars, topics, visit, runVars, single>>

\* To another tab and back: ng-include makes a new scope.
Revisit ==
    /\ UserCanAct
    /\ visit < MaxVisits
    /\ visit' = visit + 1
    /\ UNCHANGED <<sessionVars, topics, currentTopic, runVars, single>>

\* The steps of the session that need a click wait for the dialog.
Clicked ==
    \/ \E b \in Brokers : Login(b)
    \/ LogStompOnly
    \/ Disconnect
    \/ SetRefresh

ConsoleStep ==
    /\ \/ ~DialogOpen /\ Clicked
       \/ Refresh
       \/ InfoRead
       \/ InfoFailed
       \/ ListRead
       \/ \E f \in Failures \cup {NoReply} : ListFailed(f)
       \/ \E f \in Rejections : ExecFailed(f)
    /\ UNCHANGED <<topics, visit, currentTopic, runVars, single>>

(***************************************************************************)
(* The brokers.                                                            *)
(***************************************************************************)

\* Producers, consumers, durable subscribers, other consoles.
BrokerActivity(b, t, state) ==
    /\ topics' = [topics EXCEPT ![b][t] = state]
    /\ UNCHANGED <<sessionVars, visit, currentTopic, runVars, single>>

ServeTopics(v) ==
    /\ "topics" \in waiting[v]
    /\ waiting' = [waiting EXCEPT ![v] = @ \ {"topics"}]
    /\ free' = [free EXCEPT ![v] = Free(asked[v])]
    /\ UNCHANGED <<sessionVars, topics, visit, currentTopic, planVars, asked,
                   protected, resultVars, removals, single>>

\* Mutant of ServeInfo: only subscribers that are connected protect a topic.
ServeActiveOnly(v) ==
    /\ "info" \in waiting[v]
    /\ waiting' = [waiting EXCEPT ![v] = @ \ {"info"}]
    /\ protected' = [protected EXCEPT ![v] =
                       {t \in Topics : topics[asked[v]][t] = "durable"}]
    /\ UNCHANGED <<sessionVars, topics, visit, currentTopic, planVars, asked,
                   free, resultVars, removals, single>>

ServeInfo(v) ==
    /\ "info" \in waiting[v]
    /\ waiting' = [waiting EXCEPT ![v] = @ \ {"info"}]
    /\ protected' = [protected EXCEPT ![v] = Protected(asked[v])]
    /\ UNCHANGED <<sessionVars, topics, visit, currentTopic, planVars, asked,
                   free, resultVars, removals, single>>

\* removeTopic does not look at who uses the topic.
ServeDelete(v) ==
    /\ phase[v] = "deleting"
    /\ ~served[v]
    /\ served' = [served EXCEPT ![v] = TRUE]
    /\ topics' = Removed(asked[v], name[v])
    /\ removals' = [removals EXCEPT ![v] = @ \cup {name[v]}]
    /\ UNCHANGED <<sessionVars, visit, currentTopic, phase, names, todo, name,
                   eligible, checkVars, resultVars, single>>

ServeSingle ==
    /\ single.phase = "deleting"
    /\ ~single.served
    /\ single' = [single EXCEPT !.served = TRUE]
    /\ topics' = Removed(single.to, single.name)
    /\ UNCHANGED <<sessionVars, visit, currentTopic, runVars>>

(***************************************************************************)
(* The specification.                                                      *)
(***************************************************************************)

Serve(v) == ServeTopics(v) \/ ServeInfo(v) \/ ServeDelete(v)

Proceed(v) ==
    \/ Listed(v) \/ CheckFailed(v)
    \/ Confirm(v) \/ Cancel(v)
    \/ Rechecked(v)
    \/ Deleted(v) \/ DeleteFailed(v)

Single ==
    \/ DeleteTopic \/ ConfirmSingle \/ CancelSingle
    \/ ServeSingle \/ SingleDeleted \/ SingleFailed

Next ==
    \/ ConsoleStep
    \/ StartRun
    \/ \E v \in Visits : Proceed(v) \/ Serve(v)
    \/ Single
    \/ \E t \in Topics \cup {NoTopic} : ShowDetails(t)
    \/ Revisit
    \/ \E b \in Brokers, t \in Topics, state \in TopicStates :
          BrokerActivity(b, t, state)

Spec == Init /\ [][Next]_vars

\* Every request is answered or fails (the reads after five seconds at most),
\* and the user answers the dialog: the steps of a run are never put off for
\* ever.  Nothing is assumed of the user's other steps, of the session or of
\* the brokers' activity.
Fairness == \A v \in Visits : WF_vars(Proceed(v)) /\ WF_vars(Serve(v))

FairSpec == Spec /\ Fairness

(***************************************************************************)
(* Properties.                                                             *)
(***************************************************************************)

TrueReport(v) ==
    /\ deleted[v] \subseteq removals[v]
    /\ skipped[v] \cap removals[v] = {}
    /\ removals[v] \subseteq
          deleted[v] \cup failed[v]
            \cup (IF phase[v] = "deleting" THEN {name[v]} ELSE {})

\* What the result says is what happened: a topic reported deleted was
\* removed by the broker for this run, one reported skipped was not touched
\* by it, and what was removed is reported as deleted or, when the answer was
\* lost, as failed -- also when two runs overlap.
ReportIsTrue == \A v \in Visits : TrueReport(v)

Decided(v) == deleted[v] \cup skipped[v] \cup failed[v]

ToDecide(v) ==
    CASE phase[v] = "checking" -> todo[v]
      [] phase[v] = "deleting" -> todo[v] \cup {name[v]}
      [] OTHER -> {}

Accounted(v) ==
    /\ deleted[v] \cap skipped[v] = {}
    /\ deleted[v] \cap failed[v] = {}
    /\ skipped[v] \cap failed[v] = {}
    /\ Decided(v) \subseteq names[v]
    /\ phase[v] \in {"checking", "deleting"} =>
          /\ names[v] = Decided(v) \cup ToDecide(v)
          /\ Decided(v) \cap ToDecide(v) = {}
    /\ phase[v] = "deleting" => name[v] \notin todo[v]

\* At any time each name agreed to is in exactly one place: still to come, at
\* hand, deleted, skipped or failed.  The skipped names are those of the chain
\* up to the next one that is eligible, never one that is eligible.
EachNameOnce == \A v \in Visits : Accounted(v)

\* The single deletion deletes the topic its dialog named, although it reads
\* the name again after the answer and runs close the details meanwhile.
SingleDeletesAsked == single.phase = "deleting" => single.name = single.asked

\* A run ends, so that its scope offers the deletion again.
RunsEnd == \A v \in Visits : deletingUnusedTopics(v) ~> ~deletingUnusedTopics(v)

(***************************************************************************)
(* Refinement.                                                             *)
(***************************************************************************)

PendingOf(v) == IF phase[v] \in {"checking", "deleting"} THEN todo[v] ELSE {}
SeenOf(v)    == CASE phase[v] = "checking" /\ waiting[v] = {} -> unusedTopics(v)
                  [] phase[v] = "deleting" -> eligible[v]
                  [] OTHER -> {}
StruckOf(v)  == IF phase[v] = "deleting" THEN name[v] ELSE NoTopic

Pending == [v \in Visits |-> PendingOf(v)]
SeenNow == [v \in Visits |-> SeenOf(v)]
Struck  == [v \in Visits |-> StruckOf(v)]

\* A run implements the contract of bulk deletions: only what was agreed to,
\* only what a reading made since found unused, each name once, in turn.
Cleanup == INSTANCE BulkCleanup
    WITH Runs    <- Visits,
         Names   <- Topics,
         NoName  <- NoTopic,
         agreed  <- names,
         pending <- Pending,
         seen    <- SeenNow,
         struck  <- Struck,
         removed <- removals
ImplementsCleanup == Cleanup!CleanupSpec
=============================================================================
