---------------------------- MODULE QueueCleanup ----------------------------
(***************************************************************************)
(* Deleting queues from the Queues tab: "Delete empty queues without       *)
(* consumers" (deleteUnusedQueues) and the Delete button of the details    *)
(* (deleteQueue), with the calls of AMQInfoFact.js they are made of, in    *)
(* the session of ConsoleSession.                                          *)
(*                                                                         *)
(* A run of deleteUnusedQueues reads the candidates, asks for agreement,   *)
(* and then, name by name, reads the queues again and deletes the name if  *)
(* it is still unused.  Between any two of these steps the broker changes  *)
(* the queues, requests fail before or after they took effect, and the     *)
(* user does what the screen allows: leaves the tab and comes back to a    *)
(* new controller instance whose deletingUnusedQueues is not set, opens    *)
(* details, deletes a single queue, logs out, logs in to another broker.   *)
(*                                                                         *)
(* Not represented: texts, what else is known of a queue, the order of the *)
(* names (any order is considered).  The counters deleted, skipped and     *)
(* failed are kept as the sets they count.                                 *)
(***************************************************************************)
EXTENDS ConsoleSession

CONSTANTS
    Queues,      \* names of queues
    NoQueue,
    MaxVisits,   \* bound on the times the Queues tab is opened
    UseSingle    \* whether the Delete button of the details is used; bound:
                 \* one such deletion at a time

ASSUME NoQueueAssumption == NoQueue \notin Queues
ASSUME MaxVisitsAssumption == MaxVisits \in Nat \ {0}
ASSUME UseSingleAssumption == UseSingle \in BOOLEAN

Visits == 1..MaxVisits   \* each one a scope of QueuesCtrl

VARIABLES
    queues,        \* per broker and name: "absent", "unused" or "used"
    visit,         \* the scope on screen
    currentQueue,  \* amqInfo.currentQueue, shared by all scopes
    phase,         \* per scope: where its deleteUnusedQueues is
    names,         \* ... the names agreed to
    todo,          \* ... the names offered for agreement, then those to come
    name,          \* ... the name being checked or deleted
    asked,         \* ... the broker its outstanding request addresses
    checkedAt,     \* ... the broker that the last check addressed
    served,        \* ... the broker has processed the outstanding request
    seen,          \* ... the queues that the last check found unused
    deleted, skipped, failed,
    removals,      \* history: the names the broker removed for the run
    single         \* the single deletion: its phase, the name in the dialog,
                   \* the name posted, the broker it is posted to, and
                   \* whether that broker has processed it

resultVars == <<deleted, skipped, failed>>
requestVars == <<asked, checkedAt, served, seen>>
planVars == <<phase, names, todo, name>>
runVars == <<planVars, requestVars, resultVars, removals>>
vars == <<sessionVars, queues, visit, currentQueue, runVars, single>>

Phases == {"off", "listing", "confirming", "checking", "deleting"}

ScreenTypeOK ==
    /\ queues \in [Brokers -> [Queues -> {"absent", "unused", "used"}]]
    /\ visit \in Visits
    /\ currentQueue \in Queues \cup {NoQueue}
    /\ single \in [phase : {"off", "confirming", "deleting"},
                   asked : Queues \cup {NoQueue},
                   name : Queues \cup {NoQueue},
                   to : Brokers \cup {Unset},
                   served : BOOLEAN]

ChainTypeOK ==
    /\ phase \in [Visits -> Phases]
    /\ todo \in [Visits -> SUBSET Queues]
    /\ name \in [Visits -> Queues \cup {NoQueue}]
    /\ asked \in [Visits -> Brokers \cup {Unset}]
    /\ checkedAt \in [Visits -> Brokers \cup {Unset}]
    /\ served \in [Visits -> BOOLEAN]
    /\ seen \in [Visits -> SUBSET Queues]

ResultTypeOK ==
    /\ names \in [Visits -> SUBSET Queues]
    /\ deleted \in [Visits -> SUBSET Queues]
    /\ skipped \in [Visits -> SUBSET Queues]
    /\ failed \in [Visits -> SUBSET Queues]
    /\ removals \in [Visits -> SUBSET Queues]

\* A run that is past its confirmation has a name at hand and a broker.
AtHand(v) ==
    phase[v] \in {"checking", "deleting"} =>
        name[v] \in Queues /\ asked[v] \in Brokers

TypeOK ==
    /\ SessionTypeOK
    /\ ScreenTypeOK
    /\ ChainTypeOK
    /\ ResultTypeOK
    /\ \A v \in Visits : AtHand(v)

NoSingle == [phase |-> "off", asked |-> NoQueue, name |-> NoQueue,
             to |-> Unset, served |-> FALSE]

Init ==
    /\ SessionInit
    /\ queues \in [Brokers -> [Queues -> {"absent", "unused", "used"}]]
    /\ visit = 1
    /\ currentQueue = NoQueue
    /\ phase = [v \in Visits |-> "off"]
    /\ names = [v \in Visits |-> {}]
    /\ todo = [v \in Visits |-> {}]
    /\ name = [v \in Visits |-> NoQueue]
    /\ asked = [v \in Visits |-> Unset]
    /\ checkedAt = [v \in Visits |-> Unset]
    /\ served = [v \in Visits |-> FALSE]
    /\ seen = [v \in Visits |-> {}]
    /\ deleted = [v \in Visits |-> {}]
    /\ skipped = [v \in Visits |-> {}]
    /\ failed = [v \in Visits |-> {}]
    /\ removals = [v \in Visits |-> {}]
    /\ single = NoSingle

(***************************************************************************)
(* Guards and parts of actions.                                            *)
(***************************************************************************)

\* A $confirm dialog is modal: the page behind it takes no clicks.
DialogOpen == single.phase = "confirming" \/ \E v \in Visits : phase[v] = "confirming"

UserCanAct == OnTabs /\ ~DialogOpen

deletingUnusedQueues(v) == phase[v] # "off"

Unused(b) == {q \in Queues : queues[b][q] = "unused"}

Removed(b, q) == [queues EXCEPT ![b][q] = "absent"]

\* Scope v issues a request to the broker that the URLs address now.
Request(v) ==
    /\ asked' = [asked EXCEPT ![v] = target]
    /\ served' = [served EXCEPT ![v] = FALSE]

\* Mutants of Check: the chain does not advance past the name it is at, or
\* the check of a name is issued without one.
CheckAgain(v, q, rest) ==
    /\ name' = [name EXCEPT ![v] = q]
    /\ todo' = [todo EXCEPT ![v] = rest]
    /\ phase' = [phase EXCEPT ![v] = "checking"]
    /\ Request(v)
    /\ checkedAt' = [checkedAt EXCEPT ![v] = target]
    /\ seen' = [seen EXCEPT ![v] = {}]

CheckNameless(v, q, rest) ==
    /\ todo' = [todo EXCEPT ![v] = rest \ {q}]
    /\ phase' = [phase EXCEPT ![v] = "checking"]
    /\ Request(v)
    /\ checkedAt' = [checkedAt EXCEPT ![v] = target]
    /\ seen' = [seen EXCEPT ![v] = {}]
    /\ UNCHANGED name

\* getUnusedQueues for the next name of the chain.
Check(v, q, rest) ==
    /\ name' = [name EXCEPT ![v] = q]
    /\ todo' = [todo EXCEPT ![v] = rest \ {q}]
    /\ phase' = [phase EXCEPT ![v] = "checking"]
    /\ Request(v)
    /\ checkedAt' = [checkedAt EXCEPT ![v] = target]
    /\ seen' = [seen EXCEPT ![v] = {}]

\* deletingUnusedQueues is reset and nothing of the run remains but its result.
Close(v) ==
    /\ phase' = [phase EXCEPT ![v] = "off"]
    /\ todo' = [todo EXCEPT ![v] = {}]
    /\ name' = [name EXCEPT ![v] = NoQueue]
    /\ asked' = [asked EXCEPT ![v] = Unset]
    /\ checkedAt' = [checkedAt EXCEPT ![v] = Unset]
    /\ served' = [served EXCEPT ![v] = FALSE]
    /\ seen' = [seen EXCEPT ![v] = {}]

\* The chain goes on to the next name, or ends with refreshAll.
Continue(v) ==
    IF todo[v] = {}
    THEN Close(v) /\ RefreshAll
    ELSE /\ \E q \in todo[v] : Check(v, q, todo[v])
         /\ UNCHANGED <<connecting, busy>>

(***************************************************************************)
(* deleteUnusedQueues.                                                     *)
(***************************************************************************)

StartRun ==
    /\ UserCanAct
    /\ ~deletingUnusedQueues(visit)
    /\ phase' = [phase EXCEPT ![visit] = "listing"]
    /\ Request(visit)
    /\ UNCHANGED <<sessionVars, queues, visit, currentQueue, names, todo, name,
                   checkedAt, seen, resultVars, removals, single>>

\* The candidates have come: with none the run is over, else it asks.  (When
\* the broker read them does not matter: the dialog may stay open for long.)
Listed(v) ==
    /\ phase[v] = "listing"
    /\ LET candidates == Unused(asked[v])
       IN  IF candidates = {}
           THEN Close(v)
           ELSE /\ phase' = [phase EXCEPT ![v] = "confirming"]
                /\ todo' = [todo EXCEPT ![v] = candidates]
                /\ UNCHANGED <<name, requestVars>>
    /\ UNCHANGED <<sessionVars, queues, visit, currentQueue, names, resultVars,
                   removals, single>>

ListingFailed(v) ==
    /\ phase[v] = "listing"
    /\ \E f \in Rejections : session' = AfterApiError(session, f)
    /\ Close(v)
    /\ UNCHANGED <<target, connecting, busy, queues, visit, currentQueue, names,
                   resultVars, removals, single>>

Confirm(v) ==
    /\ phase[v] = "confirming"
    /\ names' = [names EXCEPT ![v] = todo[v]]
    /\ deleted' = [deleted EXCEPT ![v] = {}]
    /\ skipped' = [skipped EXCEPT ![v] = {}]
    /\ failed' = [failed EXCEPT ![v] = {}]
    /\ removals' = [removals EXCEPT ![v] = {}]
    /\ \E q \in todo[v] : Check(v, q, todo[v])
    /\ UNCHANGED <<sessionVars, queues, visit, currentQueue, single>>

Cancel(v) ==
    /\ phase[v] = "confirming"
    /\ Close(v)
    /\ UNCHANGED <<sessionVars, queues, visit, currentQueue, names, resultVars,
                   removals, single>>

\* The name is no longer unused (or no longer there): it is skipped.
CheckedUsed(v) ==
    /\ phase[v] = "checking"
    /\ served[v]
    /\ name[v] \notin seen[v]
    /\ skipped' = [skipped EXCEPT ![v] = @ \cup {name[v]}]
    /\ Continue(v)
    /\ UNCHANGED <<target, session, queues, visit, currentQueue, names, deleted,
                   failed, removals, single>>

\* Mutant of CheckedUnused: the answer of the check is not looked at.
CheckedAnyway(v) ==
    /\ phase[v] = "checking"
    /\ served[v]
    /\ phase' = [phase EXCEPT ![v] = "deleting"]
    /\ Request(v)
    /\ UNCHANGED <<sessionVars, queues, visit, currentQueue, names, todo, name,
                   checkedAt, seen, resultVars, removals, single>>

\* Still unused: deleteQueue(name, null, true).
CheckedUnused(v) ==
    /\ phase[v] = "checking"
    /\ served[v]
    /\ name[v] \in seen[v]
    /\ phase' = [phase EXCEPT ![v] = "deleting"]
    /\ Request(v)
    /\ UNCHANGED <<sessionVars, queues, visit, currentQueue, names, todo, name,
                   checkedAt, seen, resultVars, removals, single>>

\* Mutant of CheckFailed: deletingUnusedQueues is only reset on success.
CheckFailedForGood(v) ==
    /\ phase[v] = "checking"
    /\ \E f \in Rejections : session' = AfterApiError(session, f)
    /\ RefreshAll
    /\ UNCHANGED <<target, queues, visit, currentQueue, runVars, single>>

\* The chain is rejected: no further name is looked at.
CheckFailed(v) ==
    /\ phase[v] = "checking"
    /\ \E f \in Rejections : session' = AfterApiError(session, f)
    /\ Close(v)
    /\ RefreshAll
    /\ UNCHANGED <<target, queues, visit, currentQueue, names, resultVars,
                   removals, single>>

\* Mutant of Deleted: an answer whose body reports a failure counts as success.
DeletedUnread(v) ==
    /\ phase[v] = "deleting"
    /\ deleted' = [deleted EXCEPT ![v] = @ \cup {name[v]}]
    /\ currentQueue' = IF currentQueue = name[v] THEN NoQueue ELSE currentQueue
    /\ Continue(v)
    /\ UNCHANGED <<target, session, queues, visit, names, skipped, failed,
                   removals, single>>

Deleted(v) ==
    /\ phase[v] = "deleting"
    /\ served[v]
    /\ deleted' = [deleted EXCEPT ![v] = @ \cup {name[v]}]
    /\ currentQueue' = IF currentQueue = name[v] THEN NoQueue ELSE currentQueue
    /\ Continue(v)
    /\ UNCHANGED <<target, session, queues, visit, names, skipped, failed,
                   removals, single>>

\* Refused, or lost: then the broker may have removed the queue all the same.
DeleteFailed(v) ==
    /\ phase[v] = "deleting"
    /\ \E f \in Rejections : session' = AfterApiError(session, f)
    /\ failed' = [failed EXCEPT ![v] = @ \cup {name[v]}]
    /\ Continue(v)
    /\ UNCHANGED <<target, queues, visit, currentQueue, names, deleted, skipped,
                   removals, single>>

(***************************************************************************)
(* deleteQueue, from the details.                                          *)
(***************************************************************************)

DeleteQueue ==
    /\ UseSingle
    /\ UserCanAct
    /\ currentQueue # NoQueue
    /\ single.phase = "off"
    /\ single' = [NoSingle EXCEPT !.phase = "confirming", !.asked = currentQueue]
    /\ UNCHANGED <<sessionVars, queues, visit, currentQueue, runVars>>

\* The name is read again from currentQueue once the dialog is answered; a
\* details pane that a run has closed meanwhile makes the callback throw.
ConfirmSingle ==
    /\ single.phase = "confirming"
    /\ single' = IF currentQueue = NoQueue
                 THEN NoSingle
                 ELSE [single EXCEPT !.phase = "deleting",
                                     !.name = currentQueue, !.to = target]
    /\ UNCHANGED <<sessionVars, queues, visit, currentQueue, runVars>>

CancelSingle ==
    /\ single.phase = "confirming"
    /\ single' = NoSingle
    /\ UNCHANGED <<sessionVars, queues, visit, currentQueue, runVars>>

\* showQueueDetails(null), whatever is open by now.
SingleDeleted ==
    /\ single.phase = "deleting"
    /\ single.served
    /\ single' = NoSingle
    /\ currentQueue' = NoQueue
    /\ RefreshAll
    /\ UNCHANGED <<target, session, queues, visit, runVars>>

\* Mutant of SingleFailed: the login window is shown, the timer goes on.
SingleFailedPolling ==
    /\ single.phase = "deleting"
    /\ single' = NoSingle
    /\ session' = [session EXCEPT !.connected = FALSE]
    /\ UNCHANGED <<target, connecting, busy, queues, visit, currentQueue, runVars>>

SingleFailed ==
    /\ single.phase = "deleting"
    /\ single' = NoSingle
    /\ \E f \in Rejections : session' = AfterApiError(session, f)
    /\ UNCHANGED <<target, connecting, busy, queues, visit, currentQueue, runVars>>

(***************************************************************************)
(* The rest of the screen.                                                 *)
(***************************************************************************)

\* Mutant of ShowQueueDetails: the dialog does not block the page.
ShowBehindDialog(q) ==
    /\ OnTabs
    /\ currentQueue' = q
    /\ UNCHANGED <<sessionVars, queues, visit, runVars, single>>

\* Details, or Close; the rows may name queues that are gone.
ShowQueueDetails(q) ==
    /\ UserCanAct
    /\ currentQueue' = q
    /\ UNCHANGED <<sessionVars, queues, visit, runVars, single>>

\* To another tab and back: ng-include makes a new scope.
Revisit ==
    /\ UserCanAct
    /\ visit < MaxVisits
    /\ visit' = visit + 1
    /\ UNCHANGED <<sessionVars, queues, currentQueue, runVars, single>>

\* The steps of the session that need a click wait for the dialog.
Clicked ==
    \/ \E b \in Brokers : Login(b)
    \/ LogStompOnly
    \/ Disconnect
    \/ SetRefresh

ConsoleStep ==
    /\ \/ ~DialogOpen /\ Clicked
       \/ Refresh
       \/ InfoRead
       \/ InfoFailed
       \/ ListRead
       \/ \E f \in Failures \cup {NoReply} : ListFailed(f)
       \/ \E f \in Rejections : ExecFailed(f)
    /\ UNCHANGED <<queues, visit, currentQueue, runVars, single>>

(***************************************************************************)
(* The brokers.                                                            *)
(***************************************************************************)

\* Producers, consumers, other consoles: a queue is created, filled, drained,
\* consumed from, left, removed.
BrokerActivity(b, q, state) ==
    /\ queues' = [queues EXCEPT ![b][q] = state]
    /\ UNCHANGED <<sessionVars, visit, currentQueue, runVars, single>>

ServeCheck(v) ==
    /\ phase[v] = "checking"
    /\ ~served[v]
    /\ served' = [served EXCEPT ![v] = TRUE]
    /\ seen' = [seen EXCEPT ![v] = Unused(asked[v])]
    /\ UNCHANGED <<sessionVars, queues, visit, currentQueue, planVars, asked,
                   checkedAt, resultVars, removals, single>>

\* removeQueue does not look at what the queue holds.
ServeDelete(v) ==
    /\ phase[v] = "deleting"
    /\ ~served[v]
    /\ served' = [served EXCEPT ![v] = TRUE]
    /\ queues' = Removed(asked[v], name[v])
    /\ removals' = [removals EXCEPT ![v] = @ \cup {name[v]}]
    /\ UNCHANGED <<sessionVars, visit, currentQueue, planVars, asked, checkedAt,
                   seen, resultVars, single>>

ServeSingle ==
    /\ single.phase = "deleting"
    /\ ~single.served
    /\ single' = [single EXCEPT !.served = TRUE]
    /\ queues' = Removed(single.to, single.name)
    /\ UNCHANGED <<sessionVars, visit, currentQueue, runVars>>

(***************************************************************************)
(* The specification.                                                      *)
(***************************************************************************)

Serve(v) == ServeCheck(v) \/ ServeDelete(v)

Proceed(v) ==
    \/ Listed(v) \/ ListingFailed(v)
    \/ Confirm(v) \/ Cancel(v)
    \/ CheckedUsed(v) \/ CheckedUnused(v) \/ CheckFailed(v)
    \/ Deleted(v) \/ DeleteFailed(v)

Single ==
    \/ DeleteQueue \/ ConfirmSingle \/ CancelSingle
    \/ ServeSingle \/ SingleDeleted \/ SingleFailed

Next ==
    \/ ConsoleStep
    \/ StartRun
    \/ \E v \in Visits : Proceed(v) \/ Serve(v)
    \/ Single
    \/ \E q \in Queues \cup {NoQueue} : ShowQueueDetails(q)
    \/ Revisit
    \/ \E b \in Brokers, q \in Queues, state \in {"absent", "unused", "used"} :
          BrokerActivity(b, q, state)

Spec == Init /\ [][Next]_vars

\* Every request is answered or fails (a check after five seconds at most),
\* and the user answers the dialog: the steps of a run are never put off for
\* ever.  Nothing is assumed of the user's other steps, of the session or of
\* the brokers' activity.
Fairness == \A v \in Visits : WF_vars(Proceed(v)) /\ WF_vars(Serve(v))

FairSpec == Spec /\ Fairness

(***************************************************************************)
(* Properties.                                                             *)
(***************************************************************************)

TrueReport(v) ==
    /\ deleted[v] \subseteq removals[v]
    /\ skipped[v] \cap removals[v] = {}
    /\ removals[v] \subseteq
          deleted[v] \cup failed[v]
            \cup (IF phase[v] = "deleting" THEN {name[v]} ELSE {})

\* What the result says is what happened: a queue reported deleted was
\* removed by the broker for this run, one reported skipped was not touched
\* by it, and what was removed is reported as deleted or, when the answer was
\* lost, as failed -- also when two runs overlap.
ReportIsTrue == \A v \in Visits : TrueReport(v)

Decided(v) == deleted[v] \cup skipped[v] \cup failed[v]

ToDecide(v) ==
    IF phase[v] \in {"checking", "deleting"} THEN todo[v] \cup {name[v]} ELSE {}

Accounted(v) ==
    /\ deleted[v] \cap skipped[v] = {}
    /\ deleted[v] \cap failed[v] = {}
    /\ skipped[v] \cap failed[v] = {}
    /\ Decided(v) \subseteq names[v]
    /\ phase[v] \in {"checking", "deleting"} =>
          /\ names[v] = Decided(v) \cup ToDecide(v)
          /\ Decided(v) \cap ToDecide(v) = {}
          /\ name[v] \notin todo[v]

\* At any time each name agreed to is in exactly one place: still to come, at
\* hand, deleted, skipped or failed -- unless the run was stopped, when names
\* may have been left out, but none counted twice or brought in.
EachNameOnce == \A v \in Visits : Accounted(v)

\* The single deletion deletes the queue its dialog named, although it reads
\* the name again after the answer and runs close the details meanwhile.
SingleDeletesAsked == single.phase = "deleting" => single.name = single.asked

\* "Both values are rechecked against the broker before each sequential
\* deletion" (README.md): the deletion goes to the broker that was checked.
RecheckedWhereDeleted ==
    \A v \in Visits : phase[v] = "deleting" => asked[v] = checkedAt[v]

\* A run ends, so that its scope offers the deletion again.
RunsEnd == \A v \in Visits : deletingUnusedQueues(v) ~> ~deletingUnusedQueues(v)

(***************************************************************************)
(* Refinement.                                                             *)
(***************************************************************************)

PendingOf(v) == CASE phase[v] = "checking" -> todo[v] \cup {name[v]}
                  [] phase[v] = "deleting" -> todo[v]
                  [] OTHER -> {}
SeenOf(v)    == IF phase[v] = "checking" THEN seen[v] ELSE {}
StruckOf(v)  == IF phase[v] = "deleting" THEN name[v] ELSE NoQueue

Pending == [v \in Visits |-> PendingOf(v)]
SeenNow == [v \in Visits |-> SeenOf(v)]
Struck  == [v \in Visits |-> StruckOf(v)]

\* A run implements the contract of bulk deletions: only what was agreed to,
\* only what a reading made since found unused, each name once, in turn.
Cleanup == INSTANCE BulkCleanup
    WITH Runs    <- Visits,
         Names   <- Queues,
         NoName  <- NoQueue,
         agreed  <- names,
         pending <- Pending,
         seen    <- SeenNow,
         struck  <- Struck,
         removed <- removals
ImplementsCleanup == Cleanup!CleanupSpec
=============================================================================
