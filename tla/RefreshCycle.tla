---------------------------- MODULE RefreshCycle ----------------------------
(***************************************************************************)
(* Login, logout and the refresh cycle of the console.                     *)
(*                                                                         *)
(* refreshAll reads four sections of the broker with four concurrent GETs  *)
(* (info, queues, connections, topics), each with a flag in                *)
(* currentlyRefreshing that its callbacks clear.  A new cycle is refused   *)
(* while any flag is set.  Meanwhile the user logs in and out, also to     *)
(* another broker, changes the refresh interval and issues operations      *)
(* whose success starts a cycle and whose failure may log the user out.    *)
(*                                                                         *)
(* Not represented: the connectionError text and toasts, the update        *)
(* counter, the contents of the lists, graph data.                         *)
(***************************************************************************)
EXTENDS ApiErrors

CONSTANTS
    Brokers,       \* what the login form can address
    Unset,         \* the URLs before prepareURLs first ran
    None,          \* no request, nothing shown
    UseStompOnly,  \* whether the "Stomp Client Only" button is ever used
    MaxOps,        \* bound on operations outstanding at a time
    Incomplete     \* the lists of which brokers may give incomplete answers

ASSUME BrokersAssumption == Unset \notin Brokers /\ None \notin Brokers
ASSUME DistinctAssumption == Unset # None
ASSUME UseStompOnlyAssumption == UseStompOnly \in BOOLEAN
ASSUME MaxOpsAssumption == MaxOps \in Nat

Info == 0
Lists == 1..3                  \* queues, connections, topics
Connections == 2
Topics == 3
Sections == {Info} \cup Lists  \* the indices of currentlyRefreshing

\* The callbacks call a method or take the length of a field of each row only
\* with these two: ClientId.replace, and Subscriptions.length.
ASSUME IncompleteAssumption == Incomplete \subseteq {Connections, Topics}

VARIABLES
    target,              \* the broker the prepared URLs address
    session,             \* connected, loginok, stompOnly, refreshTimer
    connecting,
    interval,            \* prefs.autoRefreshInterval > 0
    urlRate,             \* defaultrefreshrate > 0: not yet taken over
    currentlyRefreshing,
    request,             \* per section: the broker its outstanding GET addresses
    shown,               \* per section: the broker its data came from
    ops,                 \* outstanding operations (POSTs)
    response             \* history: what the callback of a list got last

cycleVars == <<currentlyRefreshing, request>>
prefsVars == <<interval, urlRate>>
vars == <<target, session, connecting, interval, urlRate,
          currentlyRefreshing, request, shown, ops, response>>

isRefreshing == \E s \in Sections : currentlyRefreshing[s]

OnTabs == session.connected /\ ~session.stompOnly

\* A list that came with all the fields its callback reads, one that did not,
\* or an error.
NoError == [status |-> 200, object |-> FALSE]
List == [error |-> NoError, complete |-> TRUE]
PartialList == [error |-> NoError, complete |-> FALSE]
Error(f) == [error |-> f, complete |-> TRUE]
Response == {List, PartialList} \cup {Error(f) : f \in Failures \cup {NoReply}}

TypeOK ==
    /\ target \in Brokers \cup {Unset}
    /\ session \in Session
    /\ connecting \in BOOLEAN
    /\ interval \in BOOLEAN
    /\ urlRate \in BOOLEAN
    /\ currentlyRefreshing \in [Sections -> BOOLEAN]
    /\ request \in [Sections -> Brokers \cup {Unset, None}]
    /\ shown \in [Sections -> Brokers \cup {None}]
    /\ ops \in 0..MaxOps
    /\ response \in Response

Init ==
    /\ target = Unset
    /\ session = [connected |-> FALSE, loginok |-> FALSE,
                  stompOnly |-> FALSE, timer |-> FALSE]
    /\ connecting = FALSE
    /\ interval \in BOOLEAN
    /\ urlRate \in BOOLEAN
    /\ currentlyRefreshing = [s \in Sections |-> FALSE]
    /\ request = [s \in Sections |-> None]
    /\ shown = [s \in Sections |-> None]
    /\ ops = 0
    /\ response = List

(***************************************************************************)
(* Parts of actions.                                                       *)
(***************************************************************************)

\* The sections whose GET refreshAll gets as far as issuing.  While
\* connectionsUrl is undefined, refreshConnections sets its flag and then
\* throws, so that neither its request nor refreshTopics follows.
Issued(b)  == IF b = Unset THEN {Info, 1} ELSE Sections
Flagged(b) == Issued(b) \cup {Connections}

\* Mutant of RefreshAll: only the flag of each section is tested.
RefreshAllOverlapping(b) ==
    LET free == {s \in Issued(b) : ~currentlyRefreshing[s]}
    IN  /\ currentlyRefreshing' =
             [s \in Sections |-> currentlyRefreshing[s] \/ s \in Flagged(b)]
        /\ request' = [s \in Sections |-> IF s \in free THEN b ELSE request[s]]
        /\ connecting' = (connecting \/ Info \in free)

\* refreshAll, with the four refresh functions it calls; b is the broker the
\* URLs address.  Each function returns at once if its own flag is set.
RefreshAll(b) ==
    IF isRefreshing
    THEN UNCHANGED <<cycleVars, connecting>>
    ELSE /\ currentlyRefreshing' =
              [s \in Sections |-> currentlyRefreshing[s] \/ s \in Flagged(b)]
         /\ request' =
              [s \in Sections |->
                 IF ~currentlyRefreshing[s] /\ s \in Issued(b)
                 THEN b ELSE request[s]]
         /\ connecting' = (connecting \/ ~currentlyRefreshing[Info])

\* setRefresh, where i is autoRefreshInterval > 0 when it is called.
SetRefresh(i, s) ==
    /\ interval' = (i \/ urlRate)
    /\ urlRate' = FALSE
    /\ session' = [s EXCEPT !.timer = i \/ urlRate]

\* Mutant of Settle: a callback returns before it clears its flag.
SettleEarlyReturn(s, stuck) ==
    /\ request' = [request EXCEPT ![s] = None]
    /\ UNCHANGED currentlyRefreshing

\* The callback of section s: the flag is cleared unless it threw before.
Settle(s, stuck) ==
    /\ request' = [request EXCEPT ![s] = None]
    /\ currentlyRefreshing' = [currentlyRefreshing EXCEPT ![s] = stuck]

FailuresOf(b) == IF b = Unset THEN {NoReply} ELSE Failures

(***************************************************************************)
(* The user.                                                               *)
(***************************************************************************)

\* Mutant of Login: the Connect button stays while a login is under way.
LoginWhileConnecting(b) ==
    /\ ~session.connected
    /\ target' = b
    /\ RefreshAll(b)
    /\ \E loaded \in BOOLEAN :
          SetRefresh(loaded, [session EXCEPT !.loginok   = FALSE,
                                             !.stompOnly = FALSE])
    /\ UNCHANGED <<shown, ops, response>>

\* logAMQ: the Connect button is shown while neither connected nor
\* connecting.  prefs.load may replace the interval by a stored one.
Login(b) ==
    /\ ~session.connected
    /\ ~connecting
    /\ target' = b
    /\ RefreshAll(b)
    /\ \E loaded \in BOOLEAN :
          SetRefresh(loaded, [session EXCEPT !.loginok   = FALSE,
                                             !.stompOnly = FALSE])
    /\ UNCHANGED <<shown, ops, response>>

LogStompOnly ==
    /\ UseStompOnly
    /\ ~session.connected
    /\ session' = [session EXCEPT !.connected = TRUE,
                                  !.loginok   = FALSE,
                                  !.stompOnly = TRUE]
    /\ UNCHANGED <<target, connecting, prefsVars, cycleVars, shown, ops,
                   response>>

\* Mutant of Disconnect: the timer is left running.
DisconnectKeepsTimer ==
    /\ session.connected
    /\ session' = [session EXCEPT !.connected = FALSE]
    /\ UNCHANGED <<target, connecting, prefsVars, cycleVars, shown, ops,
                   response>>

\* disconnectAMQ, when amqClient.disconnect() returns.
Disconnect ==
    /\ session.connected
    /\ session' = [session EXCEPT !.connected = FALSE, !.timer = FALSE]
    /\ UNCHANGED <<target, connecting, prefsVars, cycleVars, shown, ops,
                   response>>

\* The Refresh button of the footer, shown while the interval is zero.
RefreshButton ==
    /\ session.connected
    /\ ~interval
    /\ RefreshAll(target)
    /\ UNCHANGED <<target, session, prefsVars, shown, ops, response>>

\* The interval field is bound to the preferences; the timer is not touched
\* until the change is confirmed.
EditInterval(i) ==
    /\ OnTabs
    /\ interval' = i
    /\ UNCHANGED <<target, session, connecting, urlRate, cycleVars, shown, ops,
                   response>>

UpdateAutoRefresh ==
    /\ OnTabs
    /\ SetRefresh(interval, session)
    /\ UNCHANGED <<target, connecting, cycleVars, shown, ops, response>>

\* Any operation or query that is a POST: create, delete, purge, browse ...
Exec ==
    /\ OnTabs
    /\ ops < MaxOps
    /\ ops' = ops + 1
    /\ UNCHANGED <<target, session, connecting, prefsVars, cycleVars, shown,
                   response>>

(***************************************************************************)
(* The timer and the answers.                                              *)
(***************************************************************************)

Tick ==
    /\ session.timer
    /\ RefreshAll(target)
    /\ UNCHANGED <<target, session, prefsVars, shown, ops, response>>

InfoRead ==
    /\ request[Info] \in Brokers
    /\ session' = [session EXCEPT !.connected = TRUE, !.loginok = TRUE]
    /\ connecting' = FALSE
    /\ shown' = [shown EXCEPT ![Info] = request[Info]]
    /\ Settle(Info, FALSE)
    /\ UNCHANGED <<target, prefsVars, ops, response>>

\* Mutant of InfoFailed: connecting is only reset by a successful read.
InfoFailedConnecting ==
    /\ request[Info] # None
    /\ FailuresOf(request[Info]) # {}
    /\ session' = [session EXCEPT !.timer = @ /\ session.loginok]
    /\ Settle(Info, FALSE)
    /\ UNCHANGED <<target, connecting, prefsVars, shown, ops, response>>

\* refreshInfo reports its failure by itself, whatever the status.
InfoFailed ==
    /\ request[Info] # None
    /\ FailuresOf(request[Info]) # {}
    /\ session' = [session EXCEPT !.timer = @ /\ session.loginok]
    /\ connecting' = FALSE
    /\ Settle(Info, FALSE)
    /\ UNCHANGED <<target, prefsVars, shown, ops, response>>

\* Mutant of ListRead: a list that has come is read again at once.
ListReadAgain(s) ==
    /\ request[s] \in Brokers
    /\ shown' = [shown EXCEPT ![s] = request[s]]
    /\ request' = [request EXCEPT ![s] = target]
    /\ UNCHANGED <<target, session, connecting, prefsVars, currentlyRefreshing, ops,
                   response>>

\* The list is taken over; a row that lacks a field makes the callback throw.
ListRead(s) ==
    /\ request[s] \in Brokers
    /\ shown' = [shown EXCEPT ![s] = request[s]]
    /\ \/ Settle(s, FALSE) /\ response' = List
       \/ s \in Incomplete /\ Settle(s, TRUE) /\ response' = PartialList
    /\ UNCHANGED <<target, session, connecting, prefsVars, ops>>

\* Mutant of ListFailed: the error callback returns once it has stopped the
\* timer, without clearing its flag.
ListFailedEarlyReturn(s) ==
    /\ request[s] # None
    /\ \E f \in FailuresOf(request[s]) :
          /\ session' = AfterReadError(session, f)
          /\ Settle(s, Throws(f) \/ f.status \in Halting)
          /\ response' = Error(f)
    /\ UNCHANGED <<target, connecting, prefsVars, shown, ops>>

ListFailed(s) ==
    /\ request[s] # None
    /\ \E f \in FailuresOf(request[s]) :
          /\ session' = AfterReadError(session, f)
          /\ Settle(s, Throws(f))
          /\ response' = Error(f)
    /\ UNCHANGED <<target, connecting, prefsVars, shown, ops>>

\* An operation that changed the broker: the lists are read again.
ExecDone ==
    /\ ops > 0
    /\ ops' = ops - 1
    /\ RefreshAll(target)
    /\ UNCHANGED <<target, session, prefsVars, shown, response>>

\* Mutant of QueryDone: an answer is counted that no operation waits for.
QueryDoneTwice ==
    /\ ops' = ops - 1
    /\ UNCHANGED <<target, session, connecting, prefsVars, cycleVars, shown,
                   response>>

\* A query, or a sent message: nothing is read again.
QueryDone ==
    /\ ops > 0
    /\ ops' = ops - 1
    /\ UNCHANGED <<target, session, connecting, prefsVars, cycleVars, shown,
                   response>>

\* The operation is rejected; a bulk deletion that fails at its last name
\* ends with refreshAll, whether or not the failure logged the user out.
ExecFailed ==
    /\ ops > 0
    /\ ops' = ops - 1
    /\ \E f \in Rejections : session' = AfterApiError(session, f)
    /\ RefreshAll(target) \/ UNCHANGED <<cycleVars, connecting>>
    /\ UNCHANGED <<target, prefsVars, shown, response>>

Answer ==
    \/ InfoRead
    \/ InfoFailed
    \/ \E s \in Lists : ListRead(s)
    \/ \E s \in Lists : ListFailed(s)

Next ==
    \/ \E b \in Brokers : Login(b)
    \/ LogStompOnly
    \/ Disconnect
    \/ RefreshButton
    \/ \E i \in BOOLEAN : EditInterval(i)
    \/ UpdateAutoRefresh
    \/ Exec
    \/ Tick
    \/ ExecDone
    \/ QueryDone
    \/ ExecFailed
    \/ Answer

\* Every GET of a cycle has a timeout of five seconds and so is answered;
\* the interval of $interval fires as long as it is not cancelled.
Fairness ==
    /\ WF_vars(Tick)
    /\ WF_vars(InfoRead \/ InfoFailed)
    /\ \A s \in Lists : WF_vars(ListRead(s) \/ ListFailed(s))

Spec == Init /\ [][Next]_vars
FairSpec == Spec /\ Fairness

(***************************************************************************)
(* Properties.                                                             *)
(***************************************************************************)

\* The tabs are never shown over the data of another broker than the one the
\* operations would be sent to: connected is only ever set by an info answer
\* of the broker logged in to, although answers of an earlier login may still
\* arrive.  It rests on the Connect button being hidden while connecting.
ConnectedToTarget == OnTabs => shown[Info] = target

\* On the tabs, no answer of an earlier broker is still to come for any list:
\* refreshAll lets the info read of a login start only when the whole cycle
\* of the previous login has come back.
NoForeignRequest ==
    OnTabs => \A s \in Sections : request[s] \in {None, target}

\* Nothing polls a broker behind the login window, except for a login that
\* has not been answered: whatever closes the tabs stops the timer.
TimerHasOwner ==
    session.timer => session.connected \/ ~session.loginok

\* "Hasn't returned from previous call yet": a flag of currentlyRefreshing is
\* set exactly while the call of its section is outstanding.
FlagMeansPending ==
    \A s \in Sections : currentlyRefreshing[s] <=> request[s] # None

\* A section whose flag is set although nothing will clear it any more.
Stuck(s) == currentlyRefreshing[s] /\ request[s] = None

\* "Hasn't returned from previous call yet" goes wrong in three ways only: a
\* list fails with an error on which handleApiError throws, a list comes whose
\* callback throws on a missing field, or a refresh is asked for before any
\* login has prepared the URL of the connections.  On every other response,
\* and for the information on every one, the callback clears its flag.
OnlyThrowsStick ==
    [][\A s \in Sections :
          ~Stuck(s) /\ Stuck(s)' =>
             \/ /\ s \in Lists /\ request[s] # None
                /\ Throws(response'.error) \/ response' = PartialList
             \/ s = Connections /\ target = Unset /\ ~isRefreshing]_vars

\* Then refreshing is over until the page is loaded again, also for the other
\* sections and for later logins: the flag is never cleared, no request is
\* issued any more, and a section without one keeps what it shows.
StuckForGood ==
    [][(\E t \in Sections : Stuck(t)) =>
          \A s \in Sections :
             /\ Stuck(s) => Stuck(s)'
             /\ request'[s] \in {request[s], None}
             /\ request[s] = None => shown'[s] = shown[s]]_vars

\* No cycle keeps the console refusing to refresh for ever, unless a section
\* is stuck.
CyclesEnd == []<>(~isRefreshing \/ \E s \in Sections : Stuck(s))

\* A login whose own refreshAll was dropped because a cycle of the previous
\* login was still running is made up for by the timer, unless a section is
\* stuck.
TimerRetriesLogin ==
    (session.timer /\ ~session.connected)
        ~> \/ ~session.timer \/ session.connected
           \/ request[Info] = target
           \/ \E s \in Sections : Stuck(s)

\* The session the other components are composed with is this one, seen
\* without its sections.
Console == INSTANCE ConsoleSession WITH busy <- isRefreshing
ImplementsSession == Console!SessionSpec
=============================================================================
