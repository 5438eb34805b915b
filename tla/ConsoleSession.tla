--------------------------- MODULE ConsoleSession ---------------------------
(***************************************************************************)
(* The login session of the console, seen from the tabs.                   *)
(*                                                                         *)
(* This is the part of RefreshCycle that the other components rely on: it  *)
(* forgets which sections a refresh cycle still waits for and keeps only   *)
(* that a cycle is running.  RefreshCycle implements it; QueueCleanup,     *)
(* TopicCleanup, StompClient, MessageBrowser, ConnectionDetails and        *)
(* SubscriberCheck are composed with it.                                   *)
(***************************************************************************)
EXTENDS ApiErrors

CONSTANTS Brokers, Unset   \* Unset: prepareURLs has not run yet

ASSUME UnsetAssumption == Unset \notin Brokers

VARIABLES
    target,      \* the broker that infoUrl, queuesUrl, postUrl ... address
    session,     \* connected, loginok, stompOnly, refreshTimer
    connecting,  \* the info read is outstanding; the Connect button is hidden
    busy         \* isRefreshing()

sessionVars == <<target, session, connecting, busy>>

SessionTypeOK ==
    /\ target \in Brokers \cup {Unset}
    /\ session \in Session
    /\ connecting \in BOOLEAN
    /\ busy \in BOOLEAN

SessionInit ==
    /\ target = Unset
    /\ session = [connected |-> FALSE, loginok |-> FALSE,
                  stompOnly |-> FALSE, timer |-> FALSE]
    /\ connecting = FALSE
    /\ busy = FALSE

\* The tabs that talk to the broker are on screen.
OnTabs == session.connected /\ ~session.stompOnly

(***************************************************************************)
(* Steps of the session.                                                   *)
(***************************************************************************)

\* refreshAll: a call made during a cycle is dropped with a warning.
RefreshAll ==
    /\ busy' = TRUE
    /\ connecting' = (connecting \/ ~busy)

\* Connect: the new URLs and credentials are in force from here on.
Login(b) ==
    /\ ~session.connected
    /\ ~connecting
    /\ target' = b
    /\ \E t \in BOOLEAN :
          session' = [connected |-> FALSE, loginok |-> FALSE,
                      stompOnly |-> FALSE, timer |-> t]
    /\ RefreshAll

LogStompOnly ==
    /\ ~session.connected
    /\ session' = [session EXCEPT !.connected = TRUE,
                                  !.loginok   = FALSE,
                                  !.stompOnly = TRUE]
    /\ UNCHANGED <<target, connecting, busy>>

Disconnect ==
    /\ session.connected
    /\ session' = [session EXCEPT !.connected = FALSE, !.timer = FALSE]
    /\ UNCHANGED <<target, connecting, busy>>

\* The timer, the Refresh button, or an operation that succeeded.
Refresh ==
    /\ target # Unset \/ session.connected
    /\ RefreshAll
    /\ UNCHANGED <<target, session>>

\* setRefresh after the interval was changed in the preferences.
SetRefresh ==
    /\ OnTabs
    /\ \E t \in BOOLEAN : session' = [session EXCEPT !.timer = t]
    /\ UNCHANGED <<target, connecting, busy>>

InfoRead ==
    /\ connecting
    /\ target # Unset
    /\ session' = [session EXCEPT !.connected = TRUE, !.loginok = TRUE]
    /\ connecting' = FALSE
    /\ busy' \in BOOLEAN
    /\ UNCHANGED target

InfoFailed ==
    /\ connecting
    /\ session' = [session EXCEPT !.timer = @ /\ session.loginok]
    /\ connecting' = FALSE
    /\ busy' \in BOOLEAN
    /\ UNCHANGED target

\* A queue, connection or topic list arrived: the cycle may be over, or run on
\* for ever if the callback throws.
ListRead ==
    /\ busy
    /\ busy' \in {TRUE, connecting}
    /\ UNCHANGED <<target, session, connecting>>

\* ... or failed, and a handler that throws leaves the cycle running, too.
ListFailed(f) ==
    /\ busy
    /\ session' = AfterReadError(session, f)
    /\ busy' \in {TRUE, connecting \/ Throws(f)}
    /\ UNCHANGED <<target, connecting>>

\* A failed operation: creating, purging, deleting, browsing, sending ...  A
\* bulk deletion that fails at its last name goes on to refreshAll at once.
ExecFailed(f) ==
    /\ target # Unset
    /\ session' = AfterApiError(session, f)
    /\ RefreshAll \/ UNCHANGED <<connecting, busy>>
    /\ UNCHANGED target

SessionStep ==
    \/ \E b \in Brokers : Login(b)
    \/ LogStompOnly
    \/ Disconnect
    \/ Refresh
    \/ SetRefresh
    \/ InfoRead
    \/ InfoFailed
    \/ ListRead
    \/ \E f \in Failures \cup {NoReply} : ListFailed(f)
    \/ \E f \in Rejections : ExecFailed(f)

\* What the components rely on, and may not break: the login window, the timer
\* and the refresh cycle move only in these steps, from outside a component or
\* as the effect of a call of its own.
SessionSpec == SessionInit /\ [][SessionStep]_sessionVars

(***************************************************************************)
(* Properties, of every component that implements the session.             *)
(***************************************************************************)

\* Nothing polls behind the login window, except for a login that has not been
\* answered, and never before prepareURLs ran: whatever closes the tabs stops
\* the refresh timer.
TimerHasOwner ==
    session.timer => target # Unset /\ (session.connected \/ ~session.loginok)

\* The broker that operations address is replaced only from the login window,
\* and not while a login is being answered: the answer that opens the tabs
\* finds the URLs it was asked with.
BrokerStays ==
    [][target' # target => ~session.connected /\ ~connecting]_sessionVars
=============================================================================
