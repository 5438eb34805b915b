------------------------ MODULE ConsoleSessionProofs ------------------------
(***************************************************************************)
(* What every component composed with ConsoleSession may rely on: the      *)
(* effect of a failed call, whatever the failure, and the invariants of    *)
(* the session.                                                            *)
(***************************************************************************)
EXTENDS ConsoleSession, TLAPS

(***************************************************************************)
(* Failed calls.                                                           *)
(***************************************************************************)

\* Any fields of a session can be assigned truth values.
LEMMA SessionUpdate ==
    ASSUME NEW s \in Session, NEW c \in BOOLEAN, NEW l \in BOOLEAN,
           NEW o \in BOOLEAN, NEW r \in BOOLEAN
    PROVE  /\ [s EXCEPT !.connected = c, !.loginok = l, !.timer = r] \in Session
           /\ [s EXCEPT !.connected = c, !.loginok = l, !.stompOnly = o] \in Session
           /\ [s EXCEPT !.loginok = l, !.stompOnly = o] \in Session
           /\ [s EXCEPT !.connected = c, !.loginok = l] \in Session
           /\ [s EXCEPT !.connected = c, !.timer = r] \in Session
           /\ [s EXCEPT !.timer = r] \in Session
  BY DEF Session

\* The session stays a session, whatever the failure; a 401 stops the timer
\* together with the login, and no failure starts anything.
LEMMA ApiErrorEffect ==
    ASSUME NEW s \in Session, NEW f
    PROVE  LET t == AfterApiError(s, f)
           IN  /\ t \in Session
               /\ t.stompOnly = s.stompOnly
               /\ t.connected => s.connected
               /\ t.timer => s.timer /\ t.connected = s.connected
                                     /\ t.loginok = s.loginok
<1> DEFINE t == AfterApiError(s, f)
           c == s.connected /\ f.status # 401
           l == s.loginok /\ f.status # 401
           r == s.timer /\ f.status \notin Halting
<1>1. t = [s EXCEPT !.connected = c, !.loginok = l, !.timer = r]
  BY DEF AfterApiError
<1>2. c \in BOOLEAN /\ l \in BOOLEAN /\ r \in BOOLEAN
  BY DEF Session
<1>3. t \in Session
  <2> HIDE DEF t, c, l, r
  <2> QED BY <1>1, <1>2, SessionUpdate
<1>4. t.connected = c /\ t.loginok = l /\ t.timer = r /\ t.stompOnly = s.stompOnly
  BY DEF AfterApiError, Session
<1>5. r => f.status # 401
  BY DEF Halting
<1>6. s.connected \in BOOLEAN /\ s.loginok \in BOOLEAN
  BY DEF Session
<1> QED
  BY <1>3, <1>4, <1>5, <1>6

\* The same of the error callback of a list.
LEMMA ReadErrorEffect ==
    ASSUME NEW s \in Session, NEW f
    PROVE  LET t == AfterReadError(s, f)
           IN  /\ t \in Session
               /\ t.stompOnly = s.stompOnly
               /\ t.connected => s.connected
               /\ t.timer => s.timer /\ t.connected = s.connected
                                     /\ t.loginok = s.loginok
<1> DEFINE u == AfterApiError(s, f)
           t == AfterReadError(s, f)
           r == u.timer /\ u.loginok
<1>1. /\ u \in Session
      /\ u.stompOnly = s.stompOnly
      /\ u.connected => s.connected
      /\ u.timer => s.timer /\ u.connected = s.connected /\ u.loginok = s.loginok
  BY ApiErrorEffect
<1>2. t = u \/ t = [u EXCEPT !.timer = r]
  BY DEF AfterReadError
<1>3. r \in BOOLEAN
  BY <1>1 DEF Session
<1>4. /\ t \in Session
      /\ t.stompOnly = u.stompOnly
      /\ t.connected = u.connected
      /\ t.loginok = u.loginok
      /\ t.timer => u.timer
  <2>1. CASE t = u
    BY <1>1, <2>1
  <2>2. CASE t = [u EXCEPT !.timer = r]
    <3>1. t \in Session
      <4> HIDE DEF t, u, r
      <4> QED BY <1>1, <1>3, <2>2, SessionUpdate
    <3>2. t.timer = r
      <4> HIDE DEF t, u, r
      <4> QED BY <1>1, <2>2 DEF Session
    <3>3. t.stompOnly = u.stompOnly /\ t.connected = u.connected /\ t.loginok = u.loginok
      <4> HIDE DEF t, u, r
      <4> QED BY <1>1, <2>2 DEF Session
    <3> QED
      BY <3>1, <3>2, <3>3
  <2> QED
    BY <1>2, <2>1, <2>2
<1> QED
  BY <1>1, <1>4

(***************************************************************************)
(* The session.                                                            *)
(***************************************************************************)

USE UnsetAssumption

\* The tabs are shown only after prepareURLs ran.
Prepared == OnTabs => target # Unset

\* refreshAll keeps the two flags truth values.
LEMMA RefreshAllTyped ==
    ASSUME SessionTypeOK, RefreshAll
    PROVE  connecting' \in BOOLEAN /\ busy' \in BOOLEAN
  BY DEF SessionTypeOK, RefreshAll

\* A step that starts nothing and opens nothing.
LEMMA SessionFrame ==
    ASSUME SessionTypeOK, Prepared,
           session' \in Session, session'.stompOnly = session.stompOnly,
           session'.connected => session.connected,
           connecting' \in BOOLEAN, busy' \in BOOLEAN, UNCHANGED target
    PROVE  SessionTypeOK' /\ Prepared'
  BY DEF SessionTypeOK, Prepared, OnTabs

\* A failed call, with or without a refresh after it.
LEMMA FailureFrame ==
    ASSUME SessionTypeOK, Prepared, NEW f, session' = AfterApiError(session, f),
           connecting' \in BOOLEAN, busy' \in BOOLEAN, UNCHANGED target
    PROVE  SessionTypeOK' /\ Prepared'
<1>1. session \in Session
  BY DEF SessionTypeOK
<1> QED
  BY <1>1, ApiErrorEffect, SessionFrame

\* Every step of the session keeps its types, and the URLs once prepared stay
\* prepared: whatever is under way has a broker to address.
LEMMA SessionStepEffect ==
    ASSUME SessionTypeOK, Prepared, SessionStep
    PROVE  SessionTypeOK' /\ Prepared' /\ (target # Unset => target' # Unset)
<1>0. /\ session \in Session
      /\ target \in Brokers \cup {Unset}
      /\ connecting \in BOOLEAN
      /\ busy \in BOOLEAN
  BY DEF SessionTypeOK
<1>1. ASSUME NEW b \in Brokers, Login(b) PROVE target' = b /\ SessionTypeOK' /\ Prepared'
  <2>1. target' = b /\ RefreshAll
    BY <1>1 DEF Login
  <2>2. session' \in Session
    BY <1>1 DEF Login, Session
  <2>3. b # Unset
    OBVIOUS
  <2> QED
    BY <2>1, <2>2, <2>3, RefreshAllTyped DEF SessionTypeOK, Prepared
<1>2. CASE LogStompOnly
  <2>1. /\ session' = [session EXCEPT !.connected = TRUE, !.loginok = FALSE,
                                      !.stompOnly = TRUE]
        /\ UNCHANGED <<target, connecting, busy>>
    BY <1>2 DEF LogStompOnly
  <2>2. session' \in Session /\ session'.stompOnly
    BY <1>0, <2>1 DEF Session
  <2> QED
    BY <1>0, <2>1, <2>2 DEF SessionTypeOK, Prepared, OnTabs
<1>3. CASE Disconnect
  <2>1. /\ session' = [session EXCEPT !.connected = FALSE, !.timer = FALSE]
        /\ UNCHANGED <<target, connecting, busy>>
    BY <1>3 DEF Disconnect
  <2>2. session' \in Session /\ ~session'.connected
    BY <1>0, <2>1 DEF Session
  <2> QED
    BY <1>0, <2>1, <2>2 DEF SessionTypeOK, Prepared, OnTabs
<1>4. CASE Refresh
  BY <1>4, RefreshAllTyped DEF Refresh, SessionTypeOK, Prepared, OnTabs
<1>5. CASE SetRefresh
  <2>1. PICK t \in BOOLEAN : session' = [session EXCEPT !.timer = t]
    BY <1>5 DEF SetRefresh
  <2>2. /\ session' \in Session
        /\ session'.stompOnly = session.stompOnly
        /\ session'.connected = session.connected
    BY <1>0, <2>1 DEF Session
  <2> QED
    BY <1>0, <1>5, <2>2 DEF SetRefresh, SessionTypeOK, Prepared, OnTabs
<1>6. CASE InfoRead
  <2>1. /\ session' = [session EXCEPT !.connected = TRUE, !.loginok = TRUE]
        /\ target # Unset /\ target' = target
        /\ connecting' \in BOOLEAN /\ busy' \in BOOLEAN
    BY <1>6 DEF InfoRead
  <2>2. session' \in Session
    BY <1>0, <2>1 DEF Session
  <2> QED
    BY <1>0, <2>1, <2>2 DEF SessionTypeOK, Prepared
<1>7. CASE InfoFailed
  <2> DEFINE t == session.timer /\ session.loginok
  <2>1. /\ session' = [session EXCEPT !.timer = t]
        /\ target' = target
        /\ connecting' \in BOOLEAN /\ busy' \in BOOLEAN
    BY <1>7 DEF InfoFailed
  <2>2. t \in BOOLEAN
    BY <1>0 DEF Session
  <2>3. /\ session' \in Session
        /\ session'.stompOnly = session.stompOnly
        /\ session'.connected = session.connected
    <3> HIDE DEF t
    <3> QED BY <1>0, <2>1, <2>2 DEF Session
  <2> QED
    BY <2>1, <2>3, SessionFrame
<1>8. CASE ListRead
  BY <1>0, <1>8 DEF ListRead, SessionTypeOK, Prepared, OnTabs
<1>9. ASSUME NEW f, ListFailed(f)
      PROVE  SessionTypeOK' /\ Prepared' /\ target' = target
  <2>1. /\ session' = AfterReadError(session, f)
        /\ busy' \in {TRUE, connecting \/ Throws(f)}
        /\ UNCHANGED <<target, connecting>>
    BY <1>9 DEF ListFailed
  <2>2. busy' \in BOOLEAN
    BY <1>0, <2>1
  <2> QED
    BY <1>0, <2>1, <2>2, ReadErrorEffect, SessionFrame
<1>10. ASSUME NEW f, ExecFailed(f)
       PROVE  SessionTypeOK' /\ Prepared' /\ target' = target
  <2>1. /\ session' = AfterApiError(session, f)
        /\ RefreshAll \/ UNCHANGED <<connecting, busy>>
        /\ UNCHANGED target
    BY <1>10 DEF ExecFailed
  <2>2. connecting' \in BOOLEAN /\ busy' \in BOOLEAN
    BY <1>0, <2>1, RefreshAllTyped
  <2> QED
    BY <2>1, <2>2, FailureFrame
<1> QED
  BY <1>1, <1>2, <1>3, <1>4, <1>5, <1>6, <1>7, <1>8, <1>9, <1>10
     DEF SessionStep, LogStompOnly, Disconnect, Refresh, SetRefresh, InfoRead,
         InfoFailed, ListRead

\* The session stays well-formed for every set of brokers and of failures.
THEOREM SessionWellFormed == SessionSpec => [](SessionTypeOK /\ Prepared)
<1>1. SessionInit => SessionTypeOK /\ Prepared
  <2> SUFFICES ASSUME SessionInit PROVE SessionTypeOK /\ Prepared
    OBVIOUS
  <2>1. session \in Session /\ ~session.connected
    BY DEF SessionInit, Session
  <2> QED
    BY <2>1 DEF SessionInit, SessionTypeOK, Prepared, OnTabs
<1>2. SessionTypeOK /\ Prepared /\ [SessionStep]_sessionVars
        => SessionTypeOK' /\ Prepared'
  <2>1. CASE UNCHANGED sessionVars
    BY <2>1 DEF sessionVars, SessionTypeOK, Prepared, OnTabs
  <2> QED
    BY <2>1, SessionStepEffect
<1> QED
  BY <1>1, <1>2, PTL DEF SessionSpec

\* Every way to close the tabs stops the timer, and every way to start it has
\* prepared URLs.
LEMMA SessionStepTimer ==
    ASSUME SessionTypeOK, Prepared, TimerHasOwner, SessionStep
    PROVE  TimerHasOwner'
<1>0. session \in Session
  BY DEF SessionTypeOK
<1>1. ASSUME NEW b \in Brokers, Login(b) PROVE TimerHasOwner'
  <2>1. target' = b /\ ~session'.loginok
    BY <1>1 DEF Login
  <2> QED
    BY <2>1 DEF TimerHasOwner
<1>2. CASE LogStompOnly \/ InfoRead
  <2>1. /\ session'.connected /\ session'.timer = session.timer
        /\ target' = target
    BY <1>0, <1>2 DEF LogStompOnly, InfoRead, Session
  <2> QED
    BY <2>1 DEF TimerHasOwner
<1>3. CASE Disconnect
  <2>1. ~session'.timer
    BY <1>0, <1>3 DEF Disconnect, Session
  <2> QED
    BY <2>1 DEF TimerHasOwner
<1>4. CASE Refresh \/ ListRead
  BY <1>4 DEF Refresh, ListRead, TimerHasOwner
<1>5. CASE SetRefresh
  <2>1. OnTabs /\ session'.connected = session.connected /\ target' = target
    BY <1>0, <1>5 DEF SetRefresh, Session
  <2> QED
    BY <2>1 DEF TimerHasOwner, Prepared, OnTabs
<1>6. CASE InfoFailed
  <2> DEFINE t == session.timer /\ session.loginok
  <2>1. session' = [session EXCEPT !.timer = t] /\ target' = target
    BY <1>6 DEF InfoFailed
  <2>2. /\ session'.timer = t
        /\ session'.connected = session.connected
        /\ session'.loginok = session.loginok
    <3> HIDE DEF t
    <3> QED BY <1>0, <2>1 DEF Session
  <2> QED
    BY <2>1, <2>2 DEF TimerHasOwner
<1>7. ASSUME NEW f, ListFailed(f) PROVE TimerHasOwner'
  <2>1. session' = AfterReadError(session, f) /\ target' = target
    BY <1>7 DEF ListFailed
  <2>2. session'.timer => /\ session.timer
                          /\ session'.connected = session.connected
                          /\ session'.loginok = session.loginok
    BY <1>0, <2>1, ReadErrorEffect
  <2> QED
    BY <2>1, <2>2 DEF TimerHasOwner
<1>8. ASSUME NEW f, ExecFailed(f) PROVE TimerHasOwner'
  <2>1. session' = AfterApiError(session, f) /\ target' = target
    BY <1>8 DEF ExecFailed
  <2>2. session'.timer => /\ session.timer
                          /\ session'.connected = session.connected
                          /\ session'.loginok = session.loginok
    BY <1>0, <2>1, ApiErrorEffect
  <2> QED
    BY <2>1, <2>2 DEF TimerHasOwner
<1> QED
  BY <1>1, <1>2, <1>3, <1>4, <1>5, <1>6, <1>7, <1>8 DEF SessionStep

\* Whatever closes the tabs -- the user, a 401 of any call -- stops the timer
\* (stopRefreshTimer in disconnectAMQ and handleApiError), and it never polls
\* before a broker was named.
THEOREM SessionTimer == SessionSpec => []TimerHasOwner
<1>1. SessionInit => TimerHasOwner
  BY DEF SessionInit, TimerHasOwner
<1>2. /\ SessionTypeOK /\ Prepared /\ TimerHasOwner
      /\ [SessionStep]_sessionVars
      => TimerHasOwner'
  <2>1. CASE UNCHANGED sessionVars
    BY <2>1 DEF sessionVars, TimerHasOwner
  <2> QED
    BY <2>1, SessionStepTimer
<1> QED
  BY <1>1, <1>2, SessionWellFormed, PTL DEF SessionSpec

\* Only Connect names another broker, and it is hidden while the tabs are shown
\* and while an info read is outstanding.
THEOREM SessionBroker == SessionSpec => BrokerStays
<1>1. [SessionStep]_sessionVars
        => [target' # target => ~session.connected /\ ~connecting]_sessionVars
  BY DEF SessionStep, Login, LogStompOnly, Disconnect, Refresh, SetRefresh,
         InfoRead, InfoFailed, ListRead, ListFailed, ExecFailed
<1> QED
  BY <1>1, PTL DEF SessionSpec, BrokerStays
=============================================================================
