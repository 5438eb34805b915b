------------------------- MODULE RefreshCycleProofs -------------------------
(***************************************************************************)
(* Proofs about RefreshCycle, for every set of brokers and of failures.    *)
(*                                                                         *)
(* The safety properties are not inductive as they stand: that an info     *)
(* answer comes from the broker logged in to needs that a cycle is issued  *)
(* as a whole (CycleOfTarget), which needs that no request outlives its    *)
(* flag (FlagCoversRequest), and that the Connect button is hidden exactly *)
(* while the info read is outstanding (ConnectingIsInfo).                  *)
(***************************************************************************)
EXTENDS RefreshCycle, TLAPS

FlagCoversRequest ==
    \A s \in Sections : request[s] # None => currentlyRefreshing[s]

ConnectingIsInfo == connecting <=> request[Info] # None

CycleOfTarget ==
    request[Info] # None => \A s \in Sections : request[s] \in {None, target}

Prepared == session.timer \/ ops > 0 => target # Unset

IInv ==
    /\ TypeOK
    /\ FlagCoversRequest
    /\ ConnectingIsInfo
    /\ CycleOfTarget
    /\ ConnectedToTarget
    /\ NoForeignRequest
    /\ TimerHasOwner
    /\ Prepared

USE BrokersAssumption, DistinctAssumption, MaxOpsAssumption, FailuresAssumption

(***************************************************************************)
(* Failed calls: the facts about the session of ConsoleSession, of which   *)
(* this session is an instance.                                            *)
(***************************************************************************)

Facts == INSTANCE ConsoleSessionProofs WITH busy <- isRefreshing

\* setRefresh, and the error callbacks, assign the timer.
LEMMA TimerSet ==
    ASSUME NEW s \in Session, NEW r \in BOOLEAN
    PROVE  [s EXCEPT !.timer = r] \in Session
  BY DEF Session

\* What the error handler of a call may do to the session.
Tightened(t) ==
    /\ t \in Session
    /\ t.stompOnly = session.stompOnly
    /\ t.connected => session.connected
    /\ t.timer => /\ session.timer
                  /\ t.connected = session.connected
                  /\ t.loginok = session.loginok

\* handleApiError, and the error callback of a list, start nothing.
LEMMA FailureTightens ==
    ASSUME session \in Session, NEW f
    PROVE  Tightened(AfterApiError(session, f)) /\ Tightened(AfterReadError(session, f))
<1>0. Facts!Session = Session
  BY DEF Session, Facts!Session
<1>1. Facts!AfterApiError(session, f) = AfterApiError(session, f)
  BY DEF AfterApiError, Facts!AfterApiError, Halting, Facts!Halting
<1>2. Facts!AfterReadError(session, f) = AfterReadError(session, f)
  BY <1>1 DEF AfterReadError, Facts!AfterReadError, Throws, Facts!Throws,
     Worded, Facts!Worded, Halting, Facts!Halting
<1>3. session \in Facts!Session
  BY <1>0
<1>4. LET t == Facts!AfterApiError(session, f)
      IN  /\ t \in Facts!Session
          /\ t.stompOnly = session.stompOnly
          /\ t.connected => session.connected
          /\ t.timer => session.timer /\ t.connected = session.connected
                                      /\ t.loginok = session.loginok
  BY <1>3, Facts!ApiErrorEffect
<1>5. LET t == Facts!AfterReadError(session, f)
      IN  /\ t \in Facts!Session
          /\ t.stompOnly = session.stompOnly
          /\ t.connected => session.connected
          /\ t.timer => session.timer /\ t.connected = session.connected
                                      /\ t.loginok = session.loginok
  BY <1>3, Facts!ReadErrorEffect
<1> QED
  BY <1>0, <1>1, <1>2, <1>4, <1>5 DEF Tightened

(***************************************************************************)
(* The parts of actions.                                                   *)
(***************************************************************************)

\* refreshAll keeps requests and flags in step: either it is refused, or it
\* starts from no request at all and issues requests to one broker.
LEMMA RefreshAllEffect ==
    ASSUME TypeOK, FlagCoversRequest, ConnectingIsInfo,
           NEW b \in Brokers \cup {Unset}, RefreshAll(b)
    PROVE  /\ currentlyRefreshing' \in [Sections -> BOOLEAN]
           /\ request' \in [Sections -> Brokers \cup {Unset, None}]
           /\ connecting' \in BOOLEAN
           /\ FlagCoversRequest'
           /\ ConnectingIsInfo'
           /\ \/ UNCHANGED <<cycleVars, connecting>>
              \/ \A s \in Sections : request'[s] \in {None, b}
<1>1. CASE isRefreshing
  BY <1>1 DEF RefreshAll, TypeOK, FlagCoversRequest, ConnectingIsInfo, cycleVars
<1>2. CASE ~isRefreshing
  <2>1. \A s \in Sections : ~currentlyRefreshing[s] /\ request[s] = None
    BY <1>2 DEF isRefreshing, FlagCoversRequest
  <2>2. /\ currentlyRefreshing' = [s \in Sections |-> s \in Flagged(b)]
        /\ request' = [s \in Sections |-> IF s \in Issued(b) THEN b ELSE None]
        /\ connecting' = TRUE
    <3>1. /\ currentlyRefreshing' =
               [s \in Sections |-> currentlyRefreshing[s] \/ s \in Flagged(b)]
          /\ request' = [s \in Sections |->
                           IF ~currentlyRefreshing[s] /\ s \in Issued(b)
                           THEN b ELSE request[s]]
          /\ connecting' = (connecting \/ ~currentlyRefreshing[Info])
      BY <1>2 DEF RefreshAll
    <3>2. Info \in Sections
      BY DEF Sections
    <3>3. \A s \in Sections :
            /\ (currentlyRefreshing[s] \/ s \in Flagged(b)) = (s \in Flagged(b))
            /\ (IF ~currentlyRefreshing[s] /\ s \in Issued(b)
                THEN b ELSE request[s]) = (IF s \in Issued(b) THEN b ELSE None)
      BY <2>1 DEF TypeOK
    <3>4. connecting' = TRUE
      BY <2>1, <3>1, <3>2
    <3> QED
      BY <3>1, <3>3, <3>4
  <2>3. Issued(b) \subseteq Flagged(b) /\ Info \in Issued(b) /\ Info \in Sections
    BY DEF Issued, Flagged, Sections, Lists, Info
  <2>4. b # None
    OBVIOUS
  <2>5. currentlyRefreshing' \in [Sections -> BOOLEAN]
    BY <2>2
  <2>6. request' \in [Sections -> Brokers \cup {Unset, None}]
    BY <2>2
  <2>7. FlagCoversRequest'
    BY <2>2, <2>3 DEF FlagCoversRequest
  <2>8. ConnectingIsInfo'
    BY <2>2, <2>3, <2>4 DEF ConnectingIsInfo
  <2>9. \A s \in Sections : request'[s] \in {None, b}
    BY <2>2
  <2> QED
    BY <2>2, <2>5, <2>6, <2>7, <2>8, <2>9
<1> QED
  BY <1>1, <1>2

(***************************************************************************)
(* The invariant.                                                          *)
(***************************************************************************)

\* The console starts with the login window, no request and no timer.
THEOREM InitIInv == Init => IInv
<1> SUFFICES ASSUME Init PROVE IInv
  OBVIOUS
<1> USE DEF Init
<1>1. TypeOK
  <2>1. session \in Session
    BY DEF Session
  <2>2. currentlyRefreshing \in [Sections -> BOOLEAN]
    OBVIOUS
  <2>3. /\ request \in [Sections -> Brokers \cup {Unset, None}]
        /\ shown \in [Sections -> Brokers \cup {None}]
        /\ ops \in 0..MaxOps
        /\ response \in Response
    BY DEF Response
  <2> QED
    BY <2>1, <2>2, <2>3 DEF TypeOK
<1>2. FlagCoversRequest /\ CycleOfTarget
  BY DEF FlagCoversRequest, CycleOfTarget, Sections
<1>3. ConnectingIsInfo
  BY DEF ConnectingIsInfo, Sections
<1>4. ConnectedToTarget /\ NoForeignRequest
  BY DEF ConnectedToTarget, NoForeignRequest, OnTabs
<1>5. TimerHasOwner /\ Prepared
  BY DEF TimerHasOwner, Prepared
<1> QED
  BY <1>1, <1>2, <1>3, <1>4, <1>5 DEF IInv

\* The tabs are shown only after prepareURLs ran.
LEMMA OnTabsPrepared == ASSUME TypeOK, ConnectedToTarget, OnTabs
                        PROVE  target \in Brokers
<1>1. Info \in Sections
  BY DEF Sections
<1> QED
  BY <1>1 DEF TypeOK, ConnectedToTarget

\* A refresh of the target: by the button, the timer, or a finished operation,
\* whether it succeeded or failed.
LEMMA RefreshPreserves ==
    ASSUME IInv, RefreshAll(target), ops' \in 0..ops, Tightened(session'),
           UNCHANGED <<target, prefsVars, shown, response>>
    PROVE  IInv'
<1>1. target \in Brokers \cup {Unset}
  BY DEF IInv, TypeOK
<1>2. /\ currentlyRefreshing' \in [Sections -> BOOLEAN]
      /\ request' \in [Sections -> Brokers \cup {Unset, None}]
      /\ connecting' \in BOOLEAN
      /\ FlagCoversRequest'
      /\ ConnectingIsInfo'
      /\ \/ UNCHANGED <<cycleVars, connecting>>
         \/ \A s \in Sections : request'[s] \in {None, target}
  BY <1>1, RefreshAllEffect DEF IInv
<1>3. TypeOK'
  <2>1. ops' \in 0..MaxOps
    BY DEF IInv, TypeOK
  <2> QED
    BY <1>2, <2>1 DEF IInv, TypeOK, prefsVars, Tightened
<1>4. CycleOfTarget'
  <2>1. CASE UNCHANGED <<cycleVars, connecting>>
    BY <2>1 DEF IInv, CycleOfTarget, cycleVars
  <2>2. CASE \A s \in Sections : request'[s] \in {None, target}
    BY <2>2 DEF CycleOfTarget
  <2> QED
    BY <1>2, <2>1, <2>2
<1>5. OnTabs' => OnTabs
  BY DEF Tightened, OnTabs
<1>6. NoForeignRequest'
  <2>1. CASE UNCHANGED <<cycleVars, connecting>>
    BY <1>5, <2>1 DEF IInv, NoForeignRequest, cycleVars
  <2>2. CASE \A s \in Sections : request'[s] \in {None, target}
    BY <2>2 DEF NoForeignRequest
  <2> QED
    BY <1>2, <2>1, <2>2
<1>7. ConnectedToTarget'
  BY <1>5 DEF IInv, ConnectedToTarget
<1>8. TimerHasOwner'
  BY DEF IInv, TimerHasOwner, Tightened
<1>9. Prepared'
  BY DEF IInv, Prepared, TypeOK, Tightened
<1> QED
  BY <1>2, <1>3, <1>4, <1>6, <1>7, <1>8, <1>9 DEF IInv

\* A step of the session that leaves the cycle alone and does not log in.
LEMMA SessionPreserves ==
    ASSUME IInv, session' \in Session, ops' \in 0..MaxOps,
           interval' \in BOOLEAN, urlRate' \in BOOLEAN,
           OnTabs' => OnTabs,
           TimerHasOwner', Prepared',
           UNCHANGED <<target, connecting, cycleVars, shown, response>>
    PROVE  IInv'
<1>1. TypeOK'
  BY DEF IInv, TypeOK, cycleVars
<1>2. FlagCoversRequest' /\ ConnectingIsInfo' /\ CycleOfTarget'
  BY DEF IInv, FlagCoversRequest, ConnectingIsInfo, CycleOfTarget, cycleVars
<1>3. ConnectedToTarget' /\ NoForeignRequest'
  BY DEF IInv, ConnectedToTarget, NoForeignRequest, cycleVars
<1> QED
  BY <1>1, <1>2, <1>3 DEF IInv

\* The answer of a section: its request is gone.
LEMMA SettleEffect ==
    ASSUME TypeOK, FlagCoversRequest, CycleOfTarget, UNCHANGED target,
           NEW s \in Sections, NEW stuck \in BOOLEAN, Settle(s, stuck)
    PROVE  /\ currentlyRefreshing' \in [Sections -> BOOLEAN]
           /\ request' \in [Sections -> Brokers \cup {Unset, None}]
           /\ request'[s] = None
           /\ \A r \in Sections : request'[r] \in {None, request[r]}
           /\ \A r \in Sections \ {s} :
                  /\ request'[r] = request[r]
                  /\ currentlyRefreshing'[r] = currentlyRefreshing[r]
           /\ FlagCoversRequest'
           /\ CycleOfTarget'
<1>1. /\ request' = [request EXCEPT ![s] = None]
      /\ currentlyRefreshing' = [currentlyRefreshing EXCEPT ![s] = stuck]
  BY DEF Settle
<1>2. /\ request' \in [Sections -> Brokers \cup {Unset, None}]
      /\ request'[s] = None
      /\ \A r \in Sections \ {s} : request'[r] = request[r]
  BY <1>1 DEF TypeOK
<1>3. /\ currentlyRefreshing' \in [Sections -> BOOLEAN]
      /\ \A r \in Sections \ {s} : currentlyRefreshing'[r] = currentlyRefreshing[r]
  BY <1>1 DEF TypeOK
<1>4. FlagCoversRequest'
  BY <1>2, <1>3 DEF FlagCoversRequest
<1>5. CycleOfTarget'
  <2>1. Info \in Sections
    BY DEF Sections
  <2> QED
    BY <1>2, <2>1 DEF CycleOfTarget
<1> QED
  BY <1>2, <1>3, <1>4, <1>5

\* Connect: the info read is not outstanding, so either no cycle is running
\* and one to the new broker starts, or the old one goes on without the info.
LEMMA LoginPreserves == ASSUME IInv, NEW b \in Brokers, Login(b) PROVE IInv'
<1>1. PICK loaded \in BOOLEAN :
        SetRefresh(loaded, [session EXCEPT !.loginok   = FALSE,
                                           !.stompOnly = FALSE])
  BY DEF Login
<1> DEFINE fresh == [session EXCEPT !.loginok = FALSE, !.stompOnly = FALSE]
           r == loaded \/ urlRate
<1>2. /\ ~session.connected
      /\ ~connecting
      /\ target' = b
      /\ RefreshAll(b)
      /\ UNCHANGED <<shown, ops, response>>
  BY DEF Login
<1>3. session \in Session /\ urlRate \in BOOLEAN
  BY DEF IInv, TypeOK
<1>4. r \in BOOLEAN
  BY <1>3
<1>5. fresh \in Session /\ fresh.connected = session.connected /\ fresh.loginok = FALSE
  BY <1>3 DEF Session
<1>6. interval' = r /\ urlRate' = FALSE /\ session' = [fresh EXCEPT !.timer = r]
  BY <1>1 DEF SetRefresh
<1>7. session' \in Session /\ ~session'.connected /\ ~session'.loginok
  <2> HIDE DEF fresh, r
  <2>1. session' \in Session
    BY <1>4, <1>5, <1>6, TimerSet
  <2>2. session'.connected = fresh.connected /\ session'.loginok = fresh.loginok
    BY <1>5, <1>6 DEF Session
  <2> QED
    BY <1>2, <1>5, <2>1, <2>2
<1>8. /\ currentlyRefreshing' \in [Sections -> BOOLEAN]
      /\ request' \in [Sections -> Brokers \cup {Unset, None}]
      /\ connecting' \in BOOLEAN
      /\ FlagCoversRequest'
      /\ ConnectingIsInfo'
      /\ \/ UNCHANGED <<cycleVars, connecting>>
         \/ \A s \in Sections : request'[s] \in {None, b}
  BY <1>2, RefreshAllEffect DEF IInv
<1>9. TypeOK'
  <2> HIDE DEF r
  <2> QED BY <1>2, <1>4, <1>6, <1>7, <1>8 DEF IInv, TypeOK
<1>10. CycleOfTarget'
  <2>1. CASE UNCHANGED <<cycleVars, connecting>>
    BY <1>2, <2>1 DEF IInv, ConnectingIsInfo, CycleOfTarget, cycleVars
  <2>2. CASE \A s \in Sections : request'[s] \in {None, b}
    BY <1>2, <2>2 DEF CycleOfTarget
  <2> QED
    BY <1>8, <2>1, <2>2
<1>11. ConnectedToTarget' /\ NoForeignRequest'
  BY <1>7 DEF ConnectedToTarget, NoForeignRequest, OnTabs
<1>12. TimerHasOwner' /\ Prepared'
  BY <1>2, <1>7 DEF TimerHasOwner, Prepared
<1> QED
  BY <1>8, <1>9, <1>10, <1>11, <1>12 DEF IInv

\* The steps of the user that leave the cycle alone.
LEMMA UserPreserves ==
    ASSUME IInv,
           \/ LogStompOnly
           \/ Disconnect
           \/ \E i \in BOOLEAN : EditInterval(i)
           \/ UpdateAutoRefresh
           \/ Exec
    PROVE  IInv'
<1>0. /\ TypeOK /\ TimerHasOwner /\ Prepared
      /\ session \in Session /\ interval \in BOOLEAN /\ urlRate \in BOOLEAN
      /\ ops \in 0..MaxOps /\ ConnectedToTarget
  BY DEF IInv, TypeOK
<1>1. CASE LogStompOnly
  <2>1. /\ session' \in Session
        /\ session'.connected /\ session'.stompOnly
        /\ session'.timer = session.timer
    BY <1>0, <1>1 DEF LogStompOnly, Session
  <2>2. ~OnTabs' /\ TimerHasOwner' /\ Prepared'
    BY <1>0, <1>1, <2>1 DEF LogStompOnly, OnTabs, TimerHasOwner, Prepared
  <2> QED
    BY <1>0, <1>1, <2>1, <2>2, SessionPreserves DEF LogStompOnly, prefsVars
<1>2. CASE Disconnect
  <2>1. session' \in Session /\ ~session'.connected /\ ~session'.timer
    BY <1>0, <1>2 DEF Disconnect, Session
  <2>2. ~OnTabs' /\ TimerHasOwner' /\ Prepared'
    BY <1>0, <1>2, <2>1 DEF Disconnect, OnTabs, TimerHasOwner, Prepared
  <2> QED
    BY <1>0, <1>2, <2>1, <2>2, SessionPreserves DEF Disconnect, prefsVars
<1>3. CASE \E i \in BOOLEAN : EditInterval(i)
  <2>1. OnTabs' = OnTabs /\ TimerHasOwner' /\ Prepared'
    BY <1>0, <1>3 DEF EditInterval, OnTabs, TimerHasOwner, Prepared
  <2> QED
    BY <1>0, <1>3, <2>1, SessionPreserves DEF EditInterval
<1>4. CASE UpdateAutoRefresh
  <2> DEFINE r == interval \/ urlRate
  <2>1. /\ OnTabs
        /\ interval' = r /\ urlRate' = FALSE /\ session' = [session EXCEPT !.timer = r]
        /\ UNCHANGED <<target, connecting, cycleVars, shown, ops, response>>
    BY <1>4 DEF UpdateAutoRefresh, SetRefresh
  <2>2. r \in BOOLEAN
    BY <1>0
  <2>3. /\ session' \in Session
        /\ session'.connected = session.connected
        /\ session'.stompOnly = session.stompOnly
    <3> HIDE DEF r
    <3>1. session' \in Session
      BY <1>0, <2>1, <2>2, TimerSet
    <3>2. /\ session'.connected = session.connected
          /\ session'.stompOnly = session.stompOnly
      BY <1>0, <2>1 DEF Session
    <3> QED
      BY <3>1, <3>2
  <2>4. target # Unset
    BY <1>0, <2>1, OnTabsPrepared
  <2>5. TimerHasOwner' /\ Prepared' /\ OnTabs'
    BY <2>1, <2>3, <2>4 DEF OnTabs, TimerHasOwner, Prepared
  <2> QED
    <3> HIDE DEF r
    <3> QED BY <1>0, <2>1, <2>2, <2>3, <2>5, SessionPreserves
<1>5. CASE Exec
  <2>1. /\ OnTabs
        /\ ops' \in 0..MaxOps
        /\ UNCHANGED <<target, session, connecting, prefsVars, cycleVars, shown,
                       response>>
    BY <1>0, <1>5 DEF Exec
  <2>2. target # Unset
    BY <1>0, <2>1, OnTabsPrepared
  <2>3. TimerHasOwner' /\ Prepared' /\ OnTabs' = OnTabs
    BY <1>0, <2>1, <2>2 DEF OnTabs, TimerHasOwner, Prepared
  <2> QED
    BY <1>0, <2>1, <2>3, SessionPreserves DEF prefsVars
<1> QED
  BY <1>1, <1>2, <1>3, <1>4, <1>5

\* A successful info read shows the tabs: what it brings is the target's, and
\* so is everything still outstanding.
LEMMA InfoReadPreserves == ASSUME IInv, InfoRead PROVE IInv'
<1>0. /\ TypeOK /\ FlagCoversRequest /\ CycleOfTarget /\ Prepared
      /\ session \in Session /\ Info \in Sections
  BY DEF IInv, TypeOK, Sections
<1>1. /\ request[Info] \in Brokers
      /\ session' = [session EXCEPT !.connected = TRUE, !.loginok = TRUE]
      /\ connecting' = FALSE
      /\ shown' = [shown EXCEPT ![Info] = request[Info]]
      /\ Settle(Info, FALSE)
      /\ UNCHANGED <<target, interval, urlRate, ops, response>>
  BY DEF InfoRead, prefsVars
<1>2. /\ request[Info] = target
      /\ \A s \in Sections : request[s] \in {None, target}
  BY <1>0, <1>1 DEF CycleOfTarget
<1>3. /\ session' \in Session
      /\ session'.connected
      /\ session'.timer = session.timer
  BY <1>0, <1>1 DEF Session
<1>4. /\ currentlyRefreshing' \in [Sections -> BOOLEAN]
      /\ request' \in [Sections -> Brokers \cup {Unset, None}]
      /\ request'[Info] = None
      /\ \A s \in Sections : request'[s] \in {None, request[s]}
      /\ FlagCoversRequest' /\ CycleOfTarget'
  BY <1>0, <1>1, SettleEffect
<1>5. shown' \in [Sections -> Brokers \cup {None}] /\ shown'[Info] = target
  BY <1>0, <1>1, <1>2 DEF TypeOK
<1>6. TypeOK'
  BY <1>0, <1>1, <1>3, <1>4, <1>5 DEF TypeOK
<1>7. ConnectingIsInfo' /\ ConnectedToTarget'
  BY <1>1, <1>4, <1>5 DEF ConnectingIsInfo, ConnectedToTarget
<1>8. NoForeignRequest'
  BY <1>1, <1>2, <1>4 DEF NoForeignRequest
<1>9. TimerHasOwner' /\ Prepared'
  BY <1>0, <1>1, <1>3 DEF TimerHasOwner, Prepared
<1> QED
  BY <1>4, <1>6, <1>7, <1>8, <1>9 DEF IInv

\* A failed info read stops a timer that no login stands behind.
LEMMA InfoFailedPreserves == ASSUME IInv, InfoFailed PROVE IInv'
<1> DEFINE r == session.timer /\ session.loginok
<1>0. /\ TypeOK /\ FlagCoversRequest /\ CycleOfTarget /\ Prepared
      /\ TimerHasOwner /\ ConnectedToTarget /\ NoForeignRequest
      /\ session \in Session /\ Info \in Sections
  BY DEF IInv, TypeOK, Sections
<1>1. /\ session' = [session EXCEPT !.timer = r]
      /\ connecting' = FALSE
      /\ Settle(Info, FALSE)
      /\ UNCHANGED <<target, interval, urlRate, shown, ops, response>>
  BY DEF InfoFailed, prefsVars
<1>2. r \in BOOLEAN
  BY <1>0 DEF Session
<1>3. /\ session' \in Session
      /\ session'.connected = session.connected
      /\ session'.stompOnly = session.stompOnly
      /\ session'.loginok = session.loginok
      /\ session'.timer => session.timer
  <2>1. session'.timer = r
    <3> HIDE DEF r
    <3> QED BY <1>0, <1>1 DEF Session
  <2>2. /\ session'.connected = session.connected
        /\ session'.stompOnly = session.stompOnly
        /\ session'.loginok = session.loginok
    <3> HIDE DEF r
    <3> QED BY <1>0, <1>1 DEF Session
  <2>3. session' \in Session
    <3> HIDE DEF r
    <3> QED BY <1>0, <1>1, <1>2, TimerSet
  <2> QED
    BY <2>1, <2>2, <2>3
<1>4. /\ currentlyRefreshing' \in [Sections -> BOOLEAN]
      /\ request' \in [Sections -> Brokers \cup {Unset, None}]
      /\ request'[Info] = None
      /\ \A s \in Sections : request'[s] \in {None, request[s]}
      /\ FlagCoversRequest' /\ CycleOfTarget'
  BY <1>0, <1>1, SettleEffect
<1>5. TypeOK'
  <2> HIDE DEF r
  <2> QED BY <1>0, <1>1, <1>3, <1>4 DEF TypeOK
<1>6. ConnectingIsInfo' /\ ConnectedToTarget'
  BY <1>0, <1>1, <1>3, <1>4 DEF ConnectingIsInfo, ConnectedToTarget, OnTabs
<1>7. NoForeignRequest'
  BY <1>0, <1>1, <1>3, <1>4 DEF NoForeignRequest, OnTabs
<1>8. TimerHasOwner' /\ Prepared'
  BY <1>0, <1>1, <1>3 DEF TimerHasOwner, Prepared
<1> QED
  BY <1>4, <1>5, <1>6, <1>7, <1>8 DEF IInv

\* The answer of a list, good or bad, with what it does to the session.
LEMMA ListPreserves ==
    ASSUME IInv, NEW s \in Lists, NEW stuck \in BOOLEAN, Settle(s, stuck),
           session' \in Session,
           session'.stompOnly = session.stompOnly,
           session'.connected => session.connected,
           session'.timer => /\ session.timer
                             /\ session'.connected = session.connected
                             /\ session'.loginok = session.loginok,
           shown' \in [Sections -> Brokers \cup {None}],
           shown'[Info] = shown[Info],
           response' \in Response,
           UNCHANGED <<target, connecting, interval, urlRate, ops>>
    PROVE  IInv'
<1>0. /\ TypeOK /\ FlagCoversRequest /\ CycleOfTarget /\ Prepared
      /\ TimerHasOwner /\ ConnectedToTarget /\ NoForeignRequest /\ ConnectingIsInfo
  BY DEF IInv
<1>1. s \in Sections /\ Info \in Sections \ {s}
  BY DEF Sections, Lists, Info
<1>2. /\ currentlyRefreshing' \in [Sections -> BOOLEAN]
      /\ request' \in [Sections -> Brokers \cup {Unset, None}]
      /\ request'[Info] = request[Info]
      /\ \A r \in Sections : request'[r] \in {None, request[r]}
      /\ FlagCoversRequest' /\ CycleOfTarget'
  BY <1>0, <1>1, SettleEffect
<1>3. TypeOK'
  BY <1>0, <1>2 DEF TypeOK
<1>4. ConnectingIsInfo' /\ ConnectedToTarget'
  BY <1>0, <1>2 DEF ConnectingIsInfo, ConnectedToTarget, OnTabs
<1>5. NoForeignRequest'
  BY <1>0, <1>2 DEF NoForeignRequest, OnTabs
<1>6. TimerHasOwner' /\ Prepared'
  BY <1>0 DEF TimerHasOwner, Prepared
<1> QED
  BY <1>2, <1>3, <1>4, <1>5, <1>6 DEF IInv

\* A list that was read: the session is not touched.
LEMMA ListReadPreserves == ASSUME IInv, NEW s \in Lists, ListRead(s) PROVE IInv'
<1>1. s \in Sections /\ Info \in Sections /\ Info # s
  BY DEF Sections, Lists, Info
<1>2. /\ request[s] \in Brokers
      /\ shown' = [shown EXCEPT ![s] = request[s]]
      /\ response' \in Response
      /\ UNCHANGED <<target, session, connecting, interval, urlRate, ops>>
  BY DEF ListRead, prefsVars, Response
<1>3. /\ shown' \in [Sections -> Brokers \cup {None}]
      /\ shown'[Info] = shown[Info]
  BY <1>1, <1>2 DEF IInv, TypeOK
<1>4. session' \in Session
  BY <1>2 DEF IInv, TypeOK
<1>5. PICK stuck \in BOOLEAN : Settle(s, stuck)
  BY DEF ListRead
<1> QED
  BY <1>2, <1>3, <1>4, <1>5, ListPreserves

\* A list that could not be read, whatever the failure does to the session.
LEMMA ListFailedPreserves == ASSUME IInv, NEW s \in Lists, ListFailed(s) PROVE IInv'
<1>1. PICK f \in FailuresOf(request[s]) :
        /\ session' = AfterReadError(session, f)
        /\ Settle(s, Throws(f))
        /\ response' = Error(f)
  BY DEF ListFailed
<1>2. UNCHANGED <<target, connecting, interval, urlRate, shown, ops>>
  BY DEF ListFailed, prefsVars
<1>3. session \in Session /\ shown \in [Sections -> Brokers \cup {None}]
  BY DEF IInv, TypeOK
<1>4. f \in [status : Int, object : BOOLEAN]
  <2>1. CASE f \in Failures
    BY <2>1
  <2>2. CASE f = NoReply
    BY <2>2 DEF NoReply
  <2> QED
    BY <2>1, <2>2 DEF FailuresOf
<1>5. Throws(f) \in BOOLEAN
  BY <1>4 DEF Throws
<1>6. /\ session' \in Session
      /\ session'.stompOnly = session.stompOnly
      /\ session'.connected => session.connected
      /\ session'.timer => /\ session.timer
                           /\ session'.connected = session.connected
                           /\ session'.loginok = session.loginok
  BY <1>1, <1>3, FailureTightens DEF Tightened
<1>7. response' \in Response
  BY <1>1 DEF FailuresOf, Response
<1> QED
  BY <1>1, <1>2, <1>3, <1>5, <1>6, <1>7, ListPreserves

\* A query that is answered, or an operation that fails.
LEMMA OperationPreserves == ASSUME IInv, QueryDone \/ ExecFailed PROVE IInv'
<1>0. /\ TypeOK /\ TimerHasOwner /\ Prepared /\ session \in Session
      /\ ops \in 0..MaxOps /\ interval \in BOOLEAN /\ urlRate \in BOOLEAN
  BY DEF IInv, TypeOK
<1>1. /\ ops > 0 /\ ops' = ops - 1
      /\ UNCHANGED <<target, interval, urlRate, shown, response>>
      /\ RefreshAll(target) \/ UNCHANGED <<cycleVars, connecting>>
  BY DEF QueryDone, ExecFailed, prefsVars
<1>2. ops' \in 0..MaxOps /\ ops' \in 0..ops
  BY <1>0, <1>1
<1>3. Tightened(session')
  <2>1. CASE QueryDone
    BY <1>0, <2>1 DEF QueryDone, Tightened
  <2>2. CASE ExecFailed
    <3>1. PICK f \in Rejections : session' = AfterApiError(session, f)
      BY <2>2 DEF ExecFailed
    <3> QED
      BY <1>0, <3>1, FailureTightens
  <2> QED
    BY <2>1, <2>2
<1>4. TimerHasOwner' /\ Prepared' /\ (OnTabs' => OnTabs)
  BY <1>0, <1>1, <1>3 DEF TimerHasOwner, Prepared, OnTabs, Tightened
<1>5. CASE UNCHANGED <<cycleVars, connecting>>
  <2>1. session' \in Session
    BY <1>3 DEF Tightened
  <2> QED
    BY <1>0, <1>1, <1>2, <1>4, <1>5, <2>1, SessionPreserves
<1>6. CASE RefreshAll(target)
  BY <1>1, <1>2, <1>3, <1>6, RefreshPreserves DEF prefsVars
<1> QED
  BY <1>1, <1>5, <1>6

\* Every step keeps the invariant.
THEOREM NextIInv == IInv /\ [Next]_vars => IInv'
<1> SUFFICES ASSUME IInv, [Next]_vars PROVE IInv'
  OBVIOUS
<1>1. ASSUME NEW b \in Brokers, Login(b) PROVE IInv'
  BY <1>1, LoginPreserves
<1>2. CASE \/ LogStompOnly \/ Disconnect \/ UpdateAutoRefresh \/ Exec
           \/ \E i \in BOOLEAN : EditInterval(i)
  BY <1>2, UserPreserves
<1>3. CASE RefreshButton \/ Tick \/ ExecDone
  <2>1. ops \in 0..MaxOps
    BY DEF IInv, TypeOK
  <2>2. /\ RefreshAll(target)
        /\ UNCHANGED <<target, session, prefsVars, shown, response>>
    BY <1>3 DEF RefreshButton, Tick, ExecDone
  <2>3. ops' \in 0..ops
    BY <1>3, <2>1 DEF RefreshButton, Tick, ExecDone
  <2>4. Tightened(session')
    BY <2>2 DEF IInv, TypeOK, Tightened
  <2> QED
    BY <2>2, <2>3, <2>4, RefreshPreserves
<1>4. CASE QueryDone \/ ExecFailed
  BY <1>4, OperationPreserves
<1>5. CASE Answer
  BY <1>5, InfoReadPreserves, InfoFailedPreserves, ListReadPreserves,
     ListFailedPreserves DEF Answer
<1>6. CASE UNCHANGED vars
  BY <1>6 DEF vars, IInv, TypeOK, FlagCoversRequest, ConnectingIsInfo,
     CycleOfTarget, ConnectedToTarget, NoForeignRequest, TimerHasOwner,
     Prepared, OnTabs
<1> QED
  BY <1>1, <1>2, <1>3, <1>4, <1>5, <1>6 DEF Next

\* Type correctness of the cycle, for every set of brokers and failures.
THEOREM TypeCorrect == Spec => []TypeOK
<1>1. IInv => TypeOK
  BY DEF IInv
<1> QED
  BY InitIInv, NextIInv, <1>1, PTL DEF Spec

\* The tabs always show the broker that operations are sent to.
THEOREM TabsShowTarget == Spec => []ConnectedToTarget
<1>1. IInv => ConnectedToTarget
  BY DEF IInv
<1> QED
  BY InitIInv, NextIInv, <1>1, PTL DEF Spec

\* ... and nothing of another broker is still to arrive while they are shown.
THEOREM NoForeignAnswer == Spec => []NoForeignRequest
<1>1. IInv => NoForeignRequest
  BY DEF IInv
<1> QED
  BY InitIInv, NextIInv, <1>1, PTL DEF Spec

\* No timer is left behind by a logout, whichever way it happened.
THEOREM TimerStops == Spec => []TimerHasOwner
<1>1. IInv => TimerHasOwner
  BY DEF IInv
<1> QED
  BY InitIInv, NextIInv, <1>1, PTL DEF Spec

(***************************************************************************)
(* How a section gets stuck.                                               *)
(***************************************************************************)

\* refreshAll leaves a flag without a request only for the connections, and
\* only before any URL is prepared.
LEMMA RefreshAllSticks ==
    ASSUME TypeOK, NEW b \in Brokers \cup {Unset}, RefreshAll(b),
           NEW s \in Sections, ~Stuck(s), Stuck(s)'
    PROVE  s = Connections /\ b = Unset /\ ~isRefreshing
<1>1. ~isRefreshing
  BY DEF RefreshAll, Stuck, cycleVars
<1>2. ~currentlyRefreshing[s]
  BY <1>1 DEF isRefreshing
<1>3. /\ currentlyRefreshing'[s] = (currentlyRefreshing[s] \/ s \in Flagged(b))
      /\ request'[s] = IF ~currentlyRefreshing[s] /\ s \in Issued(b)
                       THEN b ELSE request[s]
  BY <1>1 DEF RefreshAll
<1>4. currentlyRefreshing'[s] /\ request'[s] = None
  BY DEF Stuck
<1>5. s \in Flagged(b)
  BY <1>2, <1>3, <1>4
<1>6. s \notin Issued(b)
  BY <1>2, <1>3, <1>4
<1>7. s = Connections
  BY <1>5, <1>6 DEF Flagged
<1>8. b = Unset
  BY <1>6 DEF Issued
<1> QED
  BY <1>1, <1>7, <1>8

\* An answer leaves its own flag set if its callback has thrown.
LEMMA SettleSticks ==
    ASSUME TypeOK, NEW t \in Sections, NEW stuck \in BOOLEAN, Settle(t, stuck),
           NEW s \in Sections, ~Stuck(s), Stuck(s)'
    PROVE  s = t /\ stuck
<1>1. /\ request' = [request EXCEPT ![t] = None]
      /\ currentlyRefreshing' = [currentlyRefreshing EXCEPT ![t] = stuck]
  BY DEF Settle
<1>2. s = t
  BY <1>1 DEF Stuck, TypeOK
<1>3. stuck
  BY <1>1, <1>2 DEF Stuck, TypeOK
<1> QED
  BY <1>2, <1>3

\* Nothing else leaves a flag set that no answer will clear: whatever the
\* responses and their order, the callback that leaves its flag has thrown.
THEOREM StuckByThrows == Spec => OnlyThrowsStick
<1>1. ASSUME IInv, [Next]_vars, NEW s \in Sections, ~Stuck(s), Stuck(s)'
      PROVE  \/ /\ s \in Lists /\ request[s] # None
                /\ Throws(response'.error) \/ response' = PartialList
             \/ s = Connections /\ target = Unset /\ ~isRefreshing
  <2>0. TypeOK /\ target \in Brokers \cup {Unset}
    BY <1>1 DEF IInv, TypeOK
  <2>1. CASE \E b \in Brokers : Login(b)
    <3>1. PICK b \in Brokers : RefreshAll(b)
      BY <2>1 DEF Login
    <3>2. b = Unset
      BY <1>1, <2>0, <3>1, RefreshAllSticks
    <3> QED
      BY <3>1, <3>2
  <2>2. CASE RefreshButton \/ Tick \/ ExecDone \/ (ExecFailed /\ RefreshAll(target))
    <3>1. RefreshAll(target)
      BY <2>2 DEF RefreshButton, Tick, ExecDone
    <3> QED
      BY <1>1, <2>0, <3>1, RefreshAllSticks
  <2>3. CASE \/ LogStompOnly \/ Disconnect \/ UpdateAutoRefresh \/ Exec
             \/ \E i \in BOOLEAN : EditInterval(i)
             \/ QueryDone \/ (ExecFailed /\ ~RefreshAll(target)) \/ UNCHANGED vars
    <3>1. UNCHANGED cycleVars
      BY <2>3 DEF LogStompOnly, Disconnect, UpdateAutoRefresh, Exec, EditInterval,
         QueryDone, ExecFailed, vars, cycleVars
    <3> QED
      BY <1>1, <3>1 DEF Stuck, cycleVars
  <2>4. CASE InfoRead \/ InfoFailed
    <3>1. Info \in Sections /\ Settle(Info, FALSE)
      BY <2>4 DEF InfoRead, InfoFailed, Sections
    <3> QED
      BY <1>1, <2>0, <3>1, SettleSticks
  <2>5. ASSUME NEW t \in Lists, ListRead(t)
        PROVE  s = t /\ request[t] # None /\ response' = PartialList
    <3>1. /\ t \in Sections /\ request[t] # None
          /\ Settle(t, FALSE) \/ (Settle(t, TRUE) /\ response' = PartialList)
      BY <2>5 DEF ListRead, Sections
    <3>2. ~Settle(t, FALSE)
      BY <1>1, <2>0, <3>1, SettleSticks
    <3> QED
      BY <1>1, <2>0, <3>1, <3>2, SettleSticks
  <2>6. ASSUME NEW t \in Lists, ListFailed(t)
        PROVE  s = t /\ request[t] # None /\ Throws(response'.error)
    <3>1. PICK f \in FailuresOf(request[t]) :
            request[t] # None /\ Settle(t, Throws(f)) /\ response' = Error(f)
      BY <2>6 DEF ListFailed
    <3>2. t \in Sections
      BY DEF Sections
    <3>3. Throws(f) \in BOOLEAN
      BY DEF Throws, FailuresOf, NoReply
    <3>4. s = t /\ Throws(f)
      BY <1>1, <2>0, <3>1, <3>2, <3>3, SettleSticks
    <3>5. response'.error = f
      BY <3>1 DEF Error
    <3> QED
      BY <3>1, <3>4, <3>5
  <2> QED
    BY <1>1, <2>1, <2>2, <2>3, <2>4, <2>5, <2>6 DEF Next, Answer
<1>2. IInv /\ [Next]_vars =>
        [\A s \in Sections :
            ~Stuck(s) /\ Stuck(s)' =>
               \/ /\ s \in Lists /\ request[s] # None
                  /\ Throws(response'.error) \/ response' = PartialList
               \/ s = Connections /\ target = Unset /\ ~isRefreshing]_vars
  BY <1>1
<1> QED
  BY InitIInv, NextIInv, <1>2, PTL DEF Spec, OnlyThrowsStick

(***************************************************************************)
(* What a stuck section means.                                             *)
(***************************************************************************)

\* While a section is stuck refreshAll returns at once.
LEMMA StuckRefuses ==
    ASSUME NEW t \in Sections, Stuck(t), NEW b, RefreshAll(b)
    PROVE  UNCHANGED cycleVars
  BY DEF RefreshAll, Stuck, isRefreshing, cycleVars

\* An answer settles the section that waited for it, and no stuck one.
LEMMA SettleSpares ==
    ASSUME TypeOK, NEW t \in Sections, request[t] # None,
           NEW stuck, Settle(t, stuck), NEW s \in Sections
    PROVE  /\ Stuck(s) => Stuck(s)'
           /\ request'[s] \in {request[s], None}
           /\ request[s] = None => s # t
  BY DEF Settle, Stuck, TypeOK

\* One callback that threw ends the refreshing for good: as refreshAll asks
\* whether any flag is set, nothing is read again by timer, button, operation
\* or login, and no login succeeds.
THEOREM StuckStays == Spec => StuckForGood
<1>1. ASSUME IInv, [Next]_vars, NEW t \in Sections, Stuck(t), NEW s \in Sections
      PROVE  /\ Stuck(s) => Stuck(s)'
             /\ request'[s] \in {request[s], None}
             /\ request[s] = None => shown'[s] = shown[s]
  <2>0. TypeOK
    BY <1>1 DEF IInv
  <2>1. CASE UNCHANGED <<cycleVars, shown>>
    BY <2>1 DEF Stuck, cycleVars
  <2>2. CASE \/ \E b \in Brokers : Login(b)
             \/ LogStompOnly \/ Disconnect \/ RefreshButton
             \/ \E i \in BOOLEAN : EditInterval(i)
             \/ UpdateAutoRefresh \/ Exec \/ Tick \/ ExecDone \/ QueryDone
             \/ ExecFailed \/ UNCHANGED vars
    <3>1. UNCHANGED <<cycleVars, shown>>
      BY <1>1, <2>2, StuckRefuses DEF Login, LogStompOnly, Disconnect, RefreshButton,
         EditInterval, UpdateAutoRefresh, Exec, Tick, ExecDone, QueryDone,
         ExecFailed, vars, cycleVars
    <3> QED
      BY <2>1, <3>1
  <2>3. CASE InfoRead
    <3>1. /\ Info \in Sections /\ request[Info] # None /\ Settle(Info, FALSE)
          /\ shown' = [shown EXCEPT ![Info] = request[Info]]
      BY <2>3 DEF InfoRead, Sections
    <3> QED
      BY <2>0, <3>1, SettleSpares DEF TypeOK
  <2>4. CASE InfoFailed
    <3>1. Info \in Sections /\ request[Info] # None /\ Settle(Info, FALSE) /\ shown' = shown
      BY <2>4 DEF InfoFailed, Sections
    <3> QED
      BY <2>0, <3>1, SettleSpares
  <2>5. ASSUME NEW u \in Lists, ListRead(u)
        PROVE  /\ Stuck(s) => Stuck(s)'
               /\ request'[s] \in {request[s], None}
               /\ request[s] = None => shown'[s] = shown[s]
    <3>1. /\ u \in Sections /\ request[u] # None
          /\ Settle(u, FALSE) \/ Settle(u, TRUE)
          /\ shown' = [shown EXCEPT ![u] = request[u]]
      BY <2>5 DEF ListRead, Sections
    <3> QED
      BY <2>0, <3>1, SettleSpares DEF TypeOK
  <2>6. ASSUME NEW u \in Lists, ListFailed(u)
        PROVE  /\ Stuck(s) => Stuck(s)'
               /\ request'[s] \in {request[s], None}
               /\ request[s] = None => shown'[s] = shown[s]
    <3>1. PICK f : Settle(u, Throws(f))
      BY <2>6 DEF ListFailed
    <3>2. u \in Sections /\ request[u] # None /\ shown' = shown
      BY <2>6 DEF ListFailed, Sections
    <3> QED
      BY <2>0, <3>1, <3>2, SettleSpares
  <2> QED
    BY <1>1, <2>2, <2>3, <2>4, <2>5, <2>6 DEF Next, Answer
<1>2. IInv /\ [Next]_vars =>
        [(\E t \in Sections : Stuck(t)) =>
            \A s \in Sections :
               /\ Stuck(s) => Stuck(s)'
               /\ request'[s] \in {request[s], None}
               /\ request[s] = None => shown'[s] = shown[s]]_vars
  BY <1>1
<1> QED
  BY InitIInv, NextIInv, <1>2, PTL DEF Spec, StuckForGood

(***************************************************************************)
(* Where nothing throws, nothing gets stuck.                               *)
(***************************************************************************)

\* A refresh with prepared URLs issues the request of every flag it sets.
LEMMA RefreshAllPends ==
    ASSUME FlagMeansPending, NEW b \in Brokers, RefreshAll(b)
    PROVE  FlagMeansPending'
<1>1. CASE isRefreshing
  BY <1>1 DEF RefreshAll, cycleVars, FlagMeansPending
<1>2. CASE ~isRefreshing
  <2>1. Issued(b) = Sections /\ Flagged(b) = Sections /\ b # None
    BY DEF Issued, Flagged, Connections, Sections, Lists
  <2> QED
    BY <1>2, <2>1 DEF RefreshAll, isRefreshing, FlagMeansPending
<1> QED
  BY <1>1, <1>2

\* An answer whose callback does not throw clears the flag with the request.
LEMMA SettlePends ==
    ASSUME TypeOK, FlagMeansPending, NEW s \in Sections, Settle(s, FALSE)
    PROVE  FlagMeansPending'
  BY DEF TypeOK, FlagMeansPending, Settle

\* The stomp-only mode opens the tabs over URLs that were never prepared.
NotStompOnly == ~session.stompOnly

\* "Hasn't returned from previous call yet" is true of a console on which no
\* broker or proxy answers an unworded status with an object, or a list without
\* a field its callback reads, and on which the stomp-only mode is not used:
\* nothing else is needed.
THEOREM FlagsTrueIfNoThrow ==
    ASSUME UseStompOnly = FALSE, \A f \in Failures : ~Throws(f), Incomplete = {}
    PROVE  Spec => []FlagMeansPending
<1> DEFINE Inv == IInv /\ NotStompOnly /\ FlagMeansPending
<1>1. Init => Inv
  <2>1. Init => NotStompOnly /\ FlagMeansPending
    BY DEF Init, NotStompOnly, FlagMeansPending, Sections
  <2> QED
    BY <2>1, InitIInv
<1>2. Inv /\ [Next]_vars => Inv'
  <2> SUFFICES ASSUME Inv, [Next]_vars PROVE NotStompOnly' /\ FlagMeansPending'
    BY NextIInv
  <2>0. /\ TypeOK /\ session \in Session /\ target \in Brokers \cup {Unset}
        /\ NotStompOnly /\ FlagMeansPending /\ Prepared /\ ConnectedToTarget
    BY DEF IInv, TypeOK
  <2>1. NotStompOnly'
    <3>1. CASE \E b \in Brokers : Login(b)
      <4>1. PICK i \in BOOLEAN :
              SetRefresh(i, [session EXCEPT !.loginok = FALSE, !.stompOnly = FALSE])
        BY <3>1 DEF Login
      <4> QED
        BY <2>0, <4>1 DEF SetRefresh, NotStompOnly, Session
    <3>2. CASE ExecFailed \/ \E s \in Lists : ListFailed(s)
      <4>1. PICK f : \/ session' = AfterApiError(session, f)
                     \/ session' = AfterReadError(session, f)
        BY <3>2 DEF ExecFailed, ListFailed
      <4> QED
        BY <2>0, <4>1, FailureTightens DEF Tightened, NotStompOnly
    <3>3. CASE InfoRead \/ InfoFailed \/ Disconnect \/ UpdateAutoRefresh
      BY <2>0, <3>3 DEF InfoRead, InfoFailed, Disconnect, UpdateAutoRefresh,
         SetRefresh, NotStompOnly, Session
    <3>4. CASE UNCHANGED session
      BY <2>0, <3>4 DEF NotStompOnly
    <3> QED
      BY <3>1, <3>2, <3>3, <3>4 DEF Next, Answer, LogStompOnly, RefreshButton,
         EditInterval, Exec, Tick, ExecDone, QueryDone, ListRead, vars
  <2>2. CASE RefreshAll(target) /\ target # Unset
    BY <2>0, <2>1, <2>2, RefreshAllPends
  <2>3. CASE UNCHANGED cycleVars
    BY <2>0, <2>1, <2>3 DEF FlagMeansPending, cycleVars
  <2>4. ASSUME NEW b \in Brokers, Login(b) PROVE FlagMeansPending'
    BY <2>0, <2>4, RefreshAllPends DEF Login
  <2>5. CASE RefreshButton \/ Tick \/ ExecDone \/ ExecFailed
    <3>1. target # Unset
      <4>1. CASE RefreshButton
        BY <2>0, <4>1, OnTabsPrepared DEF RefreshButton, NotStompOnly, OnTabs
      <4>2. CASE Tick \/ ExecDone \/ ExecFailed
        BY <2>0, <4>2 DEF Tick, ExecDone, ExecFailed, Prepared
      <4> QED
        BY <2>5, <4>1, <4>2
    <3>2. RefreshAll(target) \/ UNCHANGED cycleVars
      BY <2>5 DEF RefreshButton, Tick, ExecDone, ExecFailed, cycleVars
    <3> QED
      BY <2>2, <2>3, <3>1, <3>2
  <2>6. CASE InfoRead \/ InfoFailed \/ \E s \in Lists : ListRead(s)
    <3>1. PICK s \in Sections : Settle(s, FALSE)
      BY <2>6 DEF InfoRead, InfoFailed, ListRead, Sections
    <3> QED
      BY <2>0, <2>1, <3>1, SettlePends
  <2>7. ASSUME NEW s \in Lists, ListFailed(s) PROVE FlagMeansPending'
    <3>1. PICK f \in FailuresOf(request[s]) : Settle(s, Throws(f))
      BY <2>7 DEF ListFailed
    <3>2. Throws(f) = FALSE
      BY DEF FailuresOf, NoReply, Throws
    <3>3. s \in Sections
      BY DEF Sections
    <3> QED
      BY <2>0, <3>1, <3>2, <3>3, SettlePends
  <2> QED
    BY <2>1, <2>3, <2>4, <2>5, <2>6, <2>7 DEF Next, Answer, LogStompOnly,
       Disconnect, EditInterval, UpdateAutoRefresh, Exec, QueryDone, vars, cycleVars
<1>3. Inv => FlagMeansPending
  OBVIOUS
<1> QED
  BY <1>1, <1>2, <1>3, PTL DEF Spec

(***************************************************************************)
(* RefreshCycle implements ConsoleSession.                                 *)
(***************************************************************************)

\* The cycle is busy exactly when one of the flags is set; a refused
\* refreshAll and one that starts a cycle are both the RefreshAll of the
\* session.
LEMMA RefreshAllImplements ==
    ASSUME TypeOK, FlagCoversRequest, ConnectingIsInfo,
           NEW b \in Brokers \cup {Unset}, RefreshAll(b)
    PROVE  Console!RefreshAll
<1>0. Info \in Sections /\ Info \in Flagged(b)
  BY DEF Sections, Flagged, Issued
<1>1. CASE isRefreshing
  <2>1. UNCHANGED <<currentlyRefreshing, connecting>>
    BY <1>1 DEF RefreshAll, cycleVars
  <2>2. isRefreshing'
    BY <1>1, <2>1 DEF isRefreshing
  <2> QED
    BY <1>1, <2>1, <2>2 DEF Console!RefreshAll, TypeOK
<1>2. CASE ~isRefreshing
  <2>1. /\ currentlyRefreshing' =
             [s \in Sections |-> currentlyRefreshing[s] \/ s \in Flagged(b)]
        /\ connecting' = (connecting \/ ~currentlyRefreshing[Info])
    BY <1>2 DEF RefreshAll
  <2>2. isRefreshing'
    BY <1>0, <2>1 DEF isRefreshing
  <2>3. connecting' = TRUE
    BY <1>0, <1>2, <2>1 DEF isRefreshing
  <2> QED
    BY <1>2, <2>2, <2>3 DEF Console!RefreshAll
<1> QED
  BY <1>1, <1>2

\* Once a section has answered, the cycle is busy or not; while the info read
\* is outstanding it is.
LEMMA SettleImplements ==
    ASSUME TypeOK, FlagCoversRequest, ConnectingIsInfo,
           NEW s \in Lists, NEW stuck \in BOOLEAN, Settle(s, stuck),
           request[s] # None
    PROVE  /\ isRefreshing
           /\ isRefreshing' \in {TRUE, connecting \/ stuck}
<1>0. s \in Sections /\ Info \in Sections /\ Info # s
  BY DEF Sections, Lists, Info
<1>1. isRefreshing
  BY <1>0 DEF isRefreshing, FlagCoversRequest
<1>2. /\ currentlyRefreshing'[s] = stuck
      /\ currentlyRefreshing'[Info] = currentlyRefreshing[Info]
  BY <1>0 DEF Settle, TypeOK
<1>3. connecting \/ stuck => isRefreshing'
  BY <1>0, <1>2 DEF isRefreshing, FlagCoversRequest, ConnectingIsInfo
<1>4. isRefreshing' \in BOOLEAN
  BY DEF isRefreshing
<1>5. connecting \in BOOLEAN
  BY DEF TypeOK
<1> QED
  BY <1>1, <1>3, <1>4, <1>5

\* Every step is a step of the session or leaves it unchanged.
THEOREM NextImplements ==
    IInv /\ [Next]_vars => [Console!SessionStep]_(Console!sessionVars)
<1> SUFFICES ASSUME IInv, [Next]_vars
             PROVE  [Console!SessionStep]_(Console!sessionVars)
  OBVIOUS
<1>0. /\ TypeOK /\ FlagCoversRequest /\ ConnectingIsInfo /\ CycleOfTarget
      /\ ConnectedToTarget /\ Prepared
      /\ session \in Session /\ target \in Brokers \cup {Unset}
      /\ urlRate \in BOOLEAN
  BY DEF IInv, TypeOK
<1>1. ASSUME NEW b \in Brokers, Login(b) PROVE Console!Login(b)
  <2>1. PICK loaded \in BOOLEAN :
          SetRefresh(loaded, [session EXCEPT !.loginok   = FALSE,
                                             !.stompOnly = FALSE])
    BY <1>1 DEF Login
  <2> DEFINE r == loaded \/ urlRate
  <2>2. /\ ~session.connected /\ ~connecting /\ target' = b /\ RefreshAll(b)
        /\ session' = [[session EXCEPT !.loginok   = FALSE,
                                       !.stompOnly = FALSE] EXCEPT !.timer = r]
    BY <1>1, <2>1 DEF Login, SetRefresh
  <2>3. session.connected = FALSE
    BY <1>0, <2>2 DEF Session
  <2>4. session' = [connected |-> FALSE, loginok |-> FALSE,
                    stompOnly |-> FALSE, timer |-> r]
    <3> HIDE DEF r
    <3> QED BY <1>0, <2>2, <2>3 DEF Session
  <2>5. r \in BOOLEAN
    BY <1>0
  <2>6. Console!RefreshAll
    BY <1>0, <2>2, RefreshAllImplements
  <2> QED
    <3> HIDE DEF r
    <3> QED BY <2>2, <2>4, <2>5, <2>6 DEF Console!Login
<1>2. CASE LogStompOnly
  BY <1>2 DEF LogStompOnly, Console!LogStompOnly, isRefreshing, cycleVars,
     Console!SessionStep
<1>3. CASE Disconnect
  BY <1>3 DEF Disconnect, Console!Disconnect, isRefreshing, cycleVars,
     Console!SessionStep
<1>4. CASE RefreshButton \/ Tick \/ ExecDone
  <2>1. RefreshAll(target) /\ UNCHANGED <<target, session>>
    BY <1>4 DEF RefreshButton, Tick, ExecDone
  <2>2. target # Unset \/ session.connected
    BY <1>0, <1>4 DEF RefreshButton, Tick, ExecDone, Prepared
  <2>3. Console!Refresh
    BY <1>0, <2>1, <2>2, RefreshAllImplements DEF Console!Refresh
  <2> QED
    BY <2>3 DEF Console!SessionStep
<1>5. CASE \/ \E i \in BOOLEAN : EditInterval(i)
           \/ Exec \/ QueryDone \/ UNCHANGED vars
  BY <1>5 DEF EditInterval, Exec, QueryDone, vars, cycleVars, isRefreshing,
     Console!sessionVars
<1>6. CASE UpdateAutoRefresh
  <2> DEFINE r == interval \/ urlRate
  <2>1. /\ OnTabs /\ session' = [session EXCEPT !.timer = r]
        /\ UNCHANGED <<target, connecting, currentlyRefreshing>>
    BY <1>6 DEF UpdateAutoRefresh, SetRefresh, cycleVars
  <2>2. r \in BOOLEAN
    BY DEF IInv, TypeOK
  <2>3. Console!SetRefresh
    <3> HIDE DEF r
    <3> QED BY <2>1, <2>2 DEF Console!SetRefresh, Console!OnTabs, OnTabs, isRefreshing
  <2> QED
    BY <2>3 DEF Console!SessionStep
<1>7. CASE InfoRead
  <2>1. connecting /\ target # Unset
    BY <1>0, <1>7 DEF InfoRead, ConnectingIsInfo, CycleOfTarget, Sections
  <2>2. isRefreshing' \in BOOLEAN
    BY DEF isRefreshing
  <2> QED
    BY <1>7, <2>1, <2>2 DEF InfoRead, Console!InfoRead, Console!SessionStep
<1>8. CASE InfoFailed
  <2>1. connecting
    BY <1>0, <1>8 DEF InfoFailed, ConnectingIsInfo
  <2>2. isRefreshing' \in BOOLEAN
    BY DEF isRefreshing
  <2> QED
    BY <1>8, <2>1, <2>2 DEF InfoFailed, Console!InfoFailed, Console!SessionStep
<1>9. ASSUME NEW s \in Lists, ListRead(s) PROVE Console!ListRead
  <2>1. /\ request[s] # None /\ (Settle(s, FALSE) \/ Settle(s, TRUE))
        /\ UNCHANGED <<target, session, connecting>>
    BY <1>9 DEF ListRead
  <2>2. isRefreshing /\ isRefreshing' \in {TRUE, connecting \/ FALSE}
    <3>1. CASE Settle(s, FALSE)
      BY <1>0, <2>1, <3>1, SettleImplements
    <3>2. CASE Settle(s, TRUE)
      BY <1>0, <2>1, <3>2, SettleImplements
    <3> QED
      BY <2>1, <3>1, <3>2
  <2>3. connecting \in BOOLEAN
    BY <1>0 DEF TypeOK
  <2> QED
    BY <2>1, <2>2, <2>3 DEF Console!ListRead
<1>10. ASSUME NEW s \in Lists, ListFailed(s)
       PROVE  \E f \in Failures \cup {NoReply} : Console!ListFailed(f)
  <2>1. PICK f \in FailuresOf(request[s]) :
          session' = AfterReadError(session, f) /\ Settle(s, Throws(f))
    BY <1>10 DEF ListFailed
  <2>2. request[s] # None /\ UNCHANGED <<target, connecting>>
    BY <1>10 DEF ListFailed
  <2>3. f \in Failures \cup {NoReply}
    BY DEF FailuresOf
  <2>4. Throws(f) \in BOOLEAN
    BY <2>3 DEF Throws, NoReply
  <2>5. isRefreshing /\ isRefreshing' \in {TRUE, connecting \/ Throws(f)}
    BY <1>0, <2>1, <2>2, <2>4, SettleImplements
  <2>6. Console!ListFailed(f)
    BY <2>1, <2>2, <2>5 DEF Console!ListFailed, AfterReadError, AfterApiError,
       Throws, Halting, Worded, Console!AfterReadError, Console!AfterApiError,
       Console!Throws, Console!Halting, Console!Worded
  <2> QED
    BY <2>3, <2>6
<1>11. CASE ExecFailed
  <2>1. PICK f \in Rejections : session' = AfterApiError(session, f)
    BY <1>11 DEF ExecFailed
  <2>2. target # Unset /\ target' = target
    BY <1>0, <1>11 DEF ExecFailed, Prepared
  <2>3. Console!RefreshAll \/ UNCHANGED <<connecting, isRefreshing>>
    <3>1. RefreshAll(target) \/ UNCHANGED <<connecting, currentlyRefreshing>>
      BY <1>11 DEF ExecFailed, cycleVars
    <3>2. CASE RefreshAll(target)
      BY <1>0, <3>2, RefreshAllImplements
    <3>3. CASE UNCHANGED <<connecting, currentlyRefreshing>>
      BY <3>3 DEF isRefreshing
    <3> QED
      BY <3>1, <3>2, <3>3
  <2>4. AfterApiError(session, f) = Console!AfterApiError(session, f)
    BY DEF AfterApiError, Halting, Console!AfterApiError, Console!Halting
  <2>5. Console!ExecFailed(f)
    BY <2>1, <2>2, <2>3, <2>4 DEF Console!ExecFailed
  <2>6. f \in Console!Rejections
    BY DEF Rejections, NoReply, Console!Rejections, Console!NoReply
  <2> QED
    BY <2>5, <2>6 DEF Console!SessionStep
<1> QED
  BY <1>1, <1>2, <1>3, <1>4, <1>5, <1>6, <1>7, <1>8, <1>9, <1>10, <1>11
     DEF Next, Answer, Console!SessionStep, Console!NoReply, NoReply

\* The components composed with ConsoleSession may rely on it.
THEOREM Implementation == Spec => ImplementsSession
<1>1. Init => Console!SessionInit
  BY DEF Init, Console!SessionInit, isRefreshing
<1> QED
  BY InitIInv, NextIInv, NextImplements, <1>1, PTL
     DEF Spec, ImplementsSession, Console!SessionSpec
=============================================================================
