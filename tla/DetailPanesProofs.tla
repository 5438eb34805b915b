------------------------- MODULE DetailPanesProofs -------------------------
(***************************************************************************)
(* Proofs about DetailPanes, for every number of queues, messages,         *)
(* connections, subscribers and requests.                                  *)
(*                                                                         *)
(* What a pane shows after the last answer is right because of what was    *)
(* asked: while the list is shown the last browse is one of the current    *)
(* queue, and has not seen what was reported deleted (LastBrowse); while   *)
(* details are shown the last read is one of that connection (LastRead).   *)
(* The check of the subscribers needs no more than its own property.       *)
(***************************************************************************)
EXTENDS DetailPanes, ConsoleSessionProofs

USE BrowserAssumption, DetailsAssumption, MaxRowsAssumption

(***************************************************************************)
(* The session.                                                            *)
(***************************************************************************)

SessionInv == SessionTypeOK /\ Prepared

LEMMA PaneFailure ==
    ASSUME SessionInv, NEW f, session' = AfterApiError(session, f),
           UNCHANGED <<target, connecting, busy>>
    PROVE  SessionInv'
<1>1. connecting' \in BOOLEAN /\ busy' \in BOOLEAN
  BY DEF SessionInv, SessionTypeOK
<1> QED
  BY <1>1, FailureFrame DEF SessionInv

LEMMA PaneUnchanged ==
    ASSUME SessionInv, UNCHANGED sessionVars PROVE SessionInv'
BY DEF SessionInv, sessionVars, SessionTypeOK, Prepared, OnTabs

LEMMA NextSession == ASSUME SessionInv, [Next]_vars PROVE SessionInv'
<1>1. CASE SessionStep
  BY <1>1, SessionStepEffect DEF SessionInv
<1>2. CASE BrowserEvent
  <2>1. ASSUME NEW s \in Slots, NEW f, BrowseFailed(s, f) PROVE SessionInv'
    BY <2>1, PaneFailure DEF BrowseFailed
  <2>2. ASSUME NEW f, DeletionFailed(f) PROVE SessionInv'
    BY <2>2, PaneFailure DEF DeletionFailed
  <2>3. CASE DeletionDone
    <3>1. RefreshAll /\ UNCHANGED <<target, session>>
      BY <2>3 DEF DeletionDone, Finished
    <3>2. connecting' \in BOOLEAN /\ busy' \in BOOLEAN
      BY <3>1, RefreshAllTyped DEF SessionInv
    <3> QED
      BY <3>1, <3>2 DEF SessionInv, SessionTypeOK, Prepared, OnTabs
  <2>4. ASSUME NEW s \in Slots, BrowseServed(s) \/ BrowseAnswered(s) \/ BrowseBroken(s)
        PROVE  SessionInv'
    BY <2>4, PaneUnchanged DEF BrowseServed, BrowseAnswered, BrowseBroken, Fill
  <2>5. CASE DeletionServed \/ \E m \in Messages : OthersMove(m)
    BY <2>5, PaneUnchanged DEF DeletionServed, OthersMove
  <2> QED
    BY <1>2, <2>1, <2>2, <2>3, <2>4, <2>5 DEF BrowserEvent
<1>3. CASE BrowserClick
  BY <1>3, PaneUnchanged DEF BrowserClick, ShowQueueDetails, Revisit, BrowseQueue,
     CloseBrowseQueue, ShowQueueMessageDetails, CloseDetails, DeleteMessage
<1>4. CASE ConnectionEvent
  <2>1. ASSUME NEW r \in Reads, NEW f, DetailsFailed(r, f) PROVE SessionInv'
    BY <2>1, PaneFailure DEF DetailsFailed, Arrived
  <2>2. ASSUME NEW r \in Reads, DetailsRead(r) \/ DetailsMissing(r) PROVE SessionInv'
    BY <2>2, PaneUnchanged DEF DetailsRead, DetailsMissing, Arrived, sessionVars
  <2> QED
    BY <1>4, <2>1, <2>2 DEF ConnectionEvent
<1>5. CASE ConnectionClick
  BY <1>5, PaneUnchanged DEF ConnectionClick, ShowConnectionDetails, ShowConnection,
     ReopenConnections, RefreshCurrentConnection
<1>6. CASE CheckStep
  <2>1. CASE TopicsRead
    BY <2>1, SessionStepEffect DEF TopicsRead, SessionStep, SessionInv
  <2>2. CASE AskToCheck \/ DoNotCheck \/ CheckSubscribers \/ CloseCheckSubscribers
    BY <2>2, PaneUnchanged DEF AskToCheck, DoNotCheck, CheckSubscribers, AskForAll,
       CloseCheckSubscribers
  <2>3. ASSUME NEW s \in Subscribers, SubscriberRead(s) \/ SubscriberMissing(s)
        PROVE  SessionInv'
    BY <2>3, PaneUnchanged DEF SubscriberRead, SubscriberMissing, Answered, sessionVars
  <2>4. ASSUME NEW s \in Subscribers, NEW f, SubscriberFailed(s, f) PROVE SessionInv'
    BY <2>4, PaneFailure DEF SubscriberFailed, Answered
  <2> QED
    BY <1>6, <2>1, <2>2, <2>3, <2>4 DEF CheckStep
<1>7. CASE UNCHANGED vars
  BY <1>7, PaneUnchanged DEF vars
<1> QED
  BY <1>1, <1>2, <1>3, <1>4, <1>5, <1>6, <1>7 DEF Next

(***************************************************************************)
(* The check of the subscribers.                                           *)
(***************************************************************************)

CheckInv == CheckTypeOK /\ CheckIsComplete

LEMMA NextCheck == ASSUME CheckInv, [Next]_vars PROVE CheckInv'
<1> USE DEF CheckInv, CheckTypeOK
<1>1. CASE UNCHANGED <<topicSubscribers, subscriberTesterVisible, asking>>
           /\ UNCHANGED <<subscriberTesterList, detailReads, checked, undisturbed>>
  BY <1>1 DEF CheckIsComplete
<1>2. CASE TopicsRead
  <2>1. /\ topicSubscribers' \in SUBSET Subscribers
        /\ UNCHANGED <<subscriberTesterVisible, asking, subscriberTesterList,
                       detailReads, checked, undisturbed>>
    BY <1>2 DEF TopicsRead
  <2> QED
    BY <2>1 DEF CheckIsComplete
<1>3. CASE AskToCheck \/ DoNotCheck \/ CloseCheckSubscribers
  <2>1. /\ asking' \in BOOLEAN /\ subscriberTesterVisible' \in BOOLEAN
        /\ UNCHANGED <<topicSubscribers, subscriberTesterList, detailReads, checked,
                       undisturbed>>
    BY <1>3 DEF AskToCheck, DoNotCheck, CloseCheckSubscribers
  <2>2. CheckIsComplete'
    BY <2>1 DEF CheckIsComplete
  <2> QED
    BY <2>1, <2>2
<1>4. CASE CheckSubscribers
  <2>1. /\ asking' = FALSE /\ subscriberTesterVisible' = TRUE
        /\ detailReads' = [s \in Subscribers |->
             IF s \in topicSubscribers THEN detailReads[s] + 1 ELSE detailReads[s]]
        /\ checked' = topicSubscribers /\ topicSubscribers' = topicSubscribers
        /\ undisturbed' = (detailReads = [s \in Subscribers |-> 0])
        /\ subscriberTesterList' = [s \in Subscribers |-> 0]
    BY <1>4 DEF CheckSubscribers, AskForAll
  <2>2. CheckTypeOK'
    <3>1. detailReads' \in [Subscribers -> Nat]
      BY <2>1
    <3>2. subscriberTesterList' \in [Subscribers -> Nat]
      BY <2>1
    <3>3. undisturbed' \in BOOLEAN
      BY <2>1, Zenon
    <3> QED
      BY <2>1, <3>1, <3>2, <3>3
  <2>3. ASSUME undisturbed', NEW s \in Subscribers
        PROVE  subscriberTesterList'[s] + detailReads'[s] = IF s \in checked' THEN 1 ELSE 0
    <3>1. detailReads[s] = 0
      BY <2>1, <2>3
    <3> QED
      BY <2>1, <3>1
  <2> QED
    BY <2>2, <2>3 DEF CheckIsComplete
<1>5. ASSUME NEW s \in Subscribers, SubscriberRead(s) PROVE CheckInv'
  BY <1>5 DEF SubscriberRead, Answered, CheckIsComplete
<1>6. ASSUME NEW s \in Subscribers, NEW f, SubscriberMissing(s) \/ SubscriberFailed(s, f)
      PROVE  CheckInv'
  <2>1. /\ detailReads[s] > 0 /\ detailReads' = [detailReads EXCEPT ![s] = @ - 1]
        /\ undisturbed' = FALSE
        /\ UNCHANGED <<topicSubscribers, asking, subscriberTesterVisible, checked,
                       subscriberTesterList>>
    BY <1>6 DEF SubscriberMissing, SubscriberFailed, Answered
  <2>2. detailReads' \in [Subscribers -> Nat]
    BY <2>1
  <2>3. CheckIsComplete'
    BY <2>1, Zenon DEF CheckIsComplete
  <2> QED
    BY <2>1, <2>2, <2>3
<1>7. CASE CheckStep
  BY <1>2, <1>3, <1>4, <1>5, <1>6, <1>7 DEF CheckStep
<1>8. CASE UNCHANGED checkVars
  BY <1>1, <1>8 DEF checkVars
<1> QED
  BY <1>7, <1>8 DEF Next, vars

(***************************************************************************)
(* The details of a connection.                                            *)
(***************************************************************************)

\* While details are shown the last read is one of that connection.
LastRead ==
    (lastRead # 0 /\ currentConnection # NoConnection) =>
        reads[lastRead] = currentConnection

ConnectionInv == ConnectionTypeOK /\ LastRead /\ DetailsShown

LEMMA ComputeEffect ==
    ASSUME ConnectionInv, NEW c \in Connections \cup {NoConnection},
           ComputeConnectionDetails(c)
    PROVE  /\ currentConnection' = c
           /\ reads' \in [Reads -> Connections \cup {NoRead}]
           /\ lastRead' \in Reads \cup {0}
           /\ current' \in BOOLEAN
           /\ c # NoConnection => ~current'
           /\ (lastRead' # 0 /\ c # NoConnection) => reads'[lastRead'] = c
<1>1. CASE c = NoConnection
  BY <1>1 DEF ComputeConnectionDetails, ConnectionInv, ConnectionTypeOK
<1>2. CASE c # NoConnection
  <2>1. PICK r \in Reads : /\ reads' = [reads EXCEPT ![r] = c] /\ lastRead' = r
    BY <1>2 DEF ComputeConnectionDetails, AskFor
  <2>2. currentConnection' = c /\ current' = FALSE /\ c \in Connections
    BY <1>2 DEF ComputeConnectionDetails, AskFor
  <2>3. reads \in [Reads -> Connections \cup {NoRead}]
    BY DEF ConnectionInv, ConnectionTypeOK
  <2> QED
    BY <2>1, <2>2, <2>3
<1> QED
  BY <1>1, <1>2

LEMMA NextConnection == ASSUME ConnectionInv, [Next]_vars PROVE ConnectionInv'
<1> USE DEF ConnectionInv
<1>1. ASSUME NEW c \in Connections \cup {NoConnection}, ComputeConnectionDetails(c),
             scopeConnection' \in {NoConnection, c},
             connectionDetailsObject' = connectionDetailsObject,
             detailsComputingUnderway' \in BOOLEAN
      PROVE  ConnectionInv'
  <2>1. /\ currentConnection' = c
        /\ reads' \in [Reads -> Connections \cup {NoRead}]
        /\ lastRead' \in Reads \cup {0}
        /\ current' \in BOOLEAN
        /\ c # NoConnection => ~current'
        /\ (lastRead' # 0 /\ c # NoConnection) => reads'[lastRead'] = c
    BY <1>1, ComputeEffect
  <2> QED
    BY <1>1, <2>1 DEF ConnectionTypeOK, LastRead, DetailsShown
<1>2. CASE ConnectionClick
  <2>1. ASSUME NEW c \in Connections \cup {NoConnection}, ShowConnectionDetails(c)
        PROVE  ConnectionInv'
    BY <2>1, <1>1 DEF ShowConnectionDetails, ConnectionTypeOK
  <2>2. ASSUME NEW c \in Connections, ShowConnection(c) PROVE ConnectionInv'
    BY <2>2, <1>1 DEF ShowConnection, ConnectionTypeOK
  <2>3. CASE ReopenConnections
    BY <2>3 DEF ReopenConnections, ConnectionTypeOK, LastRead, DetailsShown
  <2>4. CASE RefreshCurrentConnection
    BY <2>4, <1>1 DEF RefreshCurrentConnection, ConnectionTypeOK
  <2> QED
    BY <1>2, <2>1, <2>2, <2>3, <2>4 DEF ConnectionClick
<1>3. ASSUME NEW r \in Reads, NEW f,
             DetailsRead(r) \/ DetailsMissing(r) \/ DetailsFailed(r, f)
      PROVE  ConnectionInv'
  <2>1. /\ reads[r] # NoRead /\ reads' = [reads EXCEPT ![r] = NoRead]
        /\ lastRead' = IF lastRead = r THEN 0 ELSE lastRead
        /\ UNCHANGED <<currentConnection, scopeConnection>>
    BY <1>3 DEF DetailsRead, DetailsMissing, DetailsFailed, Arrived
  <2>2. /\ reads' \in [Reads -> Connections \cup {NoRead}]
        /\ lastRead' \in Reads \cup {0} /\ reads[r] \in Connections
        /\ lastRead' # 0 => lastRead' = lastRead /\ reads'[lastRead'] = reads[lastRead]
    BY <2>1 DEF ConnectionTypeOK
  <2>3. LastRead'
    BY <2>1, <2>2 DEF LastRead
  <2>4. CASE DetailsRead(r)
    <3>1. /\ connectionDetailsObject' = reads[r] /\ current' = (lastRead = r)
          /\ detailsComputingUnderway' = FALSE
      BY <2>4 DEF DetailsRead
    <3>2. r # 0
      BY DEF Reads
    <3>3. DetailsShown'
      BY <2>1, <3>1, <3>2 DEF DetailsShown, LastRead
    <3> QED
      BY <2>1, <2>2, <2>3, <3>1, <3>3 DEF ConnectionTypeOK
  <2>5. CASE DetailsMissing(r)
    BY <2>1, <2>2, <2>3, <2>5 DEF DetailsMissing, ConnectionTypeOK, DetailsShown
  <2>6. CASE DetailsFailed(r, f)
    <3>1. UNCHANGED <<connectionDetailsObject, current, detailsComputingUnderway>>
      BY <2>6 DEF DetailsFailed
    <3> QED
      BY <2>1, <2>2, <2>3, <3>1 DEF ConnectionTypeOK, DetailsShown
  <2> QED
    BY <1>3, <2>4, <2>5, <2>6
<1>4. CASE ConnectionEvent
  BY <1>3, <1>4 DEF ConnectionEvent
<1>5. CASE UNCHANGED connectionVars
  BY <1>5 DEF connectionVars, ConnectionTypeOK, LastRead, DetailsShown
<1> QED
  BY <1>2, <1>4, <1>5 DEF Next, vars

(***************************************************************************)
(* The message browser.                                                    *)
(***************************************************************************)

\* Nothing is open yet in scopes to come, nor without a queue.
Windows ==
    /\ \A v \in Visits : visit < v => ~queueBrowerVisible[v]
    /\ currentQueue = NoQueue => ~queueBrowerVisible[visit]

\* While the list is shown, the last browse is one of the current queue, and
\* has not seen what was reported deleted.
LastBrowse ==
    (latest # 0 /\ queueBrowerVisible[visit]) =>
        /\ browses[latest].queue = currentQueue
        /\ browses[latest].seen \cap reported = {}

\* What is on display and what is being deleted are messages, and what was
\* deleted is gone.
Deletions ==
    /\ \A v \in Visits :
          currentMessage[v] = NoDisplay \/ currentMessage[v].message \in Messages
    /\ deletion = NoDeletion \/ (/\ deletion.message \in Messages
                                 /\ deletion.scope \in Visits
                                 /\ deletion.scope <= visit)
    /\ deletion.removed => life[deletion.message] = "gone"
    /\ \A m \in reported : life[m] = "gone"

BrowserInv ==
    /\ BrowserTypeOK
    /\ Windows
    /\ LastBrowse
    /\ Deletions
    /\ FreshIsShown
    /\ ReportedNotListed

LEMMA TargetTyped == ASSUME SessionInv PROVE target \in Brokers \cup {Unset}
BY DEF SessionInv, SessionTypeOK

LEMMA AskEffect ==
    ASSUME SessionInv, BrowserInv, NEW v \in Visits, Ask(v)
    PROVE  /\ currentQueue # NoQueue
           /\ browses' \in [Slots -> [to : Brokers \cup {Unset},
                                      queue : Queues \cup {NoQueue},
                                      served : BOOLEAN, seen : SUBSET Messages]]
           /\ latest' \in Slots
           /\ browses'[latest'].queue = currentQueue
           /\ browses'[latest'].seen = {}
           /\ fresh' = FALSE
           /\ queueBrowerVisible' \in [Visits -> BOOLEAN]
           /\ \A w \in Visits \ {v} : queueBrowerVisible'[w] = queueBrowerVisible[w]
           /\ UNCHANGED <<queueMessages, listedOf>>
<1>1. PICK s \in Slots :
        /\ browses[s] = NoBrowse
        /\ browses' = [browses EXCEPT ![s] =
                          [NoBrowse EXCEPT !.to = target, !.queue = currentQueue]]
        /\ latest' = s
  BY DEF Ask
<1>2. /\ currentQueue # NoQueue /\ fresh' = FALSE
      /\ queueBrowerVisible' = [queueBrowerVisible EXCEPT ![v] = TRUE]
      /\ UNCHANGED <<queueMessages, listedOf>>
  BY DEF Ask
<1>3. /\ browses \in [Slots -> [to : Brokers \cup {Unset}, queue : Queues \cup {NoQueue},
                                served : BOOLEAN, seen : SUBSET Messages]]
      /\ currentQueue \in Queues \cup {NoQueue}
      /\ queueBrowerVisible \in [Visits -> BOOLEAN]
  BY DEF BrowserInv, BrowserTypeOK
<1>4. target \in Brokers \cup {Unset}
  BY TargetTyped
<1>5. browses'[s] = [to |-> target, queue |-> currentQueue, served |-> FALSE, seen |-> {}]
  BY <1>1, <1>3 DEF NoBrowse
<1>6. \A t \in Slots \ {s} : browses'[t] = browses[t]
  BY <1>1, <1>3
<1>7. browses' \in [Slots -> [to : Brokers \cup {Unset}, queue : Queues \cup {NoQueue},
                              served : BOOLEAN, seen : SUBSET Messages]]
  <2>1. browses' = [t \in Slots |-> browses'[t]]
    BY <1>1, <1>3
  <2>2. ASSUME NEW t \in Slots
        PROVE  browses'[t] \in [to : Brokers \cup {Unset}, queue : Queues \cup {NoQueue},
                                served : BOOLEAN, seen : SUBSET Messages]
    <3>1. CASE t = s
      BY <3>1, <1>3, <1>4, <1>5
    <3>2. CASE t # s
      BY <3>2, <1>3, <1>6
    <3> QED
      BY <3>1, <3>2
  <2> QED
    BY <2>1, <2>2
<1> QED
  BY <1>1, <1>2, <1>3, <1>5, <1>7

\* Steps that change neither what was asked nor what is listed, and open no
\* window.
LEMMA WindowsStep ==
    ASSUME BrowserInv,
           queueBrowerVisible' \in [Visits -> BOOLEAN],
           \A v \in Visits : queueBrowerVisible'[v] => queueBrowerVisible[v],
           visit' \in Visits, visit <= visit',
           queueBrowerVisible'[visit'] =>
              visit' = visit /\ currentQueue' = currentQueue,
           currentQueue' \in Queues \cup {NoQueue},
           UNCHANGED <<queueMessages, latest, fresh, listedOf, browses, reported>>
    PROVE  Windows' /\ LastBrowse' /\ FreshIsShown' /\ ReportedNotListed'
<1>1. visit \in Int /\ visit' \in Int /\ \A v \in Visits : v \in Int
  BY DEF BrowserInv, BrowserTypeOK, Visits
<1>2. Windows'
  BY <1>1 DEF BrowserInv, Windows
<1>3. LastBrowse'
  BY DEF BrowserInv, LastBrowse
<1>4. FreshIsShown' /\ ReportedNotListed'
  BY DEF BrowserInv, FreshIsShown, ReportedNotListed
<1> QED
  BY <1>2, <1>3, <1>4

LEMMA ClickBrowser ==
    ASSUME BrowserInv, SessionInv,
           \/ \E q \in Queues \cup {NoQueue} : ShowQueueDetails(q)
           \/ \E q \in Queues \cup {currentQueue} : Revisit(q)
           \/ CloseBrowseQueue
    PROVE  BrowserInv'
<1> USE DEF BrowserInv
<1>1. /\ BrowserTypeOK
      /\ visit \in Int /\ MaxVisits \in Int
      /\ \A v \in Int : v \in Visits <=> 1 <= v /\ v <= MaxVisits
  BY DEF BrowserTypeOK, Visits
<1>2. UNCHANGED <<messageVars, currentMessage, listVars, browses, deletion, pastVars>>
  BY DEF ShowQueueDetails, Revisit, CloseBrowseQueue, windowVars
<1>3. /\ visit' \in Visits /\ visit <= visit'
      /\ currentQueue' \in Queues \cup {NoQueue}
      /\ queueBrowerVisible' \in [Visits -> BOOLEAN]
      /\ \A v \in Visits : queueBrowerVisible'[v] => queueBrowerVisible[v]
      /\ queueBrowerVisible'[visit'] => visit' = visit /\ currentQueue' = currentQueue
  <2>1. CASE \E q \in Queues \cup {NoQueue} : ShowQueueDetails(q)
    BY <2>1, <1>1 DEF ShowQueueDetails, BrowserTypeOK
  <2>2. CASE CloseBrowseQueue
    BY <2>2, <1>1 DEF CloseBrowseQueue, BrowserTypeOK
  <2>3. CASE \E q \in Queues \cup {currentQueue} : Revisit(q)
    <3>1. /\ visit' = visit + 1 /\ visit < MaxVisits
          /\ queueBrowerVisible' = queueBrowerVisible
          /\ currentQueue' \in Queues \cup {currentQueue}
      BY <2>3 DEF Revisit, windowVars
    <3>2. visit' \in Visits /\ visit < visit'
      BY <3>1, <1>1 DEF BrowserTypeOK
    <3>3. ~queueBrowerVisible[visit']
      BY <3>2 DEF Windows
    <3> QED
      BY <1>1, <3>1, <3>2, <3>3 DEF BrowserTypeOK
  <2> QED
    BY <2>1, <2>2, <2>3
<1>4. BrowserTypeOK'
  BY <1>1, <1>2, <1>3 DEF BrowserTypeOK, messageVars, listVars, pastVars
<1>5. Windows' /\ LastBrowse' /\ FreshIsShown' /\ ReportedNotListed'
  BY <1>2, <1>3, WindowsStep DEF listVars, pastVars
<1>6. Deletions'
  <2>1. deletion.scope \in Int /\ visit' \in Int
    BY <1>1, <1>3 DEF BrowserTypeOK, Visits
  <2> QED
    BY <1>1, <1>2, <1>3, <2>1 DEF Deletions, messageVars, pastVars
<1> QED
  BY <1>4, <1>5, <1>6

LEMMA MessageBrowserStep ==
    ASSUME BrowserInv, SessionInv,
           \/ \E m \in Messages : ShowQueueMessageDetails(m)
           \/ CloseDetails \/ DeleteMessage
    PROVE  BrowserInv'
<1> USE DEF BrowserInv
<1>1. /\ BrowserTypeOK /\ visit \in Int
      /\ target \in Brokers \cup {Unset}
  BY TargetTyped DEF BrowserTypeOK, Visits
<1>2. UNCHANGED <<messageVars, visit, currentQueue, queueBrowerVisible, listVars,
                  browses, pastVars>>
  BY DEF ShowQueueMessageDetails, CloseDetails, DeleteMessage, windowVars
<1>3. /\ currentMessage' \in [Visits -> [message : Messages \cup {NoMessage},
                                         destination : Queues \cup {NoQueue}]]
      /\ \A v \in Visits :
            currentMessage'[v] = NoDisplay \/ currentMessage'[v].message \in Messages
      /\ DeleteMessage \/ deletion' = deletion
  <2>1. ASSUME NEW m \in Messages, ShowQueueMessageDetails(m)
        PROVE  /\ currentMessage' = [currentMessage EXCEPT ![visit] =
                                       [message |-> m, destination |-> currentQueue]]
               /\ deletion' = deletion
    BY <2>1 DEF ShowQueueMessageDetails
  <2>2. CASE CloseDetails
    <3>1. /\ currentMessage' = [currentMessage EXCEPT ![visit] = NoDisplay]
          /\ deletion' = deletion
      BY <2>2 DEF CloseDetails
    <3>2. NoDisplay \in [message : Messages \cup {NoMessage},
                         destination : Queues \cup {NoQueue}]
      BY DEF NoDisplay
    <3> HIDE DEF NoDisplay
    <3> QED
      BY <1>1, <3>1, <3>2 DEF BrowserTypeOK, Deletions
  <2>3. CASE DeleteMessage
    BY <1>1, <2>3 DEF DeleteMessage, windowVars, BrowserTypeOK, Deletions
  <2>4. CASE \E m \in Messages : ShowQueueMessageDetails(m)
    BY <1>1, <2>1, <2>4 DEF BrowserTypeOK, Deletions
  <2> QED
    BY <2>2, <2>3, <2>4
<1>4. /\ deletion' \in [scope : Visits \cup {0}, message : Messages \cup {NoMessage},
                        queue : Queues \cup {NoQueue}, to : Brokers \cup {Unset},
                        served : BOOLEAN, removed : BOOLEAN]
      /\ deletion' = NoDeletion \/ (/\ deletion'.message \in Messages
                                    /\ deletion'.scope \in Visits
                                    /\ deletion'.scope <= visit)
      /\ deletion'.removed => deletion' = deletion
  <2>1. CASE DeleteMessage
    <3>1. /\ currentMessage[visit] # NoDisplay
          /\ deletion' = [scope |-> visit, message |-> currentMessage[visit].message,
                          queue |-> currentMessage[visit].destination, to |-> target,
                          served |-> FALSE, removed |-> FALSE]
      BY <2>1 DEF DeleteMessage, NoDeletion
    <3>2. /\ currentMessage[visit].message \in Messages
          /\ currentMessage[visit].destination \in Queues \cup {NoQueue}
      BY <1>1, <3>1 DEF Deletions, BrowserTypeOK
    <3> QED
      BY <1>1, <3>1, <3>2 DEF BrowserTypeOK
  <2>2. CASE deletion' = deletion
    BY <2>2, <1>1 DEF BrowserTypeOK, Deletions
  <2> QED
    BY <1>3, <2>1, <2>2
<1>5. BrowserTypeOK'
  BY <1>1, <1>2, <1>3, <1>4 DEF BrowserTypeOK, messageVars, listVars, pastVars
<1>6. Windows' /\ LastBrowse' /\ FreshIsShown' /\ ReportedNotListed'
  BY <1>1, <1>2, WindowsStep DEF listVars, pastVars, BrowserTypeOK
<1>7. Deletions'
  BY <1>2, <1>3, <1>4 DEF Deletions, messageVars, pastVars
<1> QED
  BY <1>5, <1>6, <1>7

LEMMA ServedBrowser ==
    ASSUME BrowserInv, NEW s \in Slots, BrowseServed(s) PROVE BrowserInv'
<1> USE DEF BrowserInv
<1>1. BrowserTypeOK
  OBVIOUS
<1> DEFINE found == {m \in Messages : /\ life[m] = "queued"
                                      /\ home[m] = <<browses[s].to, browses[s].queue>>}
<1>2. /\ browses' = [browses EXCEPT ![s] = [@ EXCEPT !.served = TRUE, !.seen = found]]
      /\ UNCHANGED <<messageVars, visit, currentQueue, windowVars, listVars, deletion,
                     pastVars>>
  BY DEF BrowseServed
<1>3. found \subseteq Messages /\ \A m \in found : life[m] = "queued"
  OBVIOUS
<1> HIDE DEF found
<1>4. /\ browses' \in [Slots -> [to : Brokers \cup {Unset}, queue : Queues \cup {NoQueue},
                                 served : BOOLEAN, seen : SUBSET Messages]]
      /\ \A t \in Slots : /\ browses'[t].queue = browses[t].queue
                          /\ browses'[t].seen \in {browses[t].seen, found}
  <2>1. /\ browses \in [Slots -> [to : Brokers \cup {Unset}, queue : Queues \cup {NoQueue},
                                  served : BOOLEAN, seen : SUBSET Messages]]
    BY <1>1 DEF BrowserTypeOK
  <2> DEFINE new == [browses[s] EXCEPT !.served = TRUE, !.seen = found]
  <2>2. /\ new \in [to : Brokers \cup {Unset}, queue : Queues \cup {NoQueue},
                    served : BOOLEAN, seen : SUBSET Messages]
        /\ new.queue = browses[s].queue /\ new.seen = found
    BY <2>1, <1>3
  <2>3. browses' = [browses EXCEPT ![s] = new]
    BY <1>2
  <2> HIDE DEF new
  <2> QED
    BY <2>1, <2>2, <2>3
<1>5. found \cap reported = {}
  BY <1>3 DEF Deletions
<1>6. BrowserTypeOK'
  BY <1>1, <1>2, <1>4 DEF BrowserTypeOK, messageVars, windowVars, listVars, pastVars
<1>7. LastBrowse'
  <2>1. UNCHANGED <<latest, queueBrowerVisible, visit, currentQueue, reported>>
    BY <1>2 DEF windowVars, listVars, pastVars
  <2>2. latest # 0 => latest \in Slots
    BY <1>1 DEF BrowserTypeOK
  <2> QED
    BY <1>4, <1>5, <2>1, <2>2 DEF LastBrowse
<1>8. Windows' /\ FreshIsShown' /\ ReportedNotListed'
  BY <1>2 DEF Windows, FreshIsShown, ReportedNotListed, windowVars, listVars, pastVars
<1>9. Deletions'
  BY <1>2 DEF Deletions, messageVars, windowVars, pastVars
<1> QED
  BY <1>6, <1>7, <1>8, <1>9

\* The request in slot s is over: the other slots are as they were.
LEMMA OverEffect ==
    ASSUME BrowserInv, NEW s \in Slots, Over(s)
    PROVE  /\ browses' \in [Slots -> [to : Brokers \cup {Unset},
                                      queue : Queues \cup {NoQueue},
                                      served : BOOLEAN, seen : SUBSET Messages]]
           /\ latest' \in Slots \cup {0}
           /\ latest' # 0 => /\ latest' = latest
                             /\ browses'[latest] = browses[latest]
<1>1. /\ browses \in [Slots -> [to : Brokers \cup {Unset}, queue : Queues \cup {NoQueue},
                                served : BOOLEAN, seen : SUBSET Messages]]
      /\ latest \in Slots \cup {0}
  BY DEF BrowserInv, BrowserTypeOK
<1>2. NoBrowse \in [to : Brokers \cup {Unset}, queue : Queues \cup {NoQueue},
                    served : BOOLEAN, seen : SUBSET Messages]
  BY DEF NoBrowse
<1> HIDE DEF NoBrowse
<1>3. /\ browses' = [browses EXCEPT ![s] = NoBrowse]
      /\ latest' = IF latest = s THEN 0 ELSE latest
  BY DEF Over
<1> QED
  BY <1>1, <1>2, <1>3

LEMMA AnsweredBrowser ==
    ASSUME BrowserInv, NEW s \in Slots,
           \/ BrowseAnswered(s) \/ BrowseBroken(s)
           \/ \E f : BrowseFailed(s, f)
    PROVE  BrowserInv'
<1> USE DEF BrowserInv
<1>1. BrowserTypeOK
  OBVIOUS
<1>2. /\ Over(s)
      /\ UNCHANGED <<messageVars, visit, currentQueue, windowVars, deletion, pastVars>>
  BY DEF BrowseAnswered, BrowseBroken, BrowseFailed, Fill
<1>3. /\ browses' \in [Slots -> [to : Brokers \cup {Unset}, queue : Queues \cup {NoQueue},
                                 served : BOOLEAN, seen : SUBSET Messages]]
      /\ latest' \in Slots \cup {0}
      /\ latest' # 0 => latest' = latest /\ browses'[latest] = browses[latest]
  BY <1>2, OverEffect
<1>4. \/ /\ queueMessages' = browses[s].seen /\ listedOf' = browses[s].queue
         /\ fresh' = (latest = s)
      \/ /\ queueMessages' \subseteq browses[s].seen /\ listedOf' = browses[s].queue
         /\ fresh' = FALSE
      \/ UNCHANGED <<queueMessages, listedOf, fresh>>
  BY DEF BrowseAnswered, BrowseBroken, BrowseFailed, Fill
<1>5. queueMessages' \subseteq Messages /\ listedOf' \in Queues \cup {NoQueue}
  <2>1. browses[s].seen \subseteq Messages /\ browses[s].queue \in Queues \cup {NoQueue}
    BY <1>1 DEF BrowserTypeOK
  <2> QED
    BY <1>1, <1>4, <2>1 DEF BrowserTypeOK
<1>6. fresh' \in BOOLEAN
  BY <1>1, <1>4 DEF BrowserTypeOK
<1>7. s # 0
  BY DEF Slots
<1>8. BrowserTypeOK'
  BY <1>1, <1>2, <1>3, <1>5, <1>6 DEF BrowserTypeOK, messageVars, windowVars, pastVars
<1>9. LastBrowse'
  BY <1>2, <1>3 DEF LastBrowse, windowVars, pastVars
<1>10. Windows' /\ Deletions'
  BY <1>2 DEF Windows, Deletions, messageVars, windowVars, pastVars
<1>11. (queueBrowerVisible[visit] /\ latest = s) =>
          /\ browses[s].queue = currentQueue
          /\ browses[s].seen \cap reported = {}
  BY <1>7 DEF LastBrowse
<1>12. FreshIsShown'
  BY <1>2, <1>4, <1>11 DEF FreshIsShown, windowVars, pastVars
<1>13. ReportedNotListed'
  BY <1>2, <1>4, <1>11 DEF ReportedNotListed, windowVars, pastVars
<1> QED
  BY <1>8, <1>9, <1>10, <1>12, <1>13

(***************************************************************************)
(* Deleting a message.                                                     *)
(***************************************************************************)

LEMMA OthersBrowser ==
    ASSUME BrowserInv,
           \/ DeletionServed \/ \E m \in Messages : OthersMove(m)
           \/ \E f : DeletionFailed(f)
    PROVE  BrowserInv'
<1> USE DEF BrowserInv
<1>1. BrowserTypeOK
  OBVIOUS
<1>2. UNCHANGED <<home, visit, currentQueue, windowVars, listVars, browses, pastVars>>
  BY DEF DeletionServed, OthersMove, DeletionFailed, messageVars
<1>3. /\ life' \in [Messages -> {"coming", "queued", "gone"}]
      /\ \A m \in Messages : life[m] = "gone" => life'[m] = "gone"
  <2>1. CASE DeletionServed
    BY <1>1, <2>1 DEF DeletionServed, BrowserTypeOK
  <2>2. CASE \E m \in Messages : OthersMove(m)
    BY <1>1, <2>2 DEF OthersMove, BrowserTypeOK
  <2>3. CASE \E f : DeletionFailed(f)
    BY <1>1, <2>3 DEF DeletionFailed, messageVars, BrowserTypeOK
  <2> QED
    BY <2>1, <2>2, <2>3
<1>4. /\ deletion' \in [scope : Visits \cup {0}, message : Messages \cup {NoMessage},
                        queue : Queues \cup {NoQueue}, to : Brokers \cup {Unset},
                        served : BOOLEAN, removed : BOOLEAN]
      /\ deletion' = NoDeletion \/ (/\ deletion'.message \in Messages
                                    /\ deletion'.scope \in Visits
                                    /\ deletion'.scope <= visit)
      /\ deletion'.removed => life'[deletion'.message] = "gone"
  <2>1. CASE DeletionServed
    <3> DEFINE m   == deletion.message
               has == life[m] = "queued" /\ home[m] = <<deletion.to, deletion.queue>>
    <3>1. /\ deletion # NoDeletion
          /\ life' = IF has THEN [life EXCEPT ![m] = "gone"] ELSE life
          /\ deletion' = [deletion EXCEPT !.served = TRUE, !.removed = has]
      BY <2>1 DEF DeletionServed
    <3>2. has \in BOOLEAN /\ m \in Messages
      BY <3>1 DEF Deletions
    <3>3. deletion.scope \in Visits /\ deletion.scope <= visit
      BY <3>1 DEF Deletions
    <3> HIDE DEF has, m
    <3>4. /\ deletion' \in [scope : Visits \cup {0}, message : Messages \cup {NoMessage},
                            queue : Queues \cup {NoQueue}, to : Brokers \cup {Unset},
                            served : BOOLEAN, removed : BOOLEAN]
          /\ deletion'.message = deletion.message /\ deletion'.scope = deletion.scope
          /\ deletion'.removed = has
      BY <1>1, <3>1, <3>2 DEF BrowserTypeOK
    <3>5. has => life'[m] = "gone"
      BY <1>1, <3>1, <3>2 DEF BrowserTypeOK
    <3> QED
      BY <3>2, <3>3, <3>4, <3>5 DEF m
  <2>2. CASE \E m \in Messages : OthersMove(m)
    <3>1. deletion' = deletion
      BY <2>2 DEF OthersMove
    <3>2. deletion.removed => deletion.message \in Messages
      BY DEF Deletions, NoDeletion
    <3> QED
      BY <1>1, <1>3, <3>1, <3>2 DEF BrowserTypeOK, Deletions
  <2>3. CASE \E f : DeletionFailed(f)
    <3>1. deletion' = NoDeletion
      BY <2>3 DEF DeletionFailed
    <3> QED
      BY <3>1 DEF NoDeletion
  <2> QED
    BY <2>1, <2>2, <2>3
<1>5. BrowserTypeOK'
  BY <1>1, <1>2, <1>3, <1>4 DEF BrowserTypeOK, windowVars, listVars, pastVars
<1>6. Windows' /\ LastBrowse' /\ FreshIsShown' /\ ReportedNotListed'
  BY <1>2 DEF Windows, LastBrowse, FreshIsShown, ReportedNotListed, windowVars,
     listVars, pastVars
<1>7. Deletions'
  <2>1. reported \subseteq Messages
    BY <1>1 DEF BrowserTypeOK
  <2> QED
    BY <1>2, <1>3, <1>4, <2>1 DEF Deletions, windowVars, pastVars
<1> QED
  BY <1>5, <1>6, <1>7

LEMMA BrowseBrowser == ASSUME BrowserInv, SessionInv, BrowseQueue PROVE BrowserInv'
<1> USE DEF BrowserInv
<1>1. BrowserTypeOK /\ visit \in Visits /\ Ask(visit)
  BY DEF BrowserTypeOK, BrowseQueue
<1>2. UNCHANGED <<messageVars, visit, currentQueue, currentMessage, deletion, pastVars>>
  BY DEF BrowseQueue
<1>3. /\ currentQueue # NoQueue
      /\ browses' \in [Slots -> [to : Brokers \cup {Unset}, queue : Queues \cup {NoQueue},
                                 served : BOOLEAN, seen : SUBSET Messages]]
      /\ latest' \in Slots
      /\ browses'[latest'].queue = currentQueue
      /\ browses'[latest'].seen = {}
      /\ fresh' = FALSE
      /\ queueBrowerVisible' \in [Visits -> BOOLEAN]
      /\ \A w \in Visits \ {visit} : queueBrowerVisible'[w] = queueBrowerVisible[w]
      /\ UNCHANGED <<queueMessages, listedOf>>
  BY <1>1, AskEffect
<1>4. BrowserTypeOK'
  BY <1>1, <1>2, <1>3 DEF BrowserTypeOK, messageVars, pastVars
<1>5. Windows'
  <2>1. \A v \in Visits : visit < v => v # visit
    BY <1>1 DEF Visits
  <2> QED
    BY <1>2, <1>3, <2>1 DEF Windows
<1>6. LastBrowse' /\ FreshIsShown' /\ ReportedNotListed'
  BY <1>2, <1>3 DEF LastBrowse, FreshIsShown, ReportedNotListed
<1>7. Deletions'
  BY <1>2 DEF Deletions, messageVars, pastVars
<1> QED
  BY <1>4, <1>5, <1>6, <1>7

\* What the callback of a deletion adds to the past.
LEMMA FinishedEffect ==
    ASSUME BrowserInv, Finished
    PROVE  /\ deletion.scope \in Visits /\ deletion.scope <= visit
           /\ deletion' = NoDeletion
           /\ deleted' \subseteq Messages /\ reported' \subseteq deleted'
           /\ \A m \in reported' : life[m] = "gone"
           /\ currentMessage[deletion.scope] = NoDisplay => reported' = reported
           /\ UNCHANGED <<messageVars, visit, currentQueue>>
<1> USE DEF BrowserInv
<1>1. deletion # NoDeletion
  BY DEF Finished, NoDeletion
<1>2. /\ deletion.scope \in Visits /\ deletion.scope <= visit
      /\ deletion.message \in Messages
  BY <1>1 DEF Deletions
<1> DEFINE done == IF deletion.removed THEN {deletion.message} ELSE {}
<1>3. /\ deleted' = deleted \cup done
      /\ reported' = reported \cup
                     IF currentMessage[deletion.scope] # NoDisplay THEN done ELSE {}
      /\ deletion' = NoDeletion
      /\ UNCHANGED <<messageVars, visit, currentQueue>>
  BY DEF Finished
<1>4. done \subseteq Messages /\ \A m \in done : life[m] = "gone"
  BY <1>2 DEF Deletions
<1> HIDE DEF done
<1>5. deleted \subseteq Messages /\ reported \subseteq deleted
  BY DEF BrowserTypeOK
<1>6. \A m \in reported : life[m] = "gone"
  BY DEF Deletions
<1> QED
  BY <1>2, <1>3, <1>4, <1>5, <1>6

LEMMA DoneBrowser == ASSUME BrowserInv, SessionInv, DeletionDone PROVE BrowserInv'
<1> USE DEF BrowserInv
<1> DEFINE v == deletion.scope
<1>1. BrowserTypeOK /\ Finished
  BY DEF DeletionDone
<1>2. /\ v \in Visits /\ v <= visit
      /\ deletion' = NoDeletion
      /\ deleted' \subseteq Messages /\ reported' \subseteq deleted'
      /\ \A m \in reported' : life[m] = "gone"
      /\ currentMessage[v] = NoDisplay => reported' = reported
      /\ UNCHANGED <<messageVars, visit, currentQueue>>
  BY <1>1, FinishedEffect
<1>3. \/ currentMessage[v] = NoDisplay /\ UNCHANGED <<windowVars, listVars, browses>>
      \/ /\ currentMessage[v] # NoDisplay
         /\ currentMessage' = [currentMessage EXCEPT ![v] = NoDisplay]
         /\ \/ Ask(v)
            \/ currentQueue = NoQueue /\ UNCHANGED <<queueBrowerVisible, listVars, browses>>
  BY DEF DeletionDone
<1> HIDE DEF v
<1>4. /\ currentMessage' \in [Visits -> [message : Messages \cup {NoMessage},
                                         destination : Queues \cup {NoQueue}]]
      /\ \A w \in Visits :
            currentMessage'[w] = NoDisplay \/ currentMessage'[w].message \in Messages
  <2>1. NoDisplay \in [message : Messages \cup {NoMessage},
                       destination : Queues \cup {NoQueue}]
    BY DEF NoDisplay
  <2> HIDE DEF NoDisplay
  <2>2. \/ currentMessage' = currentMessage
        \/ currentMessage' = [currentMessage EXCEPT ![v] = NoDisplay]
    BY <1>3 DEF windowVars
  <2>3. currentMessage \in [Visits -> [message : Messages \cup {NoMessage},
                                       destination : Queues \cup {NoQueue}]]
    BY <1>1 DEF BrowserTypeOK
  <2>4. \A w \in Visits :
           currentMessage[w] = NoDisplay \/ currentMessage[w].message \in Messages
    BY DEF Deletions
  <2>5. \A w \in Visits : currentMessage'[w] \in {currentMessage[w], NoDisplay}
    BY <2>2, <2>3
  <2>6. currentMessage' \in [Visits -> [message : Messages \cup {NoMessage},
                                        destination : Queues \cup {NoQueue}]]
    BY <2>1, <2>2, <2>3
  <2> QED
    BY <2>4, <2>5, <2>6
<1>5. NoDeletion \in [scope : Visits \cup {0}, message : Messages \cup {NoMessage},
                      queue : Queues \cup {NoQueue}, to : Brokers \cup {Unset},
                      served : BOOLEAN, removed : BOOLEAN]
      /\ ~NoDeletion.removed
  BY DEF NoDeletion
<1>6. Deletions'
  BY <1>2, <1>4, <1>5 DEF Deletions, messageVars
<1>7. CASE UNCHANGED <<queueBrowerVisible, listVars, browses>>
           /\ (reported' = reported \/ ~queueBrowerVisible[visit])
  <2>1. BrowserTypeOK'
    BY <1>1, <1>2, <1>4, <1>5, <1>7 DEF BrowserTypeOK, messageVars, listVars
  <2>2. Windows' /\ LastBrowse' /\ FreshIsShown' /\ ReportedNotListed'
    BY <1>2, <1>7 DEF Windows, LastBrowse, FreshIsShown, ReportedNotListed, listVars
  <2> QED
    BY <1>6, <2>1, <2>2
<1>8. CASE Ask(v)
  <2>1. /\ currentQueue # NoQueue
        /\ browses' \in [Slots -> [to : Brokers \cup {Unset}, queue : Queues \cup {NoQueue},
                                   served : BOOLEAN, seen : SUBSET Messages]]
        /\ latest' \in Slots
        /\ browses'[latest'].queue = currentQueue
        /\ browses'[latest'].seen = {}
        /\ fresh' = FALSE
        /\ queueBrowerVisible' \in [Visits -> BOOLEAN]
        /\ \A w \in Visits \ {v} : queueBrowerVisible'[w] = queueBrowerVisible[w]
        /\ UNCHANGED <<queueMessages, listedOf>>
    BY <1>2, <1>8, AskEffect
  <2>2. BrowserTypeOK'
    BY <1>1, <1>2, <1>4, <1>5, <2>1 DEF BrowserTypeOK, messageVars
  <2>3. Windows'
    <3>1. \A w \in Visits : visit < w => w # v
      BY <1>1, <1>2 DEF BrowserTypeOK, Visits
    <3> QED
      BY <1>2, <2>1, <3>1 DEF Windows
  <2>4. LastBrowse' /\ FreshIsShown' /\ ReportedNotListed'
    BY <1>2, <2>1 DEF LastBrowse, FreshIsShown, ReportedNotListed
  <2> QED
    BY <1>6, <2>2, <2>3, <2>4
<1>9. currentQueue = NoQueue => ~queueBrowerVisible[visit]
  BY DEF Windows
<1> QED
  BY <1>2, <1>3, <1>7, <1>8, <1>9 DEF windowVars

LEMMA NextBrowser == ASSUME SessionInv, BrowserInv, [Next]_vars PROVE BrowserInv'
<1>1. CASE BrowserClick
  <2>1. CASE \/ \E q \in Queues \cup {NoQueue} : ShowQueueDetails(q)
             \/ \E q \in Queues \cup {currentQueue} : Revisit(q)
             \/ CloseBrowseQueue
    BY <2>1, ClickBrowser
  <2>2. CASE BrowseQueue
    BY <2>2, BrowseBrowser
  <2>3. CASE \/ \E m \in Messages : ShowQueueMessageDetails(m)
             \/ CloseDetails \/ DeleteMessage
    BY <2>3, MessageBrowserStep
  <2> QED
    BY <1>1, <2>1, <2>2, <2>3 DEF BrowserClick
<1>2. CASE BrowserEvent
  <2>1. ASSUME NEW s \in Slots, BrowseServed(s) PROVE BrowserInv'
    BY <2>1, ServedBrowser
  <2>2. ASSUME NEW s \in Slots, BrowseAnswered(s) \/ BrowseBroken(s) PROVE BrowserInv'
    BY <2>2, AnsweredBrowser
  <2>3. ASSUME NEW s \in Slots, NEW f, BrowseFailed(s, f) PROVE BrowserInv'
    BY <2>3, AnsweredBrowser
  <2>4. CASE DeletionServed \/ \E m \in Messages : OthersMove(m)
    BY <2>4, OthersBrowser
  <2>5. ASSUME NEW f, DeletionFailed(f) PROVE BrowserInv'
    BY <2>5, OthersBrowser
  <2>6. CASE DeletionDone
    BY <2>6, DoneBrowser
  <2> QED
    BY <1>2, <2>1, <2>2, <2>3, <2>4, <2>5, <2>6 DEF BrowserEvent
<1>3. CASE UNCHANGED browserVars
  <2>1. UNCHANGED <<home, life, visit, currentQueue, queueBrowerVisible, queueMessages,
                    currentMessage, browses, deletion, latest, fresh, listedOf, deleted,
                    reported>>
    BY <1>3 DEF browserVars, messageVars, windowVars, listVars, pastVars
  <2> QED
    BY <2>1 DEF BrowserInv, BrowserTypeOK, Windows, LastBrowse, Deletions,
       FreshIsShown, ReportedNotListed
<1> QED
  BY <1>1, <1>2, <1>3 DEF Next, vars

(***************************************************************************)
(* The invariant of the panes, and what follows from it.                   *)
(***************************************************************************)

IInv == SessionInv /\ BrowserInv /\ ConnectionInv /\ CheckInv

LEMMA InitIInv == ASSUME Init PROVE IInv
<1>1. SessionInv
  <2>1. session \in Session /\ ~session.connected
    BY DEF Init, SessionInit, Session
  <2> QED
    BY <2>1 DEF Init, SessionInit, SessionInv, SessionTypeOK, Prepared, OnTabs
<1>2. BrowserInv
  <2>1. /\ 1 \in Visits /\ BrowserInit
    BY DEF Visits, Init
  <2>2. BrowserTypeOK
    BY <2>1 DEF BrowserInit, BrowserTypeOK, NoDisplay, NoBrowse, NoDeletion
  <2>3. Windows /\ LastBrowse /\ Deletions /\ FreshIsShown /\ ReportedNotListed
    BY <2>1 DEF BrowserInit, Windows, LastBrowse, Deletions, FreshIsShown,
       ReportedNotListed, NoDeletion
  <2> QED
    BY <2>2, <2>3 DEF BrowserInv
<1>3. ConnectionInv
  <2>1. ConnectionInit
    BY DEF Init
  <2> QED
    BY <2>1 DEF ConnectionInit, ConnectionInv, ConnectionTypeOK, LastRead, DetailsShown
<1>4. CheckInv
  <2>1. CheckInit
    BY DEF Init
  <2>2. CheckTypeOK
    BY <2>1 DEF CheckInit, CheckTypeOK
  <2>3. CheckIsComplete
    <3>1. \A s \in Subscribers :
             /\ subscriberTesterList[s] = 0 /\ detailReads[s] = 0
             /\ s \notin checked
      BY <2>1 DEF CheckInit
    <3> QED
      BY <3>1 DEF CheckIsComplete
  <2> QED
    BY <2>2, <2>3 DEF CheckInv
<1> QED
  BY <1>1, <1>2, <1>3, <1>4 DEF IInv

LEMMA Invariance == Spec => []IInv
<1>1. Init => IInv
  BY InitIInv
<1>2. IInv /\ [Next]_vars => IInv'
  BY NextSession, NextBrowser, NextConnection, NextCheck DEF IInv
<1> QED
  BY <1>1, <1>2, PTL DEF Spec

\* The variables of the session and of the panes keep their types, however
\* clicks and answers interleave.
THEOREM TypeCorrect == Spec => []TypeOK
<1>1. IInv => TypeOK
  BY DEF IInv, SessionInv, BrowserInv, ConnectionInv, CheckInv, TypeOK
<1> QED
  BY <1>1, Invariance, PTL

\* Once the last browse has been answered, the browser window lists the
\* messages of the queue in its heading (browseQueue and the ng-show of the
\* Queues tab), in whatever order older browses were answered.
THEOREM ListFits == Spec => []FreshIsShown
<1>1. IInv => FreshIsShown
  BY DEF IInv, BrowserInv
<1> QED
  BY <1>1, Invariance, PTL

\* A list read last never shows a message whose deletion was reported on
\* screen: deleteMessage browses again after every deletion it reports.
THEOREM ReportedAreGone == Spec => []ReportedNotListed
<1>1. IInv => ReportedNotListed
  BY DEF IInv, BrowserInv
<1> QED
  BY <1>1, Invariance, PTL

\* Once the last read of connection details has been answered they are those
\* of the connection in the heading (computeConnectionDetails).
THEOREM DetailsFit == Spec => []DetailsShown
<1>1. IInv => DetailsShown
  BY DEF IInv, ConnectionInv
<1> QED
  BY <1>1, Invariance, PTL

\* A check that no other overlapped and no read of which failed ends with one
\* row for every subscriber that was listed when it began (checkSubscribers).
THEOREM ChecksComplete == Spec => []CheckIsComplete
<1>1. IInv => CheckIsComplete
  BY DEF IInv, CheckInv
<1> QED
  BY <1>1, Invariance, PTL

(***************************************************************************)
(* DetailPanes implements ConsoleSession.                                  *)
(***************************************************************************)

\* Until a broker is named nothing can be asked for.
PanesIdle ==
    /\ browses = [s \in Slots |-> NoBrowse]
    /\ deletion = NoDeletion
    /\ reads = [r \in Reads |-> NoRead]
    /\ detailReads = [s \in Subscribers |-> 0]
    /\ ~asking

PanesAddressed == target = Unset => PanesIdle

\* A failed read or request of a pane is a failed operation of the session.
LEMMA PaneFails ==
    ASSUME target # Unset, NEW f \in Failures \cup {NoReply},
           session' = AfterApiError(session, f), UNCHANGED <<target, connecting, busy>>
    PROVE  SessionStep
<1>1. f \in Rejections /\ ExecFailed(f)
  BY DEF Rejections, ExecFailed
<1> QED
  BY <1>1 DEF SessionStep

\* Every step is a step of the session or leaves it unchanged.
LEMMA PanesSession ==
    ASSUME PanesAddressed, [Next]_vars
    PROVE  SessionStep \/ UNCHANGED sessionVars
<1>1. CASE BrowserEvent
  <2>1. ASSUME NEW s \in Slots, NEW f \in Failures \cup {NoReply}, BrowseFailed(s, f)
        PROVE  SessionStep
    <3>1. target # Unset
      BY <2>1 DEF BrowseFailed, PanesAddressed, PanesIdle
    <3> QED
      BY <2>1, <3>1, PaneFails DEF BrowseFailed
  <2>2. ASSUME NEW f \in Failures \cup {NoReply}, DeletionFailed(f) PROVE SessionStep
    <3>1. target # Unset
      BY <2>2 DEF DeletionFailed, PanesAddressed, PanesIdle
    <3> QED
      BY <2>2, <3>1, PaneFails DEF DeletionFailed
  <2>3. CASE DeletionDone
    <3>1. deletion.served /\ RefreshAll /\ UNCHANGED <<target, session>>
      BY <2>3 DEF DeletionDone, Finished
    <3>2. target # Unset
      BY <3>1 DEF PanesAddressed, PanesIdle, NoDeletion
    <3> QED
      BY <3>1, <3>2 DEF SessionStep, Refresh
  <2>4. CASE \/ \E s \in Slots : BrowseServed(s) \/ BrowseAnswered(s) \/ BrowseBroken(s)
             \/ DeletionServed \/ \E m \in Messages : OthersMove(m)
    BY <2>4 DEF BrowseServed, BrowseAnswered, BrowseBroken, Fill, DeletionServed,
       OthersMove
  <2> QED
    BY <1>1, <2>1, <2>2, <2>3, <2>4 DEF BrowserEvent
<1>2. CASE ConnectionEvent
  <2>1. ASSUME NEW r \in Reads, NEW f \in Failures \cup {NoReply}, DetailsFailed(r, f)
        PROVE  SessionStep
    <3>1. target # Unset
      BY <2>1 DEF DetailsFailed, Arrived, PanesAddressed, PanesIdle
    <3> QED
      BY <2>1, <3>1, PaneFails DEF DetailsFailed, Arrived
  <2>2. CASE \E r \in Reads : DetailsRead(r) \/ DetailsMissing(r)
    BY <2>2 DEF DetailsRead, DetailsMissing, Arrived, sessionVars
  <2> QED
    BY <1>2, <2>1, <2>2 DEF ConnectionEvent
<1>3. CASE CheckStep
  <2>1. ASSUME NEW s \in Subscribers, NEW f \in Failures \cup {NoReply},
               SubscriberFailed(s, f)
        PROVE  SessionStep
    <3>1. detailReads[s] > 0
      BY <2>1 DEF SubscriberFailed, Answered
    <3>2. target # Unset
      BY <3>1 DEF PanesAddressed, PanesIdle
    <3> QED
      BY <2>1, <3>2, PaneFails DEF SubscriberFailed, Answered
  <2>2. CASE TopicsRead
    BY <2>2 DEF TopicsRead, SessionStep
  <2>3. CASE \/ AskToCheck \/ DoNotCheck \/ CheckSubscribers \/ CloseCheckSubscribers
             \/ \E s \in Subscribers : SubscriberRead(s) \/ SubscriberMissing(s)
    BY <2>3 DEF AskToCheck, DoNotCheck, CheckSubscribers, AskForAll,
       CloseCheckSubscribers, SubscriberRead, SubscriberMissing, Answered, sessionVars
  <2> QED
    BY <1>3, <2>1, <2>2, <2>3 DEF CheckStep
<1>4. CASE BrowserClick \/ ConnectionClick \/ UNCHANGED vars
  BY <1>4 DEF BrowserClick, ShowQueueDetails, Revisit, BrowseQueue,
     CloseBrowseQueue, ShowQueueMessageDetails, CloseDetails, DeleteMessage,
     ConnectionClick, ShowConnectionDetails, ShowConnection, ReopenConnections,
     RefreshCurrentConnection, vars
<1> QED
  BY <1>1, <1>2, <1>3, <1>4 DEF Next

\* Before a broker is named the tabs are closed, so no click asks for anything;
\* and a broker, once named, stays named.
LEMMA PanesAddressedKept ==
    ASSUME SessionInv, PanesAddressed, [Next]_vars PROVE PanesAddressed'
<1> SUFFICES ASSUME target' = Unset PROVE PanesIdle'
  BY DEF PanesAddressed
<1>1. target = Unset
  BY PanesSession, SessionStepEffect DEF SessionInv, sessionVars
<1>2. PanesIdle /\ ~OnTabs
  BY <1>1 DEF PanesAddressed, SessionInv, Prepared
<1>3. CASE /\ BrowserEvent \/ BrowserClick
           /\ UNCHANGED <<connectionVars, checkVars>>
  <2>1. ~BrowserClick
    BY <1>2 DEF BrowserClick, ShowQueueDetails, Revisit, BrowseQueue,
       CloseBrowseQueue, ShowQueueMessageDetails, CloseDetails, DeleteMessage
  <2>2. ASSUME NEW m \in Messages, OthersMove(m)
        PROVE  UNCHANGED <<browses, deletion>>
    BY <2>2 DEF OthersMove
  <2>3. UNCHANGED <<browses, deletion>>
    BY <1>2, <1>3, <2>1, <2>2 DEF PanesIdle, BrowserEvent, BrowseServed,
       BrowseAnswered, BrowseBroken, BrowseFailed, DeletionServed, DeletionDone,
       Finished, DeletionFailed, NoBrowse, NoDeletion
  <2> QED
    BY <1>2, <1>3, <2>3 DEF PanesIdle, connectionVars, checkVars
<1>4. CASE /\ ConnectionEvent \/ ConnectionClick
           /\ UNCHANGED <<browserVars, checkVars>>
  <2>1. ~ConnectionEvent /\ ~ConnectionClick
    BY <1>2 DEF PanesIdle, ConnectionEvent, DetailsRead, DetailsMissing,
       DetailsFailed, Arrived, ConnectionClick, ShowConnectionDetails,
       ShowConnection, ReopenConnections, RefreshCurrentConnection
  <2> QED
    BY <1>4, <2>1
<1>5. CASE CheckStep /\ UNCHANGED <<browserVars, connectionVars>>
  <2>1. UNCHANGED <<asking, detailReads>>
    BY <1>2, <1>5 DEF PanesIdle, CheckStep, TopicsRead, AskToCheck, DoNotCheck,
       CheckSubscribers, AskForAll, CloseCheckSubscribers, SubscriberRead,
       SubscriberMissing, SubscriberFailed, Answered
  <2> QED
    BY <1>2, <1>5, <2>1 DEF PanesIdle, browserVars, connectionVars
<1>6. CASE UNCHANGED <<browserVars, connectionVars, checkVars>>
  BY <1>2, <1>6 DEF PanesIdle, browserVars, connectionVars, checkVars
<1> QED
  BY <1>3, <1>4, <1>5, <1>6 DEF Next, vars

\* The panes ask and are answered in whatever order; to the session each of
\* their answers is an operation, and only a deletion refreshes.
THEOREM ImplementsSession == Spec => SessionSpec
<1>1. Init => SessionInv /\ PanesAddressed /\ SessionInit
  BY InitIInv DEF Init, IInv, BrowserInit, ConnectionInit, CheckInit,
     PanesAddressed, PanesIdle
<1>2. SessionInv /\ PanesAddressed /\ [Next]_vars
        => /\ SessionInv' /\ PanesAddressed'
           /\ [SessionStep]_sessionVars
  BY NextSession, PanesSession, PanesAddressedKept
<1> QED
  BY <1>1, <1>2, PTL DEF Spec, SessionSpec

\* Nothing polls behind the login window, whichever pane's answer closed the
\* tabs.
THEOREM TimerOwned == Spec => []TimerHasOwner
  BY ImplementsSession, SessionTimer, PTL
=============================================================================
