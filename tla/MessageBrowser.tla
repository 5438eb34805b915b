--------------------------- MODULE MessageBrowser ---------------------------
(***************************************************************************)
(* The messages of a queue on the Queues tab: browsing them, showing one,  *)
(* and deleting it, which browses again.                                   *)
(*                                                                         *)
(* The answers of browseQueue fill one list of the factory, whatever is    *)
(* selected when they come; every scope of QueuesCtrl has its own browser  *)
(* window and its own message on display, and what is done after a         *)
(* deletion happens in the scope that asked for it.                        *)
(*                                                                         *)
(* Purging is a removal of messages by others here; that it refreshes the  *)
(* lists, or fails, is a step of the session.                              *)
(***************************************************************************)
EXTENDS ConsoleSession

CONSTANTS
    Queues,
    NoQueue,
    Messages,
    NoMessage,
    MaxBrowses,   \* bound on the browse requests outstanding
    MaxVisits     \* bound on the times the Queues tab is opened

ASSUME BrowserAssumption ==
    /\ NoQueue \notin Queues
    /\ NoMessage \notin Messages
    /\ MaxBrowses \in Nat \ {0}
    /\ MaxVisits \in Nat \ {0}

Slots  == 1..MaxBrowses
Visits == 1..MaxVisits

VARIABLES
    home,                \* per message: the broker and queue it is sent to
    life,                \* per message: "coming", "queued" or "gone"
    visit,               \* the scope on screen
    currentQueue,
    queueBrowerVisible,  \* per scope (the name is the code's)
    queueMessages,
    currentMessage,      \* per scope: the message on display, its destination
    browses,             \* the browse requests outstanding
    deletion,            \* deleteMessage; bound: one at a time
    latest,              \* history: the last browse, until it is answered; or 0
    fresh,               \* history: its answer is the last that filled the list
    listedOf,            \* history: the queue whose messages fill the list
    deleted,             \* history: messages whose deletion was carried out
                         \* and has been answered
    reported             \* history: ... and was reported on screen

messageVars == <<home, life>>
windowVars  == <<queueBrowerVisible, currentMessage>>
listVars    == <<queueMessages, latest, fresh, listedOf>>
pastVars    == <<deleted, reported>>
browserVars == <<messageVars, visit, currentQueue, windowVars, listVars,
                 browses, deletion, pastVars>>

NoBrowse   == [to |-> Unset, queue |-> NoQueue, served |-> FALSE, seen |-> {}]
NoDisplay  == [message |-> NoMessage, destination |-> NoQueue]
NoDeletion == [scope |-> 0, message |-> NoMessage, queue |-> NoQueue,
               to |-> Unset, served |-> FALSE, removed |-> FALSE]

BrowserTypeOK ==
    /\ home \in [Messages -> Brokers \X Queues]
    /\ life \in [Messages -> {"coming", "queued", "gone"}]
    /\ visit \in Visits
    /\ currentQueue \in Queues \cup {NoQueue}
    /\ queueBrowerVisible \in [Visits -> BOOLEAN]
    /\ queueMessages \subseteq Messages
    /\ currentMessage \in
         [Visits -> [message : Messages \cup {NoMessage},
                     destination : Queues \cup {NoQueue}]]
    /\ browses \in [Slots -> [to : Brokers \cup {Unset},
                              queue : Queues \cup {NoQueue},
                              served : BOOLEAN, seen : SUBSET Messages]]
    /\ deletion \in [scope : Visits \cup {0}, message : Messages \cup {NoMessage},
                     queue : Queues \cup {NoQueue}, to : Brokers \cup {Unset},
                     served : BOOLEAN, removed : BOOLEAN]
    /\ latest \in Slots \cup {0}
    /\ fresh \in BOOLEAN
    /\ listedOf \in Queues \cup {NoQueue}
    /\ deleted \subseteq Messages
    /\ reported \subseteq deleted

BrowserInit ==
    /\ home \in [Messages -> Brokers \X Queues]
    /\ life \in [Messages -> {"coming", "queued"}]
    /\ visit = 1
    /\ currentQueue = NoQueue
    /\ queueBrowerVisible = [v \in Visits |-> FALSE]
    /\ queueMessages = {}
    /\ currentMessage = [v \in Visits |-> NoDisplay]
    /\ browses = [s \in Slots |-> NoBrowse]
    /\ deletion = NoDeletion
    /\ latest = 0
    /\ fresh = FALSE
    /\ listedOf = NoQueue
    /\ deleted = {}
    /\ reported = {}

(***************************************************************************)
(* Browsing.                                                               *)
(***************************************************************************)

\* Mutant of ShowQueueDetails: the browser window stays open.
ShowDetailsOnly(q) ==
    /\ OnTabs
    /\ currentQueue' = q
    /\ UNCHANGED <<sessionVars, messageVars, visit, windowVars, listVars, browses,
                   deletion, pastVars>>

\* The details of a queue are opened, or closed (q = NoQueue).
ShowQueueDetails(q) ==
    /\ OnTabs
    /\ currentQueue' = q
    /\ queueBrowerVisible' = [queueBrowerVisible EXCEPT ![visit] = FALSE]
    /\ UNCHANGED <<sessionVars, messageVars, visit, currentMessage, listVars,
                   browses, deletion, pastVars>>

\* browseQueue of scope v: the current queue is asked for.
Ask(v) ==
    /\ currentQueue # NoQueue
    /\ \E s \in Slots :
          /\ browses[s] = NoBrowse
          /\ browses' = [browses EXCEPT ![s] =
                            [NoBrowse EXCEPT !.to = target, !.queue = currentQueue]]
          /\ latest' = s
    /\ fresh' = FALSE
    /\ queueBrowerVisible' = [queueBrowerVisible EXCEPT ![v] = TRUE]
    /\ UNCHANGED <<queueMessages, listedOf>>

BrowseQueue ==
    /\ OnTabs
    /\ Ask(visit)
    /\ UNCHANGED <<sessionVars, messageVars, visit, currentQueue, currentMessage,
                   deletion, pastVars>>

CloseBrowseQueue ==
    /\ OnTabs
    /\ queueBrowerVisible' = [queueBrowerVisible EXCEPT ![visit] = FALSE]
    /\ UNCHANGED <<sessionVars, messageVars, visit, currentQueue, currentMessage,
                   listVars, browses, deletion, pastVars>>

\* The broker processes a browse.
BrowseServed(s) ==
    /\ browses[s] # NoBrowse
    /\ ~browses[s].served
    /\ browses' = [browses EXCEPT ![s] = [@ EXCEPT
           !.served = TRUE,
           !.seen   = {m \in Messages :
                         /\ life[m] = "queued"
                         /\ home[m] = <<browses[s].to, browses[s].queue>>}]]
    /\ UNCHANGED <<sessionVars, messageVars, visit, currentQueue, windowVars,
                   listVars, deletion, pastVars>>

\* The request in slot s is over.
Over(s) ==
    /\ browses' = [browses EXCEPT ![s] = NoBrowse]
    /\ latest' = IF latest = s THEN 0 ELSE latest

Fill(s, list) ==
    /\ queueMessages' = list
    /\ listedOf' = browses[s].queue
    /\ Over(s)
    /\ UNCHANGED <<sessionVars, messageVars, visit, currentQueue, windowVars,
                   deletion, pastVars>>

BrowseAnswered(s) ==
    /\ browses[s].served
    /\ Fill(s, browses[s].seen)
    /\ fresh' = (latest = s)

\* The callback throws: on an answer without a value, or on a message with
\* neither text nor preview, which leaves the list as far as it has come.
BrowseBroken(s) ==
    /\ browses[s].served
    /\ \E part \in SUBSET browses[s].seen : Fill(s, part)
    /\ fresh' = FALSE

BrowseFailed(s, f) ==
    /\ browses[s] # NoBrowse
    /\ session' = AfterApiError(session, f)
    /\ Over(s)
    /\ UNCHANGED <<target, connecting, busy, messageVars, visit, currentQueue,
                   windowVars, queueMessages, fresh, listedOf, deletion, pastVars>>

(***************************************************************************)
(* One message.                                                            *)
(***************************************************************************)

\* The destination is that of the details, not that of the list.
ShowQueueMessageDetails(m) ==
    /\ OnTabs
    /\ queueBrowerVisible[visit]
    /\ m \in queueMessages
    /\ currentQueue # NoQueue
    /\ currentMessage' = [currentMessage EXCEPT ![visit] =
                            [message |-> m, destination |-> currentQueue]]
    /\ UNCHANGED <<sessionVars, messageVars, visit, currentQueue,
                   queueBrowerVisible, listVars, browses, deletion, pastVars>>

CloseDetails ==
    /\ OnTabs
    /\ currentMessage' = [currentMessage EXCEPT ![visit] = NoDisplay]
    /\ UNCHANGED <<sessionVars, messageVars, visit, currentQueue,
                   queueBrowerVisible, listVars, browses, deletion, pastVars>>

DeleteMessage ==
    /\ OnTabs
    /\ currentMessage[visit] # NoDisplay
    /\ deletion = NoDeletion
    /\ deletion' = [NoDeletion EXCEPT
                      !.scope   = visit,
                      !.message = currentMessage[visit].message,
                      !.queue   = currentMessage[visit].destination,
                      !.to      = target]
    /\ UNCHANGED <<sessionVars, messageVars, visit, currentQueue, windowVars,
                   listVars, browses, pastVars>>

\* The broker removes the message if the queue has it; whether it had is in
\* the answer, which nobody reads.
DeletionServed ==
    /\ deletion # NoDeletion
    /\ ~deletion.served
    /\ LET m   == deletion.message
           has == life[m] = "queued" /\ home[m] = <<deletion.to, deletion.queue>>
       IN  /\ life' = IF has THEN [life EXCEPT ![m] = "gone"] ELSE life
           /\ deletion' = [deletion EXCEPT !.served = TRUE, !.removed = has]
    /\ UNCHANGED <<sessionVars, home, visit, currentQueue, windowVars, listVars,
                   browses, pastVars>>

\* The callback of the success has come; it closes the message on display,
\* whichever that is now, and browses the queue of the details again.  It
\* throws where one of them is missing.
Finished ==
    /\ deletion.served
    /\ deletion' = NoDeletion
    /\ LET done  == IF deletion.removed THEN {deletion.message} ELSE {}
           shown == currentMessage[deletion.scope] # NoDisplay
       IN  /\ deleted' = deleted \cup done
           /\ reported' = reported \cup IF shown THEN done ELSE {}
    /\ RefreshAll
    /\ UNCHANGED <<target, session, messageVars, visit, currentQueue>>

\* Mutant of DeletionDone: the queue is not browsed again.
DeletionDoneOnly ==
    /\ Finished
    /\ UNCHANGED <<windowVars, listVars, browses>>

DeletionDone ==
    /\ Finished
    /\ IF currentMessage[deletion.scope] = NoDisplay
       THEN UNCHANGED <<windowVars, listVars, browses>>
       ELSE /\ currentMessage' = [currentMessage EXCEPT ![deletion.scope] = NoDisplay]
            /\ \/ Ask(deletion.scope)
               \/ /\ currentQueue = NoQueue
                  /\ UNCHANGED <<queueBrowerVisible, listVars, browses>>

\* A failure, before or after the broker has carried out the deletion.
DeletionFailed(f) ==
    /\ deletion # NoDeletion
    /\ deletion' = NoDeletion
    /\ session' = AfterApiError(session, f)
    /\ UNCHANGED <<target, connecting, busy, messageVars, visit, currentQueue,
                   windowVars, listVars, browses, pastVars>>

(***************************************************************************)
(* The other tabs, other clients, and the steps by who takes them.         *)
(***************************************************************************)

\* To another tab and back, from where showDestination may have selected a
\* queue: ng-include makes a new scope.
Revisit(q) ==
    /\ OnTabs
    /\ visit < MaxVisits
    /\ visit' = visit + 1
    /\ currentQueue' = q
    /\ UNCHANGED <<sessionVars, messageVars, windowVars, listVars, browses,
                   deletion, pastVars>>

\* A message arrives, or is consumed or purged.
OthersMove(m) ==
    /\ \/ life[m] = "coming" /\ life' = [life EXCEPT ![m] = "queued"]
       \/ life[m] = "queued" /\ life' = [life EXCEPT ![m] = "gone"]
    /\ UNCHANGED <<sessionVars, home, visit, currentQueue, windowVars, listVars,
                   browses, deletion, pastVars>>

BrowserClick ==
    \/ \E q \in Queues \cup {NoQueue} : ShowQueueDetails(q)
    \/ \E q \in Queues \cup {currentQueue} : Revisit(q)
    \/ BrowseQueue \/ CloseBrowseQueue
    \/ \E m \in Messages : ShowQueueMessageDetails(m)
    \/ CloseDetails \/ DeleteMessage

BrowserEvent ==
    \/ \E s \in Slots : BrowseServed(s) \/ BrowseAnswered(s) \/ BrowseBroken(s)
    \/ \E s \in Slots, f \in Failures \cup {NoReply} : BrowseFailed(s, f)
    \/ DeletionServed \/ DeletionDone
    \/ \E f \in Failures \cup {NoReply} : DeletionFailed(f)
    \/ \E m \in Messages : OthersMove(m)

(***************************************************************************)
(* Properties.                                                             *)
(***************************************************************************)

\* Once the last browse has been answered, and no older one after it, the
\* window headed "Queue:{{currentQueue.Name}}" lists the messages of that
\* queue, although the details, the scope and the order of the answers change.
FreshIsShown ==
    (queueBrowerVisible[visit] /\ currentQueue # NoQueue /\ fresh) =>
        listedOf = currentQueue

\* Such a list never shows a message whose deletion has been reported, in
\* whatever scope that was and whatever has been opened or closed since.
ReportedNotListed ==
    (queueBrowerVisible[visit] /\ fresh) => queueMessages \cap reported = {}

\* "Reload queue contents after delete" (QueuesCtrl.js): ... a message that the
\* console has deleted.
DeletedNotListed ==
    (queueBrowerVisible[visit] /\ fresh) => queueMessages \cap deleted = {}
=============================================================================
