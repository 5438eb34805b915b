-------------------------- MODULE ConnectionDetails --------------------------
(***************************************************************************)
(* The details of a connection: the consumers it has, read by              *)
(* computeConnectionDetails for the Connections tab, and for the Queues    *)
(* and Topics tabs, which lead there with showConnection.                  *)
(*                                                                         *)
(* The factory knows the connection on display and fills one list, no      *)
(* matter whose details arrive; the Refresh button asks for the connection *)
(* its own scope knows, which it does not if another tab led here.         *)
(* The list is represented by the connection whose consumers it holds.     *)
(***************************************************************************)
EXTENDS ConsoleSession

CONSTANTS
    Connections,
    NoConnection,   \* null or undefined
    NoRead,
    MaxReads        \* bound on the reads outstanding

ASSUME DetailsAssumption ==
    /\ NoConnection \notin Connections
    /\ NoRead \notin Connections \cup {NoConnection}
    /\ MaxReads \in Nat \ {0}

Reads == 1..MaxReads

VARIABLES
    currentConnection,         \* of the factory, on display
    scopeConnection,           \* $scope.currentConnection of ConnectionsCtrl
    connectionDetailsObject,
    detailsComputingUnderway,  \* hides the Refresh button
    reads,                     \* the connections whose details are asked for
    lastRead,                  \* history: the last read, until answered; or 0
    current                    \* history: its answer is the last that came

connectionVars == <<currentConnection, scopeConnection, connectionDetailsObject,
                    detailsComputingUnderway, reads, lastRead, current>>

ConnectionTypeOK ==
    /\ currentConnection \in Connections \cup {NoConnection}
    /\ scopeConnection \in {NoConnection, currentConnection}
    /\ connectionDetailsObject \in Connections \cup {NoConnection}
    /\ detailsComputingUnderway \in BOOLEAN
    /\ reads \in [Reads -> Connections \cup {NoRead}]
    /\ lastRead \in Reads \cup {0}
    /\ current \in BOOLEAN

ConnectionInit ==
    /\ currentConnection = NoConnection
    /\ scopeConnection = NoConnection
    /\ connectionDetailsObject = NoConnection
    /\ detailsComputingUnderway = FALSE
    /\ reads = [r \in Reads |-> NoRead]
    /\ lastRead = 0
    /\ current = FALSE

(***************************************************************************)
(* Asking.                                                                 *)
(***************************************************************************)

AskFor(c) ==
    /\ \E r \in Reads :
          /\ reads[r] = NoRead
          /\ reads' = [reads EXCEPT ![r] = c]
          /\ lastRead' = r
    /\ current' = FALSE

\* Mutant of ComputeConnectionDetails: it also asks for nothing, null.
ComputeAnyway(c) ==
    /\ currentConnection' = c
    /\ AskFor(c)

\* Mutant of ComputeConnectionDetails: an answer under way is waited for.
ComputeOnce(c) ==
    /\ currentConnection' = c
    /\ IF c = NoConnection \/ reads # [r \in Reads |-> NoRead]
       THEN UNCHANGED <<reads, lastRead, current>>
       ELSE AskFor(c)

ComputeConnectionDetails(c) ==
    /\ currentConnection' = c
    /\ IF c = NoConnection
       THEN UNCHANGED <<reads, lastRead, current>>
       ELSE AskFor(c)

\* On the Connections tab: showDetails, which also closes the details.
ShowConnectionDetails(c) ==
    /\ OnTabs
    /\ scopeConnection' = c
    /\ ComputeConnectionDetails(c)
    /\ UNCHANGED <<sessionVars, connectionDetailsObject, detailsComputingUnderway>>

\* On another tab: showConnection, which leads to a new scope.
ShowConnection(c) ==
    /\ OnTabs
    /\ scopeConnection' = NoConnection
    /\ ComputeConnectionDetails(c)
    /\ UNCHANGED <<sessionVars, connectionDetailsObject, detailsComputingUnderway>>

\* To another tab and back.
ReopenConnections ==
    /\ OnTabs
    /\ scopeConnection' = NoConnection
    /\ UNCHANGED <<sessionVars, currentConnection, connectionDetailsObject,
                   detailsComputingUnderway, reads, lastRead, current>>

RefreshCurrentConnection ==
    /\ OnTabs
    /\ currentConnection # NoConnection
    /\ ~detailsComputingUnderway
    /\ detailsComputingUnderway' = TRUE
    /\ ComputeConnectionDetails(scopeConnection)
    /\ UNCHANGED <<sessionVars, scopeConnection, connectionDetailsObject>>

(***************************************************************************)
(* Answers.                                                                *)
(***************************************************************************)

Arrived(r) ==
    /\ reads[r] # NoRead
    /\ reads' = [reads EXCEPT ![r] = NoRead]
    /\ lastRead' = IF lastRead = r THEN 0 ELSE lastRead
    /\ UNCHANGED <<target, connecting, busy, currentConnection, scopeConnection>>

DetailsRead(r) ==
    /\ Arrived(r)
    /\ connectionDetailsObject' = reads[r]
    /\ current' = (lastRead = r)
    /\ detailsComputingUnderway' = FALSE
    /\ UNCHANGED session

\* An answer that reports an error has no value, and empties the list.
DetailsMissing(r) ==
    /\ Arrived(r)
    /\ connectionDetailsObject' = NoConnection
    /\ current' = FALSE
    /\ detailsComputingUnderway' = FALSE
    /\ UNCHANGED session

\* The Refresh button stays hidden.
DetailsFailed(r, f) ==
    /\ Arrived(r)
    /\ session' = AfterApiError(session, f)
    /\ UNCHANGED <<connectionDetailsObject, current, detailsComputingUnderway>>

ConnectionClick ==
    \/ \E c \in Connections \cup {NoConnection} : ShowConnectionDetails(c)
    \/ \E c \in Connections : ShowConnection(c)
    \/ ReopenConnections
    \/ RefreshCurrentConnection

ConnectionEvent ==
    \/ \E r \in Reads : DetailsRead(r) \/ DetailsMissing(r)
    \/ \E r \in Reads, f \in Failures \cup {NoReply} : DetailsFailed(r, f)

(***************************************************************************)
(* Property.                                                               *)
(***************************************************************************)

\* Once the details that were asked for last have been read, and none older
\* after them, they are the details of the connection on display, whichever
\* tab asked for them and whatever has been opened, closed or refreshed.
DetailsShown ==
    (currentConnection # NoConnection /\ current) =>
        connectionDetailsObject = currentConnection
=============================================================================
