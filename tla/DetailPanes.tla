----------------------------- MODULE DetailPanes -----------------------------
(***************************************************************************)
(* The panes that show answers of their own beside the refreshed lists:    *)
(* the messages of a queue, the consumers of a connection and the check of *)
(* the subscribers, in one session.                                        *)
(***************************************************************************)
EXTENDS MessageBrowser, ConnectionDetails, SubscriberCheck

vars == <<sessionVars, browserVars, connectionVars, checkVars>>

TypeOK == SessionTypeOK /\ BrowserTypeOK /\ ConnectionTypeOK /\ CheckTypeOK

Init == SessionInit /\ BrowserInit /\ ConnectionInit /\ CheckInit

SessionClick ==
    \/ \E b \in Brokers : Login(b)
    \/ LogStompOnly
    \/ Disconnect
    \/ SetRefresh

\* The question whether to check is a modal dialog: nothing else is clicked
\* before it is answered.
Next ==
    \/ /\ BrowserEvent \/ (BrowserClick /\ ~asking)
       /\ UNCHANGED <<connectionVars, checkVars>>
    \/ /\ ConnectionEvent \/ (ConnectionClick /\ ~asking)
       /\ UNCHANGED <<browserVars, checkVars>>
    \/ /\ CheckStep
       /\ UNCHANGED <<browserVars, connectionVars>>
    \/ /\ SessionStep
       /\ SessionClick => ~asking
       /\ UNCHANGED <<browserVars, connectionVars, checkVars>>

Spec == Init /\ [][Next]_vars
=============================================================================
