----------------------------- MODULE StompClient -----------------------------
(***************************************************************************)
(* The STOMP client of the console (JS/Factories/AMQClientFact.js) on top  *)
(* of the STOMP library and the browser's web sockets, composed with the   *)
(* session: the Client tab is one of the tabs that a login opens, and      *)
(* disconnectAMQ hangs up before it closes them.                           *)
(*                                                                         *)
(* Each Connect makes a socket of its own.  Sockets outlive the user's     *)
(* interest in them: a handler of an old one that can still be called      *)
(* would work on whatever client the factory has by then, because the      *)
(* callbacks refer to factory.client and not to the socket they belong to. *)
(*                                                                         *)
(* The destinations subscribed to are left out (at least one is), as are   *)
(* the settings stored on the way and the texts of the toasts.  The broker *)
(* sends each frame by itself, and one that offers heart-beats offers them *)
(* in both directions.  A message is the number of its reception since     *)
(* Connect.                                                                *)
(***************************************************************************)
EXTENDS ConsoleSession, Sequences

CONSTANTS MaxMessages,   \* the length that the message table is cut to: 1000
          MaxConnects,   \* bound: how often the user connects
          MaxReceived    \* bound: messages received on one connection

ASSUME MaxMessagesAssumption == MaxMessages \in Nat \ {0}
ASSUME MaxConnectsAssumption == MaxConnects \in Nat \ {0}
ASSUME MaxReceivedAssumption == MaxReceived \in Nat

Clients == 1..MaxConnects   \* the objects that Stomp.client made, in order
NoClient == 0

VARIABLES
    client,         \* factory.client: the latest client, or NoClient
    made,           \* how many clients there have been
    socket,         \* per client: its web socket and what the library keeps
    messages,       \* the message table, newest first
    messagesCount

clientVars == <<client, made, socket, messages, messagesCount>>
vars == <<sessionVars, clientVars>>

Socket == [ready   : {"unused", "connecting", "open", "closing", "closed"},
           onclose : BOOLEAN,  \* ws.onclose is set
           greeted : BOOLEAN,  \* the broker answered CONNECT with CONNECTED
           subs    : Nat,      \* how often callBackFunc subscribed on it
           beating : BOOLEAN,  \* pinger and ponger run
           silent  : BOOLEAN]  \* no server activity for twice the interval

NoSocket == [ready |-> "unused", onclose |-> FALSE, greeted |-> FALSE,
             subs |-> 0, beating |-> FALSE, silent |-> FALSE]

TypeOK ==
    /\ SessionTypeOK
    /\ client \in Clients \cup {NoClient}
    /\ made \in 0..MaxConnects
    /\ socket \in [Clients -> Socket]
    /\ messages \in Seq(Nat)
    /\ messagesCount \in Nat

Init ==
    /\ SessionInit
    /\ client = NoClient
    /\ made = 0
    /\ socket = [c \in Clients |-> NoSocket]
    /\ messages = <<>>
    /\ messagesCount = 0

(***************************************************************************)
(* What the handlers share.                                                *)
(***************************************************************************)

\* ws.send throws while the socket is connecting; once it closes, what is
\* sent is discarded.
CanSend(k) == k.ready # "connecting"

\* _cleanUp stops the heart-beat timers.
CleanedUp(k) == [k EXCEPT !.beating = FALSE]

\* Mutant of HungUp: onclose stays set.
HungUpListening(k) ==
    CleanedUp([k EXCEPT !.ready = IF @ = "open" THEN "closing" ELSE @])

\* Mutant of HungUp: a state that web sockets do not have.
HungUpForGood(k) == CleanedUp([k EXCEPT !.onclose = FALSE, !.ready = "disconnected"])

\* Client.disconnect of the library, after its DISCONNECT frame was sent: no
\* more is heard of a socket that closes, as its onclose is unset and its
\* frames are not delivered.
HungUp(k) == CleanedUp([k EXCEPT !.onclose = FALSE,
                                 !.ready   = IF @ = "open" THEN "closing" ELSE @])

\* factory.disconnect, with the sockets as s has them: either it hangs up and
\* forgets the client, or sending DISCONNECT throws and nothing changes.
DisconnectClient(s) ==
    IF client # NoClient => CanSend(s[client])
    THEN /\ client' = NoClient
         /\ socket' = [c \in Clients |-> IF c = client THEN HungUp(s[c]) ELSE s[c]]
    ELSE socket' = s /\ UNCHANGED client

(***************************************************************************)
(* The user.                                                               *)
(***************************************************************************)

\* Mutant of Connect: offered until the broker has answered.
ConnectImpatient ==
    /\ session.connected
    /\ client # NoClient => ~socket[client].greeted
    /\ made < MaxConnects
    /\ made' = made + 1
    /\ client' = made + 1
    /\ socket' = [socket EXCEPT ![made + 1] =
                    [@ EXCEPT !.ready = "connecting", !.onclose = TRUE]]
    /\ messages' = <<>>
    /\ messagesCount' = 0
    /\ UNCHANGED sessionVars

\* Offered while there is no client.
Connect ==
    /\ session.connected
    /\ client = NoClient
    /\ made < MaxConnects
    /\ made' = made + 1
    /\ client' = made + 1
    /\ socket' = [socket EXCEPT ![made + 1] =
                    [@ EXCEPT !.ready = "connecting", !.onclose = TRUE]]
    /\ messages' = <<>>
    /\ messagesCount' = 0
    /\ UNCHANGED sessionVars

\* The Disconnect button of the Client tab.
DisconnectButton ==
    /\ session.connected
    /\ client # NoClient
    /\ DisconnectClient(socket)
    /\ UNCHANGED <<sessionVars, made, messages, messagesCount>>

\* Mutant of DisconnectAMQ: the session first.
DisconnectSessionFirst ==
    /\ Disconnect
    /\ DisconnectClient(socket)
    /\ UNCHANGED <<made, messages, messagesCount>>

\* disconnectAMQ: when hanging up throws, the session stays as it is.
DisconnectAMQ ==
    /\ client # NoClient => CanSend(socket[client])
    /\ DisconnectClient(socket)
    /\ Disconnect
    /\ UNCHANGED <<made, messages, messagesCount>>

ClearTable ==
    /\ session.connected
    /\ messages # <<>>
    /\ messages' = <<>>
    /\ UNCHANGED <<sessionVars, client, made, socket, messagesCount>>

(***************************************************************************)
(* The web sockets and the frames of the broker.                           *)
(***************************************************************************)

\* onopen sends CONNECT.
Opened(c) ==
    /\ socket[c].ready = "connecting"
    /\ socket' = [socket EXCEPT ![c].ready = "open"]
    /\ UNCHANGED <<sessionVars, client, made, messages, messagesCount>>

\* callBackFunc subscribes on factory.client, whichever that is, with the
\* sockets as s has them; it throws if there is none or it cannot send yet.
Subscribed(s) ==
    IF client # NoClient /\ CanSend(s[client])
    THEN [s EXCEPT ![client].subs = @ + 1]
    ELSE s

\* CONNECTED: the library sets the heart-beat up if the broker offers one, and
\* then calls callBackFunc.
Connected(c) ==
    /\ socket[c].ready = "open"
    /\ ~socket[c].greeted
    /\ \E beat \in BOOLEAN :
          socket' = Subscribed([socket EXCEPT ![c] =
                       [@ EXCEPT !.greeted = TRUE,
                                 !.beating = beat,
                                 !.silent  = FALSE]])
    /\ UNCHANGED <<sessionVars, client, made, messages, messagesCount>>

\* Mutant of Listed: shift takes the newest.
ListedShifted(s, m) ==
    LET all == <<m>> \o s
    IN  IF Len(all) > MaxMessages THEN Tail(all) ELSE all

\* Unshift the new message, then pop the oldest if there are too many.
Listed(s, m) ==
    LET all == <<m>> \o s
    IN  IF Len(all) > MaxMessages THEN SubSeq(all, 1, Len(all) - 1) ELSE all

\* MESSAGE, for one of the subscriptions.
Received(c) ==
    /\ socket[c].ready = "open"
    /\ socket[c].subs > 0
    /\ messagesCount < MaxReceived
    /\ messagesCount' = messagesCount + 1
    /\ messages' = Listed(messages, messagesCount + 1)
    /\ socket' = [socket EXCEPT ![c].silent = FALSE]
    /\ UNCHANGED <<sessionVars, client, made>>

\* ERROR: failureFunc.
ErrorFrame(c) ==
    /\ socket[c].ready = "open"
    /\ DisconnectClient([socket EXCEPT ![c].silent = FALSE])
    /\ UNCHANGED <<sessionVars, made, messages, messagesCount>>

\* The broker or the network falls silent without closing the socket.
Silence(c) ==
    /\ socket[c].ready = "open"
    /\ ~socket[c].silent
    /\ socket' = [socket EXCEPT ![c].silent = TRUE]
    /\ UNCHANGED <<sessionVars, client, made, messages, messagesCount>>

\* The ponger notices the silence and closes the socket.
PongMissing(c) ==
    /\ socket[c].beating
    /\ socket[c].silent
    /\ socket[c].ready = "open"
    /\ socket' = [socket EXCEPT ![c].ready = "closing"]
    /\ UNCHANGED <<sessionVars, client, made, messages, messagesCount>>

\* The broker starts to close the socket.
Closing(c) ==
    /\ socket[c].ready = "open"
    /\ socket' = [socket EXCEPT ![c].ready = "closing"]
    /\ UNCHANGED <<sessionVars, client, made, messages, messagesCount>>

\* Mutant of Closed: failureFunc is called for failed attempts only.
ClosedQuietly(c) ==
    /\ socket[c].ready \in {"connecting", "open", "closing"}
    /\ LET s == [socket EXCEPT ![c].ready = "closed"]
       IN  IF socket[c].onclose /\ socket[c].ready = "connecting"
           THEN DisconnectClient([s EXCEPT ![c] = CleanedUp(@)])
           ELSE socket' = s /\ UNCHANGED client
    /\ UNCHANGED <<sessionVars, made, messages, messagesCount>>

\* The socket is closed, or the connection attempt failed: onclose cleans up
\* and calls failureFunc.
Closed(c) ==
    /\ socket[c].ready \in {"connecting", "open", "closing"}
    /\ LET s == [socket EXCEPT ![c].ready = "closed"]
       IN  IF socket[c].onclose
           THEN DisconnectClient([s EXCEPT ![c] = CleanedUp(@)])
           ELSE socket' = s /\ UNCHANGED client
    /\ UNCHANGED <<sessionVars, made, messages, messagesCount>>

(***************************************************************************)
(* The specification.                                                      *)
(***************************************************************************)

\* The session goes on meanwhile; a failed operation that logs the user out
\* leaves the client connected.
ConsoleStep ==
    /\ \/ \E b \in Brokers : Login(b)
       \/ LogStompOnly
       \/ Refresh
       \/ SetRefresh
       \/ InfoRead
       \/ InfoFailed
       \/ ListRead
       \/ \E f \in Failures \cup {NoReply} : ListFailed(f)
       \/ \E f \in Rejections : ExecFailed(f)
    /\ UNCHANGED clientVars

Event(c) ==
    \/ Opened(c)
    \/ Connected(c)
    \/ Received(c)
    \/ ErrorFrame(c)
    \/ Silence(c)
    \/ PongMissing(c)
    \/ Closing(c)
    \/ Closed(c)

Next ==
    \/ ConsoleStep
    \/ Connect
    \/ DisconnectButton
    \/ DisconnectAMQ
    \/ ClearTable
    \/ \E c \in Clients : Event(c)

Spec == Init /\ [][Next]_vars

\* The interval timer of the ponger keeps ticking, and the browser brings the
\* closing of a socket to its end, if need be by a timeout of its own.
Fairness ==
    \A c \in Clients :
        /\ WF_vars(PongMissing(c))
        /\ WF_vars(socket[c].ready = "closing" /\ Closed(c))

FairSpec == Spec /\ Fairness

(***************************************************************************)
(* Properties.                                                             *)
(***************************************************************************)

\* Something may still run for this socket: a handler or a timer.
Alive(k) == k.ready \in {"connecting", "open"} \/ k.onclose \/ k.beating

\* Whatever handler or timer of the library can still run belongs to the
\* client that the factory has: failureFunc and callBackFunc, which work on
\* factory.client, never disconnect or subscribe for a later connection, and
\* while Connect is offered nothing is left of earlier ones.
OnlyCurrentListens == \A c \in Clients : Alive(socket[c]) => c = client

\* No connection is subscribed twice, so no message is listed twice.
SubscribedOnce == \A c \in Clients : socket[c].subs <= 1

\* Between two events the table is within its limit and shows the latest
\* messages of the connection, newest first and without a gap, also after it
\* was cleared or cut, and the counter above it is the number of the newest.
NewestFirst ==
    /\ Len(messages) <= MaxMessages
    /\ \A i \in 1..Len(messages) : messages[i] = messagesCount - i + 1

\* The user who closes the tabs has hung up: disconnectAMQ does both or, when
\* hanging up throws, neither.  (A 401 logs out without hanging up, and resets
\* loginok.  The stomp-only mode, in which it is not set, is left out with it.)
LogoutHangsUp ==
    [][session.connected /\ ~session'.connected /\ session'.loginok
         => client' = NoClient]_vars

\* A connection with heart-beats that has gone silent is given up, unless the
\* broker is heard of again or the user was faster.
SilenceNoticed ==
    \A c \in Clients :
        c = client /\ socket[c].beating /\ socket[c].silent
            ~> c # client \/ ~socket[c].silent

=============================================================================
