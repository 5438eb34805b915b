------------------------- MODULE StompClientProofs -------------------------
(***************************************************************************)
(* Safety of the STOMP client for every number of connections and every    *)
(* limit of the message table.                                             *)
(*                                                                         *)
(* That callbacks belong to the current client rests on what becomes of a  *)
(* socket when the factory forgets it (HungUpIsDead) and on Connect being  *)
(* offered only when there is none.  The table is argued about apart from  *)
(* the sockets (ListedNewest).                                             *)
(***************************************************************************)
EXTENDS StompClient, ConsoleSessionProofs, SequenceTheorems

USE MaxMessagesAssumption, MaxConnectsAssumption, MaxReceivedAssumption

\* The sockets s are in order when cur is the current one of n made so far.
SocketsInOrder(s, cur, n) ==
    /\ s \in [Clients -> Socket]
    /\ \A c \in Clients :
          /\ Alive(s[c]) => c = cur
          /\ s[c].subs <= 1
          /\ s[c].subs > 0 => s[c].greeted
          /\ c > n => s[c] = NoSocket

\* The client is one that was made.
ClientMade ==
    /\ made \in 0..MaxConnects
    /\ client \in Clients \cup {NoClient}
    /\ client <= made

TableInOrder ==
    /\ messages \in Seq(Nat)
    /\ messagesCount \in Nat
    /\ NewestFirst

IInv ==
    /\ SessionTypeOK
    /\ Prepared
    /\ ClientMade
    /\ SocketsInOrder(socket, client, made)
    /\ TableInOrder

(***************************************************************************)
(* Lemmas about single sockets and about the table.                        *)
(***************************************************************************)

\* After Client.disconnect nothing of the socket can run.
LEMMA HungUpIsDead ==
    ASSUME NEW k \in Socket, CanSend(k)
    PROVE  /\ HungUp(k) \in Socket
           /\ ~Alive(HungUp(k))
           /\ HungUp(k).subs = k.subs
           /\ HungUp(k).greeted = k.greeted
  BY DEF HungUp, CleanedUp, Socket, Alive, CanSend

\* A socket in use may change as long as no other comes to life.
LEMMA OneSocket ==
    ASSUME NEW s, NEW cur, NEW n, SocketsInOrder(s, cur, n),
           NEW c \in Clients, NEW k \in Socket,
           s[c].ready # "unused",
           Alive(k) => Alive(s[c]),
           k.subs <= 1,
           k.subs > 0 => k.greeted
    PROVE  SocketsInOrder([s EXCEPT ![c] = k], cur, n)
<1>1. s[c] # NoSocket
  BY DEF NoSocket
<1> QED
  BY <1>1 DEF SocketsInOrder

\* factory.disconnect keeps the sockets in order, whether or not it throws.
LEMMA DisconnectEffect ==
    ASSUME NEW s, ClientMade, SocketsInOrder(s, client, made),
           DisconnectClient(s), UNCHANGED made
    PROVE  ClientMade' /\ SocketsInOrder(socket, client, made)'
<1>0. made \in Nat /\ client \in Int /\ NoClient \notin Clients
  BY DEF ClientMade, Clients, NoClient
<1>1. CASE client # NoClient => CanSend(s[client])
  <2>1. /\ client' = NoClient
        /\ socket' = [c \in Clients |-> IF c = client THEN HungUp(s[c]) ELSE s[c]]
    BY <1>1 DEF DisconnectClient
  <2>2. ClientMade'
    BY <2>1, <1>0 DEF ClientMade, NoClient
  <2>3. ASSUME NEW c \in Clients
        PROVE  /\ socket'[c] \in Socket
               /\ ~Alive(socket'[c])
               /\ socket'[c].subs <= 1
               /\ socket'[c].subs > 0 => socket'[c].greeted
               /\ c > made => socket'[c] = NoSocket
    <3>1. /\ s[c] \in Socket
          /\ Alive(s[c]) => c = client
          /\ s[c].subs <= 1
          /\ s[c].subs > 0 => s[c].greeted
          /\ c > made => s[c] = NoSocket
      BY DEF SocketsInOrder
    <3>2. CASE c = client
      <4>1. CanSend(s[c]) /\ socket'[c] = HungUp(s[c])
        BY <1>0, <1>1, <2>1, <3>2
      <4>2. ~(c > made)
        BY <3>2, <1>0 DEF ClientMade
      <4> QED
        BY <3>1, <4>1, <4>2, HungUpIsDead
    <3>3. CASE c # client
      BY <2>1, <3>1, <3>3
    <3> QED
      BY <3>2, <3>3
  <2>4. socket' \in [Clients -> Socket]
    BY <2>1, <2>3
  <2> QED
    BY <2>2, <2>3, <2>4 DEF SocketsInOrder
<1>2. CASE ~(client # NoClient => CanSend(s[client]))
  <2>1. socket' = s /\ UNCHANGED client
    BY <1>2 DEF DisconnectClient
  <2> QED
    BY <2>1 DEF ClientMade, SocketsInOrder
<1> QED
  BY <1>1, <1>2

\* What unshift and pop make of a table of the latest messages.
LEMMA ListedNewest ==
    ASSUME NEW s \in Seq(Nat), NEW n \in Nat,
           Len(s) <= MaxMessages,
           \A i \in 1..Len(s) : s[i] = n - i + 1
    PROVE  /\ Listed(s, n + 1) \in Seq(Nat)
           /\ Len(Listed(s, n + 1)) <= MaxMessages
           /\ \A i \in 1..Len(Listed(s, n + 1)) :
                 Listed(s, n + 1)[i] = (n + 1) - i + 1
<1> DEFINE all == <<n + 1>> \o s
<1>1. /\ all \in Seq(Nat)
      /\ Len(all) = Len(s) + 1
      /\ \A i \in 1..Len(all) : all[i] = IF i = 1 THEN n + 1 ELSE s[i - 1]
  OBVIOUS
<1>2. \A i \in 1..Len(all) : all[i] = (n + 1) - i + 1
  <2>1. ASSUME NEW i \in 1..Len(all) PROVE all[i] = (n + 1) - i + 1
    <3>1. CASE i = 1
      BY <1>1, <3>1
    <3>2. CASE i # 1
      <4>1. i - 1 \in 1..Len(s)
        BY <1>1, <3>2
      <4> QED
        BY <1>1, <3>2, <4>1
    <3> QED
      BY <3>1, <3>2
  <2> QED
    BY <2>1
<1> HIDE DEF all
<1>3. CASE Len(all) > MaxMessages
  <2> DEFINE cut == SubSeq(all, 1, Len(all) - 1)
  <2>1. Listed(s, n + 1) = cut
    BY <1>3 DEF Listed, all
  <2>2. /\ cut \in Seq(Nat)
        /\ Len(cut) = Len(all) - 1
        /\ \A i \in 1..Len(cut) : cut[i] = all[i]
    <3> DEFINE last == Len(all) - 1
    <3>1. last \in Nat /\ \A i \in 1..last : all[i] \in Nat
      BY <1>1
    <3>2. /\ cut \in Seq(Nat)
          /\ Len(cut) = IF 1 <= last THEN last - 1 + 1 ELSE 0
          /\ \A i \in 1..(last - 1 + 1) : cut[i] = all[1 + i - 1]
      BY <3>1, SubSeqProperties
    <3> HIDE DEF last, cut
    <3>3. Len(cut) = last
      BY <3>1, <3>2
    <3>4. ASSUME NEW i \in 1..last PROVE cut[i] = all[i]
      <4>1. i \in 1..(last - 1 + 1) /\ 1 + i - 1 = i
        BY <3>1
      <4> QED
        BY <3>2, <4>1
    <3> QED
      BY <3>2, <3>3, <3>4 DEF last
  <2> HIDE DEF cut
  <2>3. \A i \in 1..Len(cut) : i \in 1..Len(all)
    BY <1>1, <2>2
  <2> QED
    BY <1>1, <1>2, <2>1, <2>2, <2>3
<1>4. CASE ~(Len(all) > MaxMessages)
  <2>1. Listed(s, n + 1) = all
    BY <1>4 DEF Listed, all
  <2> QED
    BY <1>1, <1>2, <1>4, <2>1
<1> QED
  BY <1>3, <1>4

(***************************************************************************)
(* The invariant is inductive.                                             *)
(***************************************************************************)

LEMMA InitIInv == Init => IInv
<1> SUFFICES ASSUME Init PROVE IInv
  OBVIOUS
<1>1. SessionTypeOK /\ Prepared
  BY DEF Init, SessionInit, SessionTypeOK, Session, Prepared, OnTabs
<1>2. NoSocket \in Socket /\ ~Alive(NoSocket)
  BY DEF NoSocket, Socket, Alive
<1>3. ClientMade
  BY DEF Init, ClientMade, NoClient
<1>4. SocketsInOrder(socket, client, made)
  BY <1>2 DEF Init, SocketsInOrder, NoSocket
<1>5. TableInOrder
  BY DEF Init, TableInOrder, NewestFirst
<1> QED
  BY <1>1, <1>3, <1>4, <1>5 DEF IInv

\* The part of the invariant that events of sockets are about.
LEMMA ConnectStep ==
    ASSUME IInv, Connect
    PROVE  IInv'
<1> DEFINE next == made + 1
<1>1. /\ client = NoClient
      /\ made' = next
      /\ client' = next
      /\ socket' = [socket EXCEPT ![next] =
                      [@ EXCEPT !.ready = "connecting", !.onclose = TRUE]]
      /\ messages' = <<>>
      /\ messagesCount' = 0
      /\ UNCHANGED sessionVars
      /\ made < MaxConnects
  BY DEF Connect
<1>2. made \in 0..MaxConnects /\ next \in Clients
  BY <1>1 DEF IInv, ClientMade, Clients
<1>3. ClientMade'
  BY <1>1, <1>2 DEF ClientMade, Clients
<1>4. SocketsInOrder(socket, client, made)'
  <2>1. socket[next] = NoSocket
    BY <1>2 DEF IInv, SocketsInOrder
  <2>2. socket'[next] = [NoSocket EXCEPT !.ready = "connecting", !.onclose = TRUE]
    BY <1>1, <1>2, <2>1 DEF IInv, SocketsInOrder
  <2>3. /\ socket'[next] \in Socket
        /\ socket'[next].subs = 0
    <3> DEFINE fresh == [NoSocket EXCEPT !.ready = "connecting", !.onclose = TRUE]
    <3>1. fresh \in Socket /\ fresh.subs = 0
      BY DEF NoSocket, Socket
    <3> HIDE DEF fresh
    <3> QED
      BY <2>2, <3>1 DEF fresh
  <2>4. ASSUME NEW c \in Clients, c # next
        PROVE  /\ socket'[c] = socket[c]
               /\ socket[c] \in Socket
               /\ ~Alive(socket[c])
               /\ socket[c].subs <= 1
               /\ socket[c].subs > 0 => socket[c].greeted
               /\ c > made => socket[c] = NoSocket
    <3>1. c # NoClient
      BY DEF Clients, NoClient
    <3> QED
      BY <1>1, <2>4, <3>1 DEF IInv, SocketsInOrder
  <2>5. socket' \in [Clients -> Socket]
    BY <1>1, <2>3, <2>4 DEF IInv, SocketsInOrder
  <2>6. \A c \in Clients : c > made' => c > made /\ c # next
    BY <1>1, <1>2 DEF Clients
  <2> QED
    BY <1>1, <2>3, <2>4, <2>5, <2>6 DEF SocketsInOrder
<1>5. TableInOrder'
  BY <1>1 DEF TableInOrder, NewestFirst
<1>6. SessionTypeOK' /\ Prepared'
  BY <1>1 DEF IInv, sessionVars, SessionTypeOK, Prepared, OnTabs
<1> QED
  BY <1>3, <1>4, <1>5, <1>6 DEF IInv

\* A step that leaves session and table alone.
LEMMA SocketStep ==
    ASSUME IInv, UNCHANGED <<sessionVars, messages, messagesCount>>,
           ClientMade', SocketsInOrder(socket, client, made)'
    PROVE  IInv'
  BY DEF IInv, sessionVars, SessionTypeOK, Prepared, OnTabs, TableInOrder,
     NewestFirst

\* A step in which one socket in use changes and the client stays.
LEMMA OneSocketStep ==
    ASSUME IInv, UNCHANGED <<sessionVars, client, made, messages, messagesCount>>,
           NEW c \in Clients, NEW k \in Socket,
           socket' = [socket EXCEPT ![c] = k],
           socket[c].ready # "unused",
           Alive(k) => Alive(socket[c]),
           k.subs <= 1,
           k.subs > 0 => k.greeted
    PROVE  IInv'
<1>1. SocketsInOrder([socket EXCEPT ![c] = k], client, made)
  BY OneSocket DEF IInv
<1>2. ClientMade'
  BY DEF IInv, ClientMade
<1> QED
  BY <1>1, <1>2, SocketStep

\* An event of a socket ends in factory.disconnect.
LEMMA DisconnectStep ==
    ASSUME IInv, UNCHANGED <<sessionVars, made, messages, messagesCount>>,
           NEW s, SocketsInOrder(s, client, made), DisconnectClient(s)
    PROVE  IInv'
<1>1. ClientMade' /\ SocketsInOrder(socket, client, made)'
  BY DisconnectEffect DEF IInv
<1> QED
  BY <1>1, SocketStep

\* What is known of one socket.
LEMMA SocketFacts ==
    ASSUME IInv, NEW c \in Clients
    PROVE  /\ socket \in [Clients -> Socket]
           /\ socket[c] \in Socket
           /\ Alive(socket[c]) => c = client
           /\ socket[c].subs <= 1
           /\ socket[c].subs > 0 => socket[c].greeted
  BY DEF IInv, SocketsInOrder

\* CONNECTED makes a socket greeted and subscribes once on it.
LEMMA GreetedSocket ==
    ASSUME NEW k \in Socket, k.ready = "open", k.subs = 0, NEW beat \in BOOLEAN
    PROVE  LET g == [k EXCEPT !.greeted = TRUE, !.beating = beat, !.silent = FALSE]
               n == [g EXCEPT !.subs = @ + 1]
           IN  /\ CanSend(g)
               /\ n \in Socket
               /\ n.subs = 1
               /\ n.greeted
<1> DEFINE g == [k EXCEPT !.greeted = TRUE, !.beating = beat, !.silent = FALSE]
           n == [g EXCEPT !.subs = @ + 1]
<1>1. g \in Socket /\ g.ready = "open" /\ g.subs = 0 /\ g.greeted
  BY DEF Socket
<1> HIDE DEF g
<1>2. n \in Socket /\ n.subs = 1 /\ n.greeted
  BY <1>1 DEF Socket
<1> QED
  BY <1>1, <1>2 DEF CanSend, g

LEMMA ConnectedStep ==
    ASSUME IInv, NEW c \in Clients, Connected(c)
    PROVE  IInv'
<1>1. PICK beat \in BOOLEAN :
         socket' = Subscribed([socket EXCEPT ![c] =
                      [@ EXCEPT !.greeted = TRUE, !.beating = beat, !.silent = FALSE]])
  BY DEF Connected
<1>2. /\ socket[c].ready = "open"
      /\ ~socket[c].greeted
      /\ UNCHANGED <<sessionVars, client, made, messages, messagesCount>>
  BY DEF Connected
<1>3. c = client /\ socket[c].subs = 0
  BY <1>2, SocketFacts DEF Alive, Socket
<1> DEFINE k == [socket[c] EXCEPT !.greeted = TRUE, !.beating = beat, !.silent = FALSE]
           s == [socket EXCEPT ![c] = k]
<1>4. socket' = Subscribed(s)
  BY <1>1
<1> DEFINE new == [k EXCEPT !.subs = @ + 1]
<1>5. CanSend(k) /\ new \in Socket /\ new.subs = 1 /\ new.greeted
  BY <1>2, <1>3, SocketFacts, GreetedSocket
<1>6. s[c] = k /\ c # NoClient
  <2> HIDE DEF k
  <2> QED
    BY SocketFacts DEF Clients, NoClient
<1>7. socket' = [s EXCEPT ![c].subs = @ + 1]
  <2> HIDE DEF s, k, new
  <2> QED
    BY <1>3, <1>4, <1>5, <1>6 DEF Subscribed
<1>8. socket' = [socket EXCEPT ![c] = new]
  <2> HIDE DEF k
  <2> QED
    BY <1>6, <1>7, SocketFacts
<1>9. Alive(socket[c])
  BY <1>2 DEF Alive
<1> HIDE DEF new
<1>10. /\ socket[c].ready # "unused"
       /\ Alive(new) => Alive(socket[c])
       /\ new.subs <= 1
       /\ new.subs > 0 => new.greeted
  BY <1>2, <1>5, <1>9
<1> QED
  BY <1>2, <1>5, <1>8, <1>10, OneSocketStep

LEMMA ReceivedStep ==
    ASSUME IInv, NEW c \in Clients, Received(c)
    PROVE  IInv'
<1> DEFINE k == [socket[c] EXCEPT !.silent = FALSE]
<1>1. /\ socket[c].ready = "open"
      /\ messagesCount' = messagesCount + 1
      /\ messages' = Listed(messages, messagesCount + 1)
      /\ socket' = [socket EXCEPT ![c] = k]
      /\ UNCHANGED <<sessionVars, client, made>>
  BY DEF Received
<1>2. k \in Socket /\ k.subs = socket[c].subs /\ k.greeted = socket[c].greeted
  BY SocketFacts DEF Socket
<1>3. Alive(socket[c])
  BY <1>1 DEF Alive
<1>4. SocketsInOrder([socket EXCEPT ![c] = k], client, made)
  <2> HIDE DEF k
  <2> QED
    BY <1>1, <1>2, <1>3, SocketFacts, OneSocket DEF IInv
<1>5. SocketsInOrder(socket, client, made)' /\ ClientMade'
  BY <1>1, <1>4 DEF IInv, ClientMade
<1>6. TableInOrder'
  <2>1. /\ messages \in Seq(Nat)
        /\ messagesCount \in Nat
        /\ Len(messages) <= MaxMessages
        /\ \A i \in 1..Len(messages) : messages[i] = messagesCount - i + 1
    BY DEF IInv, TableInOrder, NewestFirst
  <2>2. /\ messages' \in Seq(Nat)
        /\ Len(messages') <= MaxMessages
        /\ \A i \in 1..Len(messages') : messages'[i] = (messagesCount + 1) - i + 1
    BY <1>1, <2>1, ListedNewest
  <2> QED
    BY <1>1, <2>1, <2>2 DEF TableInOrder, NewestFirst
<1>7. SessionTypeOK' /\ Prepared'
  BY <1>1 DEF IInv, sessionVars, SessionTypeOK, Prepared, OnTabs
<1> QED
  BY <1>5, <1>6, <1>7 DEF IInv

LEMMA ErrorFrameStep ==
    ASSUME IInv, NEW c \in Clients, ErrorFrame(c)
    PROVE  IInv'
<1> DEFINE k == [socket[c] EXCEPT !.silent = FALSE]
           s == [socket EXCEPT ![c] = k]
<1>1. /\ socket[c].ready = "open"
      /\ DisconnectClient(s)
      /\ UNCHANGED <<sessionVars, made, messages, messagesCount>>
  BY DEF ErrorFrame
<1>2. k \in Socket /\ k.subs = socket[c].subs /\ k.greeted = socket[c].greeted
  BY SocketFacts DEF Socket
<1>3. Alive(socket[c])
  BY <1>1 DEF Alive
<1>4. SocketsInOrder(s, client, made)
  <2> HIDE DEF k
  <2> QED
    BY <1>1, <1>2, <1>3, SocketFacts, OneSocket DEF IInv
<1> HIDE DEF s
<1> QED
  BY <1>1, <1>4, DisconnectStep

LEMMA ClosedStep ==
    ASSUME IInv, NEW c \in Clients, Closed(c)
    PROVE  IInv'
<1> DEFINE k == [socket[c] EXCEPT !.ready = "closed"]
           s == [socket EXCEPT ![c] = k]
<1>1. /\ socket[c].ready \in {"connecting", "open", "closing"}
      /\ UNCHANGED <<sessionVars, made, messages, messagesCount>>
      /\ IF socket[c].onclose
         THEN DisconnectClient([s EXCEPT ![c] = CleanedUp(@)])
         ELSE socket' = s /\ UNCHANGED client
  BY DEF Closed
<1>2. /\ k \in Socket
      /\ k.subs = socket[c].subs
      /\ k.greeted = socket[c].greeted
      /\ Alive(k) => Alive(socket[c])
  BY SocketFacts DEF Socket, Alive
<1>3. CASE socket[c].onclose
  <2> DEFINE m == CleanedUp(k)
  <2>1. /\ m \in Socket
        /\ m.subs = socket[c].subs
        /\ m.greeted = socket[c].greeted
        /\ Alive(m) => Alive(socket[c])
    BY <1>2, <1>3 DEF CleanedUp, Socket, Alive
  <2>2. [s EXCEPT ![c] = CleanedUp(@)] = [socket EXCEPT ![c] = m]
    BY SocketFacts
  <2> HIDE DEF m
  <2>3. SocketsInOrder([socket EXCEPT ![c] = m], client, made)
    BY <1>1, <2>1, SocketFacts, OneSocket DEF IInv
  <2> DEFINE t == [socket EXCEPT ![c] = m]
  <2>4. DisconnectClient(t) /\ SocketsInOrder(t, client, made)
    BY <1>1, <1>3, <2>2, <2>3
  <2> HIDE DEF t
  <2> QED
    BY <1>1, <2>4, DisconnectStep
<1>4. CASE ~socket[c].onclose
  <2>1. socket' = [socket EXCEPT ![c] = k] /\ UNCHANGED client
    BY <1>1, <1>4
  <2> HIDE DEF k
  <2> QED
    BY <1>1, <1>2, <2>1, SocketFacts, OneSocketStep
<1> QED
  BY <1>3, <1>4

\* The other events change one socket and nothing else.
LEMMA PlainEventStep ==
    ASSUME IInv, NEW c \in Clients,
           Opened(c) \/ Silence(c) \/ PongMissing(c) \/ Closing(c)
    PROVE  IInv'
<1>1. CASE Opened(c)
  <2> DEFINE k == [socket[c] EXCEPT !.ready = "open"]
  <2>1. /\ socket[c].ready = "connecting"
        /\ socket' = [socket EXCEPT ![c] = k]
        /\ UNCHANGED <<sessionVars, client, made, messages, messagesCount>>
    BY <1>1 DEF Opened
  <2>2. /\ k \in Socket
        /\ k.subs = socket[c].subs
        /\ k.greeted = socket[c].greeted
        /\ Alive(k) => Alive(socket[c])
    BY <2>1, SocketFacts DEF Socket, Alive
  <2> HIDE DEF k
  <2> QED
    BY <2>1, <2>2, SocketFacts, OneSocketStep
<1>2. CASE Silence(c)
  <2> DEFINE k == [socket[c] EXCEPT !.silent = TRUE]
  <2>1. /\ socket[c].ready = "open"
        /\ socket' = [socket EXCEPT ![c] = k]
        /\ UNCHANGED <<sessionVars, client, made, messages, messagesCount>>
    BY <1>2 DEF Silence
  <2>2. /\ k \in Socket
        /\ k.subs = socket[c].subs
        /\ k.greeted = socket[c].greeted
        /\ Alive(k) => Alive(socket[c])
    BY <2>1, SocketFacts DEF Socket, Alive
  <2> HIDE DEF k
  <2> QED
    BY <2>1, <2>2, SocketFacts, OneSocketStep
<1>3. CASE PongMissing(c) \/ Closing(c)
  <2> DEFINE k == [socket[c] EXCEPT !.ready = "closing"]
  <2>1. /\ socket[c].ready = "open"
        /\ socket' = [socket EXCEPT ![c] = k]
        /\ UNCHANGED <<sessionVars, client, made, messages, messagesCount>>
    BY <1>3 DEF PongMissing, Closing
  <2>2. /\ k \in Socket
        /\ k.subs = socket[c].subs
        /\ k.greeted = socket[c].greeted
        /\ Alive(k) => Alive(socket[c])
    BY <2>1, SocketFacts DEF Socket, Alive
  <2> HIDE DEF k
  <2> QED
    BY <2>1, <2>2, SocketFacts, OneSocketStep
<1> QED
  BY <1>1, <1>2, <1>3

\* What the session does by itself does not touch the client.
LEMMA ConsoleStepKeeps ==
    ASSUME IInv, ConsoleStep
    PROVE  IInv'
<1>1. SessionStep /\ UNCHANGED clientVars
  BY DEF ConsoleStep, SessionStep
<1>2. SessionTypeOK' /\ Prepared'
  BY <1>1, SessionStepEffect DEF IInv
<1>3. ClientMade' /\ SocketsInOrder(socket, client, made)' /\ TableInOrder'
  BY <1>1 DEF IInv, clientVars, ClientMade, TableInOrder, NewestFirst
<1> QED
  BY <1>2, <1>3 DEF IInv

LEMMA DisconnectAMQStep ==
    ASSUME IInv, DisconnectAMQ
    PROVE  IInv'
<1>1. SessionStep
  BY DEF DisconnectAMQ, SessionStep
<1>2. SessionTypeOK' /\ Prepared'
  BY <1>1, SessionStepEffect DEF IInv
<1>3. /\ DisconnectClient(socket)
      /\ UNCHANGED <<made, messages, messagesCount>>
  BY DEF DisconnectAMQ
<1>4. ClientMade' /\ SocketsInOrder(socket, client, made)'
  BY <1>3, DisconnectEffect DEF IInv
<1>5. TableInOrder'
  BY <1>3 DEF IInv, TableInOrder, NewestFirst
<1> QED
  BY <1>2, <1>4, <1>5 DEF IInv

LEMMA NextIInv ==
    IInv /\ [Next]_vars => IInv'
<1> SUFFICES ASSUME IInv, [Next]_vars PROVE IInv'
  OBVIOUS
<1>1. CASE ConsoleStep
  BY <1>1, ConsoleStepKeeps
<1>2. CASE Connect
  BY <1>2, ConnectStep
<1>3. CASE DisconnectButton
  <2>1. /\ DisconnectClient(socket)
        /\ UNCHANGED <<sessionVars, made, messages, messagesCount>>
    BY <1>3 DEF DisconnectButton
  <2>2. SocketsInOrder(socket, client, made)
    BY DEF IInv
  <2> QED
    BY <2>1, <2>2, DisconnectStep
<1>4. CASE DisconnectAMQ
  BY <1>4, DisconnectAMQStep
<1>5. CASE ClearTable
  <2>1. /\ messages' = <<>>
        /\ UNCHANGED <<sessionVars, client, made, socket, messagesCount>>
    BY <1>5 DEF ClearTable
  <2>2. TableInOrder'
    BY <2>1 DEF IInv, TableInOrder, NewestFirst
  <2> QED
    BY <2>1, <2>2 DEF IInv, sessionVars, SessionTypeOK, Prepared, OnTabs, ClientMade
<1>6. CASE \E c \in Clients : Event(c)
  <2>1. PICK c \in Clients : Event(c)
    BY <1>6
  <2>2. CASE Connected(c)
    BY <2>2, ConnectedStep
  <2>3. CASE Received(c)
    BY <2>3, ReceivedStep
  <2>4. CASE ErrorFrame(c)
    BY <2>4, ErrorFrameStep
  <2>5. CASE Closed(c)
    BY <2>5, ClosedStep
  <2>6. CASE Opened(c) \/ Silence(c) \/ PongMissing(c) \/ Closing(c)
    BY <2>6, PlainEventStep
  <2> QED
    BY <2>1, <2>2, <2>3, <2>4, <2>5, <2>6 DEF Event
<1>7. CASE UNCHANGED vars
  BY <1>7 DEF vars, clientVars, sessionVars, IInv, SessionTypeOK, Prepared, OnTabs,
     ClientMade, TableInOrder, NewestFirst
<1> QED
  BY <1>1, <1>2, <1>3, <1>4, <1>5, <1>6, <1>7 DEF Next

THEOREM Invariance == Spec => []IInv
  BY InitIInv, NextIInv, PTL DEF Spec

(***************************************************************************)
(* Theorems.                                                               *)
(***************************************************************************)

\* Type correctness of the STOMP client.
THEOREM TypeCorrect == Spec => []TypeOK
<1>1. IInv => TypeOK
  BY DEF IInv, TypeOK, ClientMade, SocketsInOrder, TableInOrder
<1> QED
  BY <1>1, Invariance, PTL

\* Callbacks and timers of the library belong to the current client, however
\* many connections came before it and however they ended.
THEOREM CallbacksOfCurrent == Spec => []OnlyCurrentListens
<1>1. IInv => OnlyCurrentListens
  BY DEF IInv, OnlyCurrentListens, SocketsInOrder
<1> QED
  BY <1>1, Invariance, PTL

\* No connection is ever subscribed a second time.
THEOREM SubscribedAtMostOnce == Spec => []SubscribedOnce
<1>1. IInv => SubscribedOnce
  BY DEF IInv, SubscribedOnce, SocketsInOrder
<1> QED
  BY <1>1, Invariance, PTL

\* The message table holds the latest messages in order, and never more of them
\* than the limit, whatever the limit is.
THEOREM TableIsLatest == Spec => []NewestFirst
<1>1. IInv => NewestFirst
  BY DEF IInv, TableInOrder
<1> QED
  BY <1>1, Invariance, PTL

\* Leaving the console by disconnectAMQ never leaves a STOMP client behind.
THEOREM LogoutIsComplete == Spec => LogoutHangsUp
<1>1. ASSUME IInv, [Next]_vars, session.connected, ~session'.connected,
             session'.loginok
      PROVE  client' = NoClient
  <2>1. CASE DisconnectAMQ
    BY <2>1 DEF DisconnectAMQ, DisconnectClient
  <2>2. CASE ConsoleStep
    <3>1. session \in Session
      BY <1>1 DEF IInv, SessionTypeOK
    <3>2. CASE \E f \in Rejections : ExecFailed(f)
      BY <1>1, <3>1, <3>2 DEF ExecFailed, AfterApiError, Session
    <3>3. CASE \E f \in Failures \cup {NoReply} : ListFailed(f)
      BY <1>1, <3>1, <3>3 DEF ListFailed, AfterReadError, AfterApiError, Session
    <3>4. CASE \/ \E b \in Brokers : Login(b)
               \/ LogStompOnly \/ Refresh \/ SetRefresh
               \/ InfoRead \/ InfoFailed \/ ListRead
      BY <1>1, <3>1, <3>4 DEF Login, LogStompOnly, Refresh, SetRefresh, InfoRead,
         InfoFailed, ListRead, Session
    <3> QED
      BY <2>2, <3>2, <3>3, <3>4 DEF ConsoleStep
  <2>3. CASE UNCHANGED session
    BY <1>1, <2>3
  <2>4. CASE Connect \/ DisconnectButton \/ ClearTable \/ \E c \in Clients : Event(c)
    <3>1. UNCHANGED session
      BY <2>4 DEF Connect, DisconnectButton, ClearTable, Event, Opened, Connected,
         Received, ErrorFrame, Silence, PongMissing, Closing, Closed, sessionVars
    <3> QED
      BY <2>3, <3>1
  <2> QED
    BY <1>1, <2>1, <2>2, <2>3, <2>4 DEF Next, vars, sessionVars
<1>2. IInv /\ [Next]_vars
        => [session.connected /\ ~session'.connected /\ session'.loginok
              => client' = NoClient]_vars
  BY <1>1
<1> QED
  BY <1>2, Invariance, PTL DEF Spec, LogoutHangsUp

\* The STOMP client is not noticed by the session, except that disconnectAMQ
\* hangs up first: no event of a socket logs anybody out, and no log-out is
\* half done because hanging up throws.
THEOREM ImplementsSession == Spec => SessionSpec
<1>1. Init => SessionInit
  BY DEF Init
<1>2. [Next]_vars => [SessionStep]_sessionVars
  <2>1. ASSUME ConsoleStep \/ DisconnectAMQ PROVE SessionStep
    BY <2>1 DEF ConsoleStep, DisconnectAMQ, SessionStep
  <2>2. ASSUME \/ Connect \/ DisconnectButton \/ ClearTable
               \/ \E c \in Clients : Event(c)
               \/ UNCHANGED vars
        PROVE  UNCHANGED sessionVars
    BY <2>2 DEF Connect, DisconnectButton, ClearTable, Event, Opened, Connected,
       Received, ErrorFrame, Silence, PongMissing, Closing, Closed, vars
  <2> QED
    BY <2>1, <2>2 DEF Next
<1> QED
  BY <1>1, <1>2, PTL DEF Spec, SessionSpec

\* Hence the refresh timer is as well owned with STOMP connections about.
THEOREM TimerOwned == Spec => []TimerHasOwner
  BY ImplementsSession, SessionTimer, PTL
=============================================================================
