--------------------------- MODULE ArtemisAdapter ---------------------------
(***************************************************************************)
(* The requests that mainartemis.py answers with several calls to the      *)
(* broker, each of which may fail, while other clients use the broker:     *)
(*                                                                         *)
(*   removeMessage     finds the broker's number of a message by browsing  *)
(*                     its queue, then removes that number;                *)
(*   message           creates the destination, then sends through a STOMP *)
(*                     connection without asking for a receipt;            *)
(*   resetStatistics   lists the queues of a topic, then resets each       *)
(*                     counter of each, and ignores failures.              *)
(*                                                                         *)
(* Numbers of messages are never used again.  One queue, the one messages  *)
(* are sent to and removed from, and one topic are represented.            *)
(***************************************************************************)
EXTENDS ProxySession

CONSTANTS
    Messages,
    NoMessage,
    Queues,    \* names of queues that may be bound to the topic
    Counters   \* what resetStatistics resets of a queue

ASSUME NoMessageAssumption == NoMessage \notin Messages

VARIABLES
    place,     \* per message: "coming", "queued" or "gone"
    exists,    \* the queue messages are sent to exists as a queue
    bound,     \* the queues bound to the topic
    asked,     \* per request: the message to be removed
    resolved,  \* ... the message whose number was found
    pending,   \* ... the counters still to be reset
    wire,      \* ... the SEND frame: "none", "sent", "queued" or "dropped"
    result,    \* ... the answer
    remover,   \* history: per message, the request that removed it
    lost,      \* history: requests that send to the queue, and since whose
               \* ensure_destination somebody removed it
    listed,    \* history: requests whose list of queues did not fail
    stay,      \* history: per request, the queues bound since it is running
    tried      \* history: per request, the counters it asked to be reset

brokerVars  == <<place, exists, bound>>
removeVars  == <<asked, resolved, remover>>
resetVars   == <<pending, listed, stay, tried>>
sendVars    == <<wire, lost>>
adapterVars == <<brokerVars, removeVars, resetVars, sendVars, result>>
vars == <<proxyVars, adapterVars>>

Results == {"none", "ok", "true", "false", "error"}

AdapterTypeOK ==
    /\ place \in [Messages -> {"coming", "queued", "gone"}]
    /\ exists \in BOOLEAN
    /\ bound \subseteq Queues
    /\ asked \in [Requests -> Messages \cup {NoMessage}]
    /\ resolved \in [Requests -> Messages \cup {NoMessage}]
    /\ pending \in [Requests -> SUBSET (Queues \X Counters)]
    /\ wire \in [Requests -> {"none", "sent", "queued", "dropped"}]
    /\ result \in [Requests -> Results]
    /\ remover \in [Messages -> Requests \cup {Idle}]
    /\ lost \subseteq Requests
    /\ listed \subseteq Requests
    /\ stay \in [Requests -> SUBSET Queues]
    /\ tried \in [Requests -> SUBSET (Queues \X Counters)]

\* The handler that has the event loop is the only one that makes calls.
OneRuns ==
    \A r \in Requests : stage[r] \in {"calling", "acting"} <=> running = r

TypeOK == ProxyTypeOK /\ AdapterTypeOK /\ OneRuns

Init ==
    /\ ProxyInit
    /\ place \in [Messages -> {"coming", "queued"}]
    /\ exists \in BOOLEAN
    /\ bound \in SUBSET Queues
    /\ asked = [r \in Requests |-> NoMessage]
    /\ resolved = [r \in Requests |-> NoMessage]
    /\ pending = [r \in Requests |-> {}]
    /\ wire = [r \in Requests |-> "none"]
    /\ result = [r \in Requests |-> "none"]
    /\ remover = [m \in Messages |-> Idle]
    /\ lost = {}
    /\ listed = {}
    /\ stay = [r \in Requests |-> {}]
    /\ tried = [r \in Requests |-> {}]

(***************************************************************************)
(* Requests as in ProxySession.                                            *)
(***************************************************************************)

\* A new request, with the message it names.
NewRequest(r, u, o, m) ==
    /\ Arrive(r, u, o)
    /\ asked' = [asked EXCEPT ![r] = IF o = "remove" THEN m ELSE NoMessage]
    /\ UNCHANGED <<brokerVars, resolved, remover, resetVars, sendVars, result>>

Start(r) ==
    /\ Begin(r) \/ Resume(r)
    /\ stay' = [stay EXCEPT ![r] = bound]
    /\ UNCHANGED <<brokerVars, removeVars, pending, listed, tried, sendVars, result>>

Wait(r) == AwaitBody(r) /\ UNCHANGED adapterVars

\* What a single call makes of the broker is part of BrokerActivity.
SimpleCall(r) == Call(r) /\ UNCHANGED adapterVars

\* The place is given away once the broker has seen the frame.
Free(r) ==
    /\ wire[r] # "sent"
    /\ Forget(r)
    /\ asked' = [asked EXCEPT ![r] = NoMessage]
    /\ resolved' = [resolved EXCEPT ![r] = NoMessage]
    /\ wire' = [wire EXCEPT ![r] = "none"]
    /\ result' = [result EXCEPT ![r] = "none"]
    /\ remover' = [m \in Messages |-> IF remover[m] = r THEN Idle ELSE remover[m]]
    /\ lost' = lost \ {r}
    /\ listed' = listed \ {r}
    /\ stay' = [stay EXCEPT ![r] = {}]
    /\ tried' = [tried EXCEPT ![r] = {}]
    /\ UNCHANGED <<brokerVars, pending>>

(***************************************************************************)
(* Parts of actions.                                                       *)
(***************************************************************************)

Handles(r, ops, s) ==
    /\ backend = "artemis"
    /\ running = r
    /\ op[r] \in ops
    /\ stage[r] = s

Proceed(r) ==
    /\ stage' = [stage EXCEPT ![r] = "acting"]
    /\ UNCHANGED <<running, result>>

Answer(r, v) ==
    /\ Return(r)
    /\ result' = [result EXCEPT ![r] = v]

\* What no step of a handler changes.
Fixed == UNCHANGED <<backend, sessionUser, op, user, overtaken>>

(***************************************************************************)
(* removeMessage.                                                          *)
(***************************************************************************)

\* Mutant of Resolve: the message is not looked for, the first one is taken.
ResolveAny(r) ==
    /\ Handles(r, {"remove"}, "calling")
    /\ Carry(r)
    /\ \E m \in Messages :
          /\ place[m] = "queued"
          /\ resolved' = [resolved EXCEPT ![r] = m]
          /\ Proceed(r)
    /\ Fixed
    /\ UNCHANGED <<brokerVars, asked, remover, resetVars, sendVars>>

\* _resolve_internal_message_id: browse, and look for the message.
Resolve(r) ==
    /\ Handles(r, {"remove"}, "calling")
    /\ Carry(r)
    /\ \/ /\ place[asked[r]] = "queued"
          /\ resolved' = [resolved EXCEPT ![r] = asked[r]]
          /\ Proceed(r)
       \/ Answer(r, "error") /\ UNCHANGED resolved  \* not found, or no answer
    /\ Fixed
    /\ UNCHANGED <<brokerVars, asked, remover, resetVars, sendVars>>

\* The identifier is a number already.
NumberGiven(r) ==
    /\ Handles(r, {"remove"}, "calling")
    /\ resolved' = [resolved EXCEPT ![r] = asked[r]]
    /\ Proceed(r)
    /\ Fixed
    /\ UNCHANGED <<used, brokerVars, asked, remover, resetVars, sendVars>>

\* removeMessage(long) of the broker, which says whether it found the number.
Remove(r) ==
    /\ Handles(r, {"remove"}, "acting")
    /\ Carry(r)
    /\ LET m == resolved[r]
       IN  \/ /\ place[m] = "queued"
              /\ place' = [place EXCEPT ![m] = "gone"]
              /\ remover' = [remover EXCEPT ![m] = r]
              /\ Answer(r, "true") \/ Answer(r, "error")
           \/ /\ place[m] # "queued"
              /\ Answer(r, "false")
              /\ UNCHANGED <<place, remover>>
           \/ Answer(r, "error") /\ UNCHANGED <<place, remover>>
    /\ Fixed
    /\ UNCHANGED <<exists, bound, asked, resolved, resetVars, sendVars>>

(***************************************************************************)
(* message: ensure_destination, then stomp_send.                           *)
(***************************************************************************)

\* Mutant of EnsureQueue: a queue that cannot be created is passed over, as an
\* address is.
EnsureQueueOrNot(r) ==
    /\ Handles(r, {"sendQueue"}, "calling")
    /\ Carry(r)
    /\ Proceed(r)
    /\ exists' \in {exists, TRUE}
    /\ Fixed
    /\ UNCHANGED <<place, bound, removeVars, resetVars, sendVars>>

\* createQueue, which leaves a queue that exists as it is.
EnsureQueue(r) ==
    /\ Handles(r, {"sendQueue"}, "calling")
    /\ Carry(r)
    /\ \/ exists' = TRUE /\ Proceed(r)
       \/ exists' \in {exists, TRUE} /\ Answer(r, "error")
    /\ Fixed
    /\ UNCHANGED <<place, bound, removeVars, resetVars, sendVars>>

\* createAddress, whose failure is ignored.
EnsureAddress(r) ==
    /\ Handles(r, {"sendTopic"}, "calling")
    /\ Carry(r)
    /\ Proceed(r)
    /\ Fixed
    /\ UNCHANGED <<brokerVars, removeVars, resetVars, sendVars>>

\* CONNECT is answered, or not; SEND and DISCONNECT are not.  These go out
\* with the credentials of the request, whatever the session holds.
SendFrame(r) ==
    /\ Handles(r, Sends, "acting")
    /\ \/ Answer(r, "ok") /\ wire' = [wire EXCEPT ![r] = "sent"]
       \/ Answer(r, "error") /\ UNCHANGED wire
    /\ Fixed
    /\ UNCHANGED <<used, brokerVars, removeVars, resetVars, lost>>

\* The broker processes the frame; "an unknown destination ... can silently
\* turn a queue send into an empty topic-like address".
Deliver(r) ==
    /\ wire[r] = "sent"
    /\ wire' = [wire EXCEPT ![r] = IF exists THEN "queued" ELSE "dropped"]
    /\ UNCHANGED <<proxyVars, brokerVars, removeVars, resetVars, lost, result>>

(***************************************************************************)
(* resetStatistics.                                                        *)
(***************************************************************************)

\* The loop goes on with what is left, and ends with "value": True.
GoOn(r, left) ==
    /\ pending' = [pending EXCEPT ![r] = left]
    /\ IF left = {}
       THEN Answer(r, "true")
       ELSE Proceed(r)

\* The queues of the topic; a failure is taken for none.
ListTargets(r) ==
    /\ Handles(r, {"resetTopic"}, "calling")
    /\ Carry(r)
    /\ \/ GoOn(r, bound \X Counters) /\ listed' = listed \cup {r}
       \/ GoOn(r, {}) /\ UNCHANGED listed
    /\ Fixed
    /\ UNCHANGED <<brokerVars, removeVars, stay, tried, sendVars>>

TargetQueue(r) ==
    /\ Handles(r, {"resetQueue"}, "calling")
    /\ \E q \in Queues : GoOn(r, {q} \X Counters)
    /\ Fixed
    /\ UNCHANGED <<used, brokerVars, removeVars, listed, stay, tried, sendVars>>

\* Mutant of ResetOne: a failure ends the loop.
ResetUntilFailure(r) ==
    /\ Handles(r, {"resetTopic", "resetQueue"}, "acting")
    /\ Carry(r)
    /\ \E t \in pending[r] :
          /\ tried' = [tried EXCEPT ![r] = @ \cup {t}]
          /\ GoOn(r, pending[r] \ {t}) \/ GoOn(r, {})
    /\ Fixed
    /\ UNCHANGED <<brokerVars, removeVars, listed, stay, sendVars>>

\* The next counter; a failure is ignored.
ResetOne(r) ==
    /\ Handles(r, {"resetTopic", "resetQueue"}, "acting")
    /\ Carry(r)
    /\ \E t \in pending[r] :
          /\ tried' = [tried EXCEPT ![r] = @ \cup {t}]
          /\ GoOn(r, pending[r] \ {t})
    /\ Fixed
    /\ UNCHANGED <<brokerVars, removeVars, listed, stay, sendVars>>

(***************************************************************************)
(* The broker, and the specification.                                      *)
(***************************************************************************)

\* ensure_destination is behind the handler of r, which sends to the queue.
Sending(r) == op[r] = "sendQueue" /\ stage[r] \in {"acting", "done"}

\* Other clients, and single calls: a message comes or goes, the queue is
\* created or removed, queues are bound to the topic or unbound.
BrokerActivity ==
    /\ \/ /\ \E m \in Messages :
                \/ place[m] = "coming" /\ place' = [place EXCEPT ![m] = "queued"]
                \/ place[m] = "queued" /\ place' = [place EXCEPT ![m] = "gone"]
          /\ UNCHANGED <<exists, bound, lost, stay>>
       \/ /\ exists' \in BOOLEAN
          /\ lost' = IF exists /\ ~exists'
                     THEN lost \cup {r \in Requests : Sending(r)}
                     ELSE lost
          /\ UNCHANGED <<place, bound, stay>>
       \/ /\ bound' \in SUBSET Queues
          /\ stay' = [r \in Requests |-> stay[r] \cap bound']
          /\ UNCHANGED <<place, exists, lost>>
    /\ UNCHANGED <<proxyVars, removeVars, pending, listed, tried, wire, result>>

Handler(r) ==
    \/ SimpleCall(r)
    \/ Resolve(r) \/ NumberGiven(r) \/ Remove(r)
    \/ EnsureQueue(r) \/ EnsureAddress(r) \/ SendFrame(r)
    \/ ListTargets(r) \/ TargetQueue(r) \/ ResetOne(r)

Next ==
    \/ \E r \in Requests, u \in Users \cup {NoUser}, o \in Ops, m \in Messages :
          NewRequest(r, u, o, m)
    \/ \E r \in Requests :
          Start(r) \/ Wait(r) \/ Handler(r) \/ Deliver(r) \/ Free(r)
    \/ BrokerActivity

Spec == Init /\ [][Next]_vars

(***************************************************************************)
(* Properties.                                                             *)
(***************************************************************************)

\* Whoever else removes messages between browsing and removing: a removal
\* that answers true has removed the message it was asked for, one that
\* answers false has not, and no removal ever takes another message.
RemovalIsReported ==
    \A r \in Requests :
        /\ (op[r] = "remove" /\ result[r] = "true") => remover[asked[r]] = r
        /\ (op[r] = "remove" /\ result[r] = "false") => remover[asked[r]] # r
        /\ \A m \in Messages : remover[m] = r => m = asked[r]

\* "Without this ... message just dropped": the broker finds the queue when it
\* comes to the frame of a request it answered with ok.  A frame is dropped
\* only if somebody removed the queue after ensure_destination; that createQueue
\* failed, or was not asked, is no excuse.
SentIsQueued ==
    \A r \in Requests :
        (op[r] = "sendQueue" /\ wire[r] = "dropped") => r \in lost

\* Although a failed call is passed over, a reset that could list the queues
\* of the topic asks for every counter of every queue that stays bound.
ResetTriesAll ==
    \A r \in Requests :
        (stage[r] = "done" /\ op[r] = "resetTopic" /\ r \in listed) =>
            stay[r] \X Counters \subseteq tried[r]
=============================================================================
