---------------------------- MODULE ProxySession ----------------------------
(***************************************************************************)
(* The two servers the console may run behind, main.py for ActiveMQ        *)
(* Classic and mainartemis.py for Artemis, as far as they share their one  *)
(* requests.Session among all requests.                                    *)
(*                                                                         *)
(* Handlers are coroutines on one event loop, but their calls to the       *)
(* broker are synchronous: a handler gives way to others only where it     *)
(* awaits the body of its request, and everybody waits while it calls.     *)
(* get_session writes the credentials of a request that has some into the  *)
(* session, and leaves the session as it is for a request that has none.   *)
(* Cookies the session may hold are not represented.                       *)
(*                                                                         *)
(* Here a request reads or executes something with any number of calls and *)
(* is answered; ArtemisAdapter adds what the compound ones do.  What the   *)
(* answers say is not represented.                                         *)
(***************************************************************************)

CONSTANTS
    Requests,  \* bound: so many requests are under way at a time
    Users,     \* the credentials requests come with
    NoUser,    \* a request without credentials
    Idle       \* no handler is running

ASSUME NoUserAssumption == NoUser \notin Users
ASSUME IdleAssumption == Idle \notin Requests

VARIABLES
    backend,      \* the server that is deployed
    sessionUser,  \* the credentials in session.headers
    running,      \* the request whose handler has the event loop
    stage,        \* per request: where its handler is
    op,           \* ... what it asks for
    user,         \* ... the credentials it came with
    used,         \* history: the credentials its calls went out with
    overtaken     \* history: get_session ran for another request while its
                  \* handler awaited the body

proxyVars == <<backend, sessionUser, running, stage, op, user, used, overtaken>>

\* GET routes, and the POST routes by the operation in their body.
JolPost == {"exec", "remove", "resetTopic", "resetQueue"}
Sends   == {"sendQueue", "sendTopic"}
Ops     == {"read"} \cup JolPost \cup Sends

Stages == {"none", "arrived", "awaiting", "calling", "acting", "done"}

ProxyTypeOK ==
    /\ backend \in {"classic", "artemis"}
    /\ sessionUser \in Users \cup {NoUser}
    /\ running \in Requests \cup {Idle}
    /\ stage \in [Requests -> Stages]
    /\ op \in [Requests -> Ops]
    /\ user \in [Requests -> Users \cup {NoUser}]
    /\ used \in [Requests -> SUBSET (Users \cup {NoUser})]
    /\ overtaken \in [Requests -> BOOLEAN]

ProxyInit ==
    /\ backend \in {"classic", "artemis"}
    /\ sessionUser = NoUser
    /\ running = Idle
    /\ stage = [r \in Requests |-> "none"]
    /\ op = [r \in Requests |-> "read"]
    /\ user = [r \in Requests |-> NoUser]
    /\ used = [r \in Requests |-> {}]
    /\ overtaken = [r \in Requests |-> FALSE]

(***************************************************************************)
(* Parts of actions.                                                       *)
(***************************************************************************)

\* mainartemis.py's jolpost takes the session before it awaits the body; the
\* other POST handlers do it afterwards.
SessionBeforeBody(r) == backend = "artemis" /\ op[r] \in JolPost

\* main.py's POST handlers give their calls headers of their own.
OwnHeaders(r) == backend = "classic" /\ op[r] # "read"

\* Mutant of TakeSession: the headers are only set when the session is new.
TakeSessionOnce(r) ==
    /\ sessionUser' = IF sessionUser = NoUser THEN user[r] ELSE sessionUser
    /\ overtaken' = [s \in Requests |->
                       overtaken[s] \/ (s # r /\ stage[s] = "awaiting")]

\* get_session.
TakeSession(r) ==
    /\ sessionUser' = IF user[r] = NoUser THEN sessionUser ELSE user[r]
    /\ overtaken' = [s \in Requests |->
                       overtaken[s] \/ (s # r /\ stage[s] = "awaiting")]

\* A call to the broker leaves for the handler of r.
Carry(r) ==
    LET sent == IF OwnHeaders(r) THEN user[r] ELSE sessionUser
    IN  used' = [used EXCEPT ![r] = @ \cup {sent}]

Run(r) ==
    /\ running' = r
    /\ stage' = [stage EXCEPT ![r] = "calling"]

\* The handler returns: its request is answered.
Return(r) ==
    /\ running' = Idle
    /\ stage' = [stage EXCEPT ![r] = "done"]

(***************************************************************************)
(* The life of a request.                                                  *)
(***************************************************************************)

Arrive(r, u, o) ==
    /\ stage[r] = "none"
    /\ stage' = [stage EXCEPT ![r] = "arrived"]
    /\ user' = [user EXCEPT ![r] = u]
    /\ op' = [op EXCEPT ![r] = o]
    /\ UNCHANGED <<backend, sessionUser, running, used, overtaken>>

\* Mutant of Begin: the handler is no coroutine and gets a thread of its own.
BeginInThread(r) ==
    /\ stage[r] = "arrived"
    /\ Run(r)
    /\ TakeSession(r)
    /\ UNCHANGED <<backend, op, user, used>>

\* The handler starts, and finds the body complete or needs none.
Begin(r) ==
    /\ running = Idle
    /\ stage[r] = "arrived"
    /\ Run(r)
    /\ TakeSession(r)
    /\ UNCHANGED <<backend, op, user, used>>

\* The handler starts, and gives way until the body has come.
AwaitBody(r) ==
    /\ running = Idle
    /\ stage[r] = "arrived"
    /\ op[r] # "read"
    /\ stage' = [stage EXCEPT ![r] = "awaiting"]
    /\ IF SessionBeforeBody(r)
       THEN TakeSession(r)
       ELSE UNCHANGED <<sessionUser, overtaken>>
    /\ UNCHANGED <<backend, running, op, user, used>>

Resume(r) ==
    /\ running = Idle
    /\ stage[r] = "awaiting"
    /\ Run(r)
    /\ IF SessionBeforeBody(r)
       THEN UNCHANGED <<sessionUser, overtaken>>
       ELSE TakeSession(r)
    /\ UNCHANGED <<backend, op, user, used>>

\* A read, an operation that is one call, and everything main.py forwards:
\* the first call or a further one, which may be the last.
Call(r) ==
    /\ running = r
    /\ stage[r] = "calling"
    /\ backend = "classic" \/ op[r] \in {"read", "exec"}
    /\ Carry(r)
    /\ Return(r) \/ UNCHANGED <<running, stage>>
    /\ UNCHANGED <<backend, sessionUser, op, user, overtaken>>

\* The answer has been received; the place is free for another request.
Forget(r) ==
    /\ stage[r] = "done"
    /\ stage' = [stage EXCEPT ![r] = "none"]
    /\ op' = [op EXCEPT ![r] = "read"]
    /\ user' = [user EXCEPT ![r] = NoUser]
    /\ used' = [used EXCEPT ![r] = {}]
    /\ overtaken' = [overtaken EXCEPT ![r] = FALSE]
    /\ UNCHANGED <<backend, sessionUser, running>>

(***************************************************************************)
(* Properties.                                                             *)
(***************************************************************************)

\* The session is that of all requests, yet all calls for one request carry the
\* same credentials.  They are its own, with two exceptions: jolpost of the
\* adapter was overtaken while it awaited the body; or the request came without
\* credentials, and is called for with what the session holds.
CredentialsOfOne ==
    \A r \in Requests :
        /\ \A a, b \in used[r] : a = b
        /\ (user[r] # NoUser \/ OwnHeaders(r)) =>
             (used[r] \subseteq {user[r]} \/ (SessionBeforeBody(r) /\ overtaken[r]))

\* "Always update auth headers from the current request": no call goes out with
\* other credentials than those of its request, or with some for a request that
\* came with none.
OwnCredentials == \A r \in Requests : used[r] \subseteq {user[r]}
=============================================================================
