------------------------ MODULE ArtemisAdapterProofs ------------------------
(***************************************************************************)
(* Proofs about ArtemisAdapter, for every number of requests, users,       *)
(* messages, queues and counters.                                          *)
(*                                                                         *)
(* What a request has been answered is only right because of what was so   *)
(* while its handler ran: the session is that of the handler that runs     *)
(* (SessionOfRunning), a number that was resolved is that of the message   *)
(* asked for, and a message that was removed cannot come back (Removals),  *)
(* the queue is there behind ensure_destination until somebody removes it  *)
(* (Frames), and what is left to reset is what has not been tried (Resets).*)
(***************************************************************************)
EXTENDS ArtemisAdapter, TLAPS

SessionOfRunning ==
    \A r \in Requests :
        /\ stage[r] \in {"none", "arrived", "awaiting"} => used[r] = {}
        /\ running = r =>
             used[r] \subseteq {IF OwnHeaders(r) THEN user[r] ELSE sessionUser}
        /\ (running = r /\ user[r] # NoUser) =>
             (sessionUser = user[r] \/ (SessionBeforeBody(r) /\ overtaken[r]))
        /\ (stage[r] = "awaiting" /\ SessionBeforeBody(r) /\ user[r] # NoUser) =>
             (sessionUser = user[r] \/ overtaken[r])

ProxyInv == ProxyTypeOK /\ OneRuns /\ SessionOfRunning /\ CredentialsOfOne

Removals ==
    /\ \A r \in Requests :
          /\ (op[r] = "remove" /\ stage[r] # "none") => asked[r] \in Messages
          /\ (op[r] = "remove" /\ stage[r] = "acting") => resolved[r] = asked[r]
          /\ stage[r] # "done" => result[r] = "none"
    /\ \A m \in Messages :
          remover[m] # Idle =>
             place[m] = "gone" /\ stage[remover[m]] = "done" /\ asked[remover[m]] = m

Frames ==
    \A r \in Requests :
        /\ wire[r] # "none" => stage[r] = "done"
        /\ (op[r] = "sendQueue" /\ (stage[r] = "acting" \/ wire[r] = "sent")) =>
             (exists \/ r \in lost)
        /\ (op[r] = "sendQueue" /\ wire[r] = "dropped") => r \in lost

Resets ==
    \A r \in Requests :
        /\ running = r => stay[r] \subseteq bound
        /\ r \in listed => stage[r] \in {"acting", "done"}
        /\ (stage[r] = "acting" /\ op[r] = "resetTopic" /\ r \in listed) =>
             stay[r] \X Counters \subseteq tried[r] \cup pending[r]
        /\ (stage[r] = "done" /\ op[r] = "resetTopic" /\ r \in listed) =>
             stay[r] \X Counters \subseteq tried[r]

IInv ==
    /\ ProxyInv
    /\ AdapterTypeOK
    /\ Removals
    /\ RemovalIsReported
    /\ Frames
    /\ Resets

USE NoUserAssumption, IdleAssumption, NoMessageAssumption

(***************************************************************************)
(* What the steps do to the proxy.                                         *)
(***************************************************************************)

\* Where the handler of r goes on in a step.
Moves(r) ==
    \/ running' = r /\ stage' = [stage EXCEPT ![r] = "acting"]
    \/ running' = Idle /\ stage' = [stage EXCEPT ![r] = "done"]
    \/ UNCHANGED <<running, stage>>

\* A step of the handler of r, seen from the proxy.
Handling(r) ==
    /\ running = r
    /\ Fixed
    /\ Carry(r) \/ UNCHANGED used
    /\ Moves(r)

LEMMA HandlerHandles ==
    ASSUME NEW r \in Requests, Handler(r) PROVE Handling(r)
<1>1. CASE SimpleCall(r)
  BY <1>1 DEF SimpleCall, Call, Handling, Moves, Fixed, Return
<1>2. CASE Resolve(r) \/ NumberGiven(r) \/ Remove(r)
  BY <1>2 DEF Resolve, NumberGiven, Remove, Handles, Handling, Moves, Proceed,
     Answer, Return
<1>3. CASE EnsureQueue(r) \/ EnsureAddress(r) \/ SendFrame(r)
  BY <1>3 DEF EnsureQueue, EnsureAddress, SendFrame, Handles, Handling, Moves,
     Proceed, Answer, Return
<1>4. CASE ListTargets(r) \/ TargetQueue(r) \/ ResetOne(r)
  BY <1>4 DEF ListTargets, TargetQueue, ResetOne, Handles, Handling, Moves, GoOn,
     Proceed, Answer, Return
<1> QED
  BY <1>1, <1>2, <1>3, <1>4 DEF Handler

LEMMA HandlingProxy ==
    ASSUME ProxyInv, NEW r \in Requests, Handling(r) PROVE ProxyInv'
<1> USE DEF ProxyInv
<1> DEFINE sent == IF OwnHeaders(r) THEN user[r] ELSE sessionUser
<1>1. /\ running = r
      /\ UNCHANGED <<backend, sessionUser, op, user, overtaken>>
      /\ used' \in {used, [used EXCEPT ![r] = @ \cup {sent}]}
  BY DEF Handling, Fixed, Carry
<1>2. stage[r] \in {"calling", "acting"}
  BY <1>1 DEF OneRuns
<1>3. sent \in Users \cup {NoUser}
  BY DEF ProxyTypeOK
<1>4. used' \in [Requests -> SUBSET (Users \cup {NoUser})]
  <2> HIDE DEF sent
  <2> QED BY <1>1, <1>3 DEF ProxyTypeOK
<1>5. /\ running' \in {r, Idle}
      /\ stage' \in [Requests -> Stages]
      /\ stage'[r] \in {"calling", "acting", "done"}
      /\ stage'[r] \in {"calling", "acting"} <=> running' = r
      /\ \A s \in Requests \ {r} : stage'[s] = stage[s]
  BY <1>1, <1>2 DEF Handling, Moves, ProxyTypeOK, Stages
<1>6. ProxyTypeOK'
  BY <1>1, <1>4, <1>5 DEF ProxyTypeOK
<1>7. OneRuns'
  BY <1>1, <1>5 DEF OneRuns
<1>8. /\ used'[r] \subseteq {sent}
      /\ \A s \in Requests \ {r} : used'[s] = used[s]
  <2>1. used[r] \subseteq {sent}
    BY <1>1 DEF SessionOfRunning
  <2> HIDE DEF sent
  <2> QED BY <1>1, <2>1 DEF ProxyTypeOK
<1>9. (user[r] # NoUser \/ OwnHeaders(r)) =>
        (sent = user[r] \/ (SessionBeforeBody(r) /\ overtaken[r]))
  BY <1>1 DEF SessionOfRunning
<1>10. \A s \in Requests :
         /\ OwnHeaders(s)' = OwnHeaders(s)
         /\ SessionBeforeBody(s)' = SessionBeforeBody(s)
  BY <1>1 DEF OwnHeaders, SessionBeforeBody
<1>11. SessionOfRunning'
  <2> SUFFICES ASSUME NEW s \in Requests
               PROVE  SessionOfRunning!(s)'
    BY DEF SessionOfRunning
  <2>1. CASE s = r
    BY <2>1, <1>1, <1>5, <1>8, <1>10 DEF SessionOfRunning
  <2>2. CASE s # r
    BY <2>2, <1>1, <1>5, <1>8, <1>10 DEF SessionOfRunning
  <2> QED
    BY <2>1, <2>2
<1>12. CredentialsOfOne'
  <2> SUFFICES ASSUME NEW s \in Requests
               PROVE  CredentialsOfOne!(s)'
    BY DEF CredentialsOfOne
  <2>1. CASE s = r
    <3> HIDE DEF sent
    <3> QED BY <2>1, <1>1, <1>8, <1>9, <1>10
  <2>2. CASE s # r
    BY <2>2, <1>1, <1>8, <1>10 DEF CredentialsOfOne
  <2> QED
    BY <2>1, <2>2
<1> QED
  BY <1>6, <1>7, <1>11, <1>12

LEMMA ArriveProxy ==
    ASSUME ProxyInv, NEW r \in Requests, NEW u \in Users \cup {NoUser},
           NEW o \in Ops, Arrive(r, u, o)
    PROVE  ProxyInv'
<1> USE DEF ProxyInv, Arrive
<1>1. running # r /\ used[r] = {}
  BY DEF OneRuns, SessionOfRunning
<1>2. ProxyTypeOK'
  BY DEF ProxyTypeOK, Stages
<1>3. OneRuns'
  BY <1>1 DEF OneRuns, ProxyTypeOK
<1>4. \A s \in Requests \ {r} :
        /\ stage'[s] = stage[s] /\ user'[s] = user[s] /\ op'[s] = op[s]
        /\ OwnHeaders(s)' = OwnHeaders(s)
        /\ SessionBeforeBody(s)' = SessionBeforeBody(s)
  BY DEF ProxyTypeOK, OwnHeaders, SessionBeforeBody
<1>5. stage'[r] = "arrived"
  BY DEF ProxyTypeOK
<1>6. SessionOfRunning'
  <2> SUFFICES ASSUME NEW s \in Requests PROVE SessionOfRunning!(s)'
    BY DEF SessionOfRunning
  <2>1. CASE s = r
    BY <2>1, <1>1, <1>5
  <2>2. CASE s # r
    BY <2>2, <1>4 DEF SessionOfRunning
  <2> QED
    BY <2>1, <2>2
<1>7. CredentialsOfOne'
  BY <1>1, <1>4 DEF CredentialsOfOne
<1> QED
  BY <1>2, <1>3, <1>6, <1>7

\* get_session, for a handler that starts to run or begins to wait.
LEMMA TakeSessionProxy ==
    ASSUME ProxyTypeOK, NEW r \in Requests, TakeSession(r)
    PROVE  /\ sessionUser' \in Users \cup {NoUser}
           /\ user[r] # NoUser => sessionUser' = user[r]
           /\ overtaken' \in [Requests -> BOOLEAN]
           /\ \A s \in Requests : overtaken[s] => overtaken'[s]
           /\ \A s \in Requests \ {r} : stage[s] = "awaiting" => overtaken'[s]
BY DEF TakeSession, ProxyTypeOK

LEMMA BeginProxy ==
    ASSUME ProxyInv, NEW r \in Requests, Begin(r) PROVE ProxyInv'
<1> USE DEF ProxyInv
<1>1. /\ running = Idle /\ stage[r] = "arrived" /\ TakeSession(r)
      /\ running' = r /\ stage' = [stage EXCEPT ![r] = "calling"]
      /\ UNCHANGED <<backend, op, user, used>>
  BY DEF Begin, Run
<1>2. /\ sessionUser' \in Users \cup {NoUser}
      /\ user[r] # NoUser => sessionUser' = user[r]
      /\ overtaken' \in [Requests -> BOOLEAN]
      /\ \A s \in Requests : overtaken[s] => overtaken'[s]
      /\ \A s \in Requests \ {r} : stage[s] = "awaiting" => overtaken'[s]
  BY <1>1, TakeSessionProxy
<1>3. used[r] = {}
  BY <1>1 DEF SessionOfRunning
<1>4. ProxyTypeOK'
  BY <1>1, <1>2 DEF ProxyTypeOK, Stages
<1>5. OneRuns'
  BY <1>1 DEF OneRuns, ProxyTypeOK
<1>6. stage'[r] = "calling" /\ \A s \in Requests \ {r} : stage'[s] = stage[s]
  BY <1>1 DEF ProxyTypeOK
<1>7. \A s \in Requests : /\ OwnHeaders(s)' = OwnHeaders(s)
                          /\ SessionBeforeBody(s)' = SessionBeforeBody(s)
  BY <1>1 DEF OwnHeaders, SessionBeforeBody
<1>8. SessionOfRunning'
  <2> SUFFICES ASSUME NEW s \in Requests PROVE SessionOfRunning!(s)'
    BY DEF SessionOfRunning
  <2>1. CASE s = r
    BY <2>1, <1>1, <1>2, <1>3, <1>6
  <2>2. CASE s # r
    BY <2>2, <1>1, <1>2, <1>6, <1>7 DEF SessionOfRunning
  <2> QED
    BY <2>1, <2>2
<1>9. CredentialsOfOne'
  BY <1>1, <1>2, <1>7 DEF CredentialsOfOne
<1> QED
  BY <1>4, <1>5, <1>8, <1>9

LEMMA AwaitBodyProxy ==
    ASSUME ProxyInv, NEW r \in Requests, AwaitBody(r) PROVE ProxyInv'
<1> USE DEF ProxyInv
<1>1. /\ running = Idle /\ running' = Idle /\ stage[r] = "arrived"
      /\ stage' = [stage EXCEPT ![r] = "awaiting"]
      /\ IF SessionBeforeBody(r)
         THEN TakeSession(r)
         ELSE UNCHANGED <<sessionUser, overtaken>>
      /\ UNCHANGED <<backend, op, user, used>>
  BY DEF AwaitBody
<1>2. /\ sessionUser' \in Users \cup {NoUser}
      /\ SessionBeforeBody(r) /\ user[r] # NoUser => sessionUser' = user[r]
      /\ overtaken' \in [Requests -> BOOLEAN]
      /\ \A s \in Requests : overtaken[s] => overtaken'[s]
      /\ \A s \in Requests \ {r} :
            stage[s] = "awaiting" => overtaken'[s] \/ sessionUser' = sessionUser
  <2>1. CASE SessionBeforeBody(r)
    BY <2>1, <1>1, TakeSessionProxy
  <2>2. CASE ~SessionBeforeBody(r)
    BY <2>2, <1>1 DEF ProxyTypeOK
  <2> QED
    BY <2>1, <2>2
<1>3. used[r] = {}
  BY <1>1 DEF SessionOfRunning
<1>4. ProxyTypeOK'
  BY <1>1, <1>2 DEF ProxyTypeOK, Stages
<1>5. OneRuns'
  BY <1>1 DEF OneRuns, ProxyTypeOK
<1>6. stage'[r] = "awaiting" /\ \A s \in Requests \ {r} : stage'[s] = stage[s]
  BY <1>1 DEF ProxyTypeOK
<1>7. \A s \in Requests : /\ OwnHeaders(s)' = OwnHeaders(s)
                          /\ SessionBeforeBody(s)' = SessionBeforeBody(s)
  BY <1>1 DEF OwnHeaders, SessionBeforeBody
<1>8. SessionOfRunning'
  <2> SUFFICES ASSUME NEW s \in Requests PROVE SessionOfRunning!(s)'
    BY DEF SessionOfRunning
  <2>1. CASE s = r
    BY <2>1, <1>1, <1>2, <1>3, <1>6, <1>7
  <2>2. CASE s # r
    BY <2>2, <1>1, <1>2, <1>6, <1>7 DEF SessionOfRunning
  <2> QED
    BY <2>1, <2>2
<1>9. CredentialsOfOne'
  BY <1>1, <1>2, <1>7 DEF CredentialsOfOne
<1> QED
  BY <1>4, <1>5, <1>8, <1>9

LEMMA ResumeProxy ==
    ASSUME ProxyInv, NEW r \in Requests, Resume(r) PROVE ProxyInv'
<1> USE DEF ProxyInv
<1>1. /\ running = Idle /\ running' = r /\ stage[r] = "awaiting"
      /\ stage' = [stage EXCEPT ![r] = "calling"]
      /\ IF SessionBeforeBody(r)
         THEN UNCHANGED <<sessionUser, overtaken>>
         ELSE TakeSession(r)
      /\ UNCHANGED <<backend, op, user, used>>
  BY DEF Resume, Run
<1>2. /\ sessionUser' \in Users \cup {NoUser}
      /\ user[r] # NoUser =>
           (sessionUser' = user[r] \/ (SessionBeforeBody(r) /\ overtaken'[r]))
      /\ overtaken' \in [Requests -> BOOLEAN]
      /\ \A s \in Requests : overtaken[s] => overtaken'[s]
      /\ \A s \in Requests \ {r} :
            stage[s] = "awaiting" => overtaken'[s] \/ sessionUser' = sessionUser
  <2>1. CASE SessionBeforeBody(r)
    BY <2>1, <1>1 DEF ProxyTypeOK, SessionOfRunning
  <2>2. CASE ~SessionBeforeBody(r)
    BY <2>2, <1>1, TakeSessionProxy
  <2> QED
    BY <2>1, <2>2
<1>3. used[r] = {}
  BY <1>1 DEF SessionOfRunning
<1>4. ProxyTypeOK'
  BY <1>1, <1>2 DEF ProxyTypeOK, Stages
<1>5. OneRuns'
  BY <1>1 DEF OneRuns, ProxyTypeOK
<1>6. stage'[r] = "calling" /\ \A s \in Requests \ {r} : stage'[s] = stage[s]
  BY <1>1 DEF ProxyTypeOK
<1>7. \A s \in Requests : /\ OwnHeaders(s)' = OwnHeaders(s)
                          /\ SessionBeforeBody(s)' = SessionBeforeBody(s)
  BY <1>1 DEF OwnHeaders, SessionBeforeBody
<1>8. SessionOfRunning'
  <2> SUFFICES ASSUME NEW s \in Requests PROVE SessionOfRunning!(s)'
    BY DEF SessionOfRunning
  <2>1. CASE s = r
    BY <2>1, <1>1, <1>2, <1>3, <1>6, <1>7
  <2>2. CASE s # r
    BY <2>2, <1>1, <1>2, <1>6, <1>7 DEF SessionOfRunning
  <2> QED
    BY <2>1, <2>2
<1>9. CredentialsOfOne'
  BY <1>1, <1>2, <1>7 DEF CredentialsOfOne
<1> QED
  BY <1>4, <1>5, <1>8, <1>9

LEMMA ForgetProxy ==
    ASSUME ProxyInv, NEW r \in Requests, Forget(r) PROVE ProxyInv'
<1> USE DEF ProxyInv, Forget
<1>1. running # r
  BY DEF OneRuns
<1>2. ProxyTypeOK'
  BY DEF ProxyTypeOK, Stages, Ops
<1>3. OneRuns'
  BY <1>1 DEF OneRuns, ProxyTypeOK
<1>4. /\ stage'[r] = "none" /\ used'[r] = {} /\ user'[r] = NoUser
      /\ \A s \in Requests \ {r} :
           /\ stage'[s] = stage[s] /\ user'[s] = user[s] /\ op'[s] = op[s]
           /\ used'[s] = used[s] /\ overtaken'[s] = overtaken[s]
           /\ OwnHeaders(s)' = OwnHeaders(s)
           /\ SessionBeforeBody(s)' = SessionBeforeBody(s)
  BY DEF ProxyTypeOK, OwnHeaders, SessionBeforeBody
<1>5. SessionOfRunning'
  <2> SUFFICES ASSUME NEW s \in Requests PROVE SessionOfRunning!(s)'
    BY DEF SessionOfRunning
  <2>1. CASE s = r
    BY <2>1, <1>1, <1>4
  <2>2. CASE s # r
    BY <2>2, <1>4 DEF SessionOfRunning
  <2> QED
    BY <2>1, <2>2
<1>6. CredentialsOfOne'
  BY <1>4 DEF CredentialsOfOne
<1> QED
  BY <1>2, <1>3, <1>5, <1>6

LEMMA NextProxy == ASSUME ProxyInv, [Next]_vars PROVE ProxyInv'
<1>1. CASE \E r \in Requests, u \in Users \cup {NoUser}, o \in Ops, m \in Messages :
             NewRequest(r, u, o, m)
  BY <1>1, ArriveProxy DEF NewRequest
<1>2. ASSUME NEW r \in Requests, Start(r) PROVE ProxyInv'
  BY <1>2, BeginProxy, ResumeProxy DEF Start
<1>3. ASSUME NEW r \in Requests, Wait(r) PROVE ProxyInv'
  BY <1>3, AwaitBodyProxy DEF Wait
<1>4. ASSUME NEW r \in Requests, Handler(r) PROVE ProxyInv'
  BY <1>4, HandlerHandles, HandlingProxy
<1>5. ASSUME NEW r \in Requests, Free(r) PROVE ProxyInv'
  BY <1>5, ForgetProxy DEF Free
<1>6. CASE (\E r \in Requests : Deliver(r)) \/ BrokerActivity \/ UNCHANGED vars
  <2>1. UNCHANGED proxyVars
    BY <1>6 DEF Deliver, BrokerActivity, vars
  <2> QED
    BY <2>1 DEF proxyVars, ProxyInv, ProxyTypeOK, OneRuns, SessionOfRunning,
       CredentialsOfOne, OwnHeaders, SessionBeforeBody
<1> QED
  BY <1>1, <1>2, <1>3, <1>4, <1>5, <1>6 DEF Next

(***************************************************************************)
(* The types.                                                              *)
(***************************************************************************)

LEMMA NextTypes == ASSUME IInv, [Next]_vars PROVE AdapterTypeOK'
<1> USE DEF IInv, AdapterTypeOK
<1>0. /\ stage \in [Requests -> Stages]
      /\ \A r \in Requests : running = r => stage[r] \in {"calling", "acting"}
  BY DEF ProxyInv, ProxyTypeOK, OneRuns
<1>1. ASSUME NEW r \in Requests, NEW u \in Users \cup {NoUser}, NEW o \in Ops,
             NEW m \in Messages, NewRequest(r, u, o, m)
      PROVE  AdapterTypeOK'
  BY <1>1 DEF NewRequest, brokerVars, resetVars, sendVars
<1>2. ASSUME NEW r \in Requests, Start(r) PROVE AdapterTypeOK'
  BY <1>2 DEF Start, brokerVars, removeVars, sendVars
<1>3. ASSUME NEW r \in Requests, Wait(r) \/ SimpleCall(r) PROVE AdapterTypeOK'
  BY <1>3 DEF Wait, SimpleCall, adapterVars, brokerVars, removeVars, resetVars,
     sendVars
<1>4. ASSUME NEW r \in Requests, Free(r) PROVE AdapterTypeOK'
  BY <1>4 DEF Free, brokerVars, Results
<1>5. ASSUME NEW r \in Requests, Resolve(r) \/ NumberGiven(r) PROVE AdapterTypeOK'
  <2>1. asked[r] \in Messages \cup {NoMessage}
    OBVIOUS
  <2>2. resolved' \in [Requests -> Messages \cup {NoMessage}]
    BY <1>5, <2>1 DEF Resolve, NumberGiven
  <2>3. result' \in [Requests -> Results]
    BY <1>5 DEF Resolve, NumberGiven, Proceed, Answer, Results
  <2> QED
    BY <1>5, <2>2, <2>3 DEF Resolve, NumberGiven, brokerVars, resetVars, sendVars
<1>6. ASSUME NEW r \in Requests, Remove(r) PROVE AdapterTypeOK'
  <2>1. /\ place' \in [Messages -> {"coming", "queued", "gone"}]
        /\ remover' \in [Messages -> Requests \cup {Idle}]
    BY <1>6 DEF Remove
  <2>2. result' \in [Requests -> Results]
    BY <1>6 DEF Remove, Answer, Results
  <2> QED
    BY <1>6, <2>1, <2>2 DEF Remove, resetVars, sendVars
<1>7. ASSUME NEW r \in Requests, EnsureQueue(r) \/ EnsureAddress(r) PROVE AdapterTypeOK'
  <2>1. result' \in [Requests -> Results]
    BY <1>7 DEF EnsureQueue, EnsureAddress, Proceed, Answer, Results
  <2> QED
    BY <1>7, <2>1 DEF EnsureQueue, EnsureAddress, brokerVars, removeVars, resetVars,
       sendVars
<1>8. ASSUME NEW r \in Requests, SendFrame(r) \/ Deliver(r) PROVE AdapterTypeOK'
  <2>1. result' \in [Requests -> Results]
    BY <1>8 DEF SendFrame, Deliver, Answer, Results
  <2>2. wire' \in [Requests -> {"none", "sent", "queued", "dropped"}]
    BY <1>8 DEF SendFrame, Deliver
  <2> QED
    BY <1>8, <2>1, <2>2 DEF SendFrame, Deliver, brokerVars, removeVars, resetVars
<1>9. ASSUME NEW r \in Requests, ListTargets(r) PROVE AdapterTypeOK'
  <2>1. pending' \in [Requests -> SUBSET (Queues \X Counters)]
    <3>1. bound \X Counters \subseteq Queues \X Counters
      OBVIOUS
    <3> QED BY <1>9, <3>1 DEF ListTargets, GoOn
  <2>2. result' \in [Requests -> Results] /\ listed' \subseteq Requests
    BY <1>9 DEF ListTargets, GoOn, Proceed, Answer, Results
  <2> QED
    BY <1>9, <2>1, <2>2 DEF ListTargets, brokerVars, removeVars, sendVars
<1>10. ASSUME NEW r \in Requests, TargetQueue(r) PROVE AdapterTypeOK'
  <2>1. PICK q \in Queues : GoOn(r, {q} \X Counters)
    BY <1>10 DEF TargetQueue
  <2>2. {q} \X Counters \subseteq Queues \X Counters
    OBVIOUS
  <2>3. /\ pending' \in [Requests -> SUBSET (Queues \X Counters)]
        /\ result' \in [Requests -> Results]
    BY <2>1, <2>2 DEF GoOn, Proceed, Answer, Results
  <2> QED
    BY <1>10, <2>3 DEF TargetQueue, brokerVars, removeVars, sendVars
<1>11. ASSUME NEW r \in Requests, ResetOne(r) PROVE AdapterTypeOK'
  <2>1. PICK t \in pending[r] : /\ tried' = [tried EXCEPT ![r] = @ \cup {t}]
                                /\ GoOn(r, pending[r] \ {t})
    BY <1>11 DEF ResetOne
  <2>2. pending[r] \in SUBSET (Queues \X Counters)
    OBVIOUS
  <2>3. tried' \in [Requests -> SUBSET (Queues \X Counters)]
    BY <2>1, <2>2
  <2>4. /\ pending' \in [Requests -> SUBSET (Queues \X Counters)]
        /\ result' \in [Requests -> Results]
    BY <2>1, <2>2 DEF GoOn, Proceed, Answer, Results
  <2> QED
    BY <1>11, <2>3, <2>4 DEF ResetOne, brokerVars, removeVars, sendVars
<1>12. CASE BrokerActivity
  BY <1>12 DEF BrokerActivity, removeVars
<1>13. CASE UNCHANGED vars
  BY <1>13 DEF vars, adapterVars, brokerVars, removeVars, resetVars, sendVars
<1> QED
  BY <1>1, <1>2, <1>3, <1>4, <1>5, <1>6, <1>7, <1>8, <1>9, <1>10, <1>11, <1>12,
     <1>13 DEF Next, Handler

(***************************************************************************)
(* Removals.                                                               *)
(***************************************************************************)

\* Where the requests are after a step of the handler of r.
LEMMA HandlerStages ==
    ASSUME IInv, NEW r \in Requests, Handler(r)
    PROVE  /\ running = r /\ stage[r] \in {"calling", "acting"}
           /\ running' \in {r, Idle}
           /\ stage'[r] \in {"calling", "acting", "done"}
           /\ stage'[r] = "calling" => stage[r] = "calling"
           /\ \A s \in Requests \ {r} : stage'[s] = stage[s] /\ running # s /\ running' # s
           /\ op' = op
<1>1. Handling(r)
  BY HandlerHandles
<1>2. stage \in [Requests -> Stages] /\ stage[r] \in {"calling", "acting"}
  BY <1>1 DEF IInv, ProxyInv, ProxyTypeOK, OneRuns, Handling
<1> QED
  BY <1>1, <1>2 DEF Handling, Moves, Fixed

\* A step that leaves the requests and what they removed as they are.
LEMMA RemovalsUntouched ==
    ASSUME Removals, RemovalIsReported, UNCHANGED <<op, stage, removeVars, result>>,
           \A m \in Messages : place[m] = "gone" => place'[m] = "gone"
    PROVE  Removals' /\ RemovalIsReported'
BY DEF Removals, RemovalIsReported, removeVars

\* A step of a handler that removes and resolves nothing.
LEMMA RemovalsOther ==
    ASSUME IInv, NEW r \in Requests, Handler(r),
           UNCHANGED <<place, removeVars>>,
           \/ UNCHANGED result
           \/ stage'[r] = "done" /\ \E v \in Results : result' = [result EXCEPT ![r] = v],
           op[r] # "remove" \/ (UNCHANGED result /\ stage'[r] # "acting")
    PROVE  Removals' /\ RemovalIsReported'
<1>1. /\ stage[r] \in {"calling", "acting"}
      /\ stage'[r] \in {"calling", "acting", "done"}
      /\ \A s \in Requests \ {r} : stage'[s] = stage[s]
      /\ op' = op
  BY HandlerStages
<1>2. \A s \in Requests \ {r} : result'[s] = result[s]
  BY DEF IInv, AdapterTypeOK
<1>3. \A m \in Messages : remover[m] # Idle =>
        remover[m] \in Requests \ {r} /\ remover'[m] = remover[m] /\ place'[m] = place[m]
  BY <1>1 DEF IInv, AdapterTypeOK, Removals, removeVars
<1>4. Removals'
  <2>1. ASSUME NEW s \in Requests
        PROVE  /\ (op'[s] = "remove" /\ stage'[s] # "none") => asked'[s] \in Messages
               /\ (op'[s] = "remove" /\ stage'[s] = "acting") => resolved'[s] = asked'[s]
               /\ stage'[s] # "done" => result'[s] = "none"
    BY <1>1, <1>2 DEF IInv, Removals, removeVars
  <2>2. ASSUME NEW m \in Messages, remover'[m] # Idle
        PROVE  /\ place'[m] = "gone" /\ stage'[remover'[m]] = "done"
               /\ asked'[remover'[m]] = m
    BY <2>2, <1>1, <1>3 DEF IInv, Removals, removeVars
  <2> QED
    BY <2>1, <2>2 DEF Removals
<1>5. RemovalIsReported'
  <2>1. op[r] = "remove" => result'[r] = result[r]
    OBVIOUS
  <2> QED
    BY <1>1, <1>2, <2>1 DEF IInv, RemovalIsReported, removeVars
<1> QED
  BY <1>4, <1>5

\* Steps that only concern where a request is before its handler runs.
LEMMA RemovalsBefore ==
    ASSUME IInv, NEW r \in Requests,
           stage[r] # "done", stage'[r] \notin {"acting", "done"},
           \A s \in Requests \ {r} :
              stage'[s] = stage[s] /\ op'[s] = op[s] /\ asked'[s] = asked[s],
           (op'[r] = "remove" /\ stage'[r] # "none") => asked'[r] \in Messages,
           UNCHANGED <<place, resolved, remover, result>>
    PROVE  Removals' /\ RemovalIsReported'
<1>1. \A m \in Messages : remover[m] # Idle => remover[m] \in Requests \ {r}
  BY DEF IInv, AdapterTypeOK, Removals
<1>2. result[r] = "none" /\ \A m \in Messages : remover[m] # r
  BY <1>1 DEF IInv, Removals
<1>3. Removals'
  BY <1>1, <1>2 DEF IInv, Removals
<1>4. RemovalIsReported'
  BY <1>1, <1>2 DEF IInv, RemovalIsReported
<1> QED
  BY <1>3, <1>4

LEMMA ResolveRemovals ==
    ASSUME IInv, NEW r \in Requests, Resolve(r) \/ NumberGiven(r)
    PROVE  Removals' /\ RemovalIsReported'
<1>1. /\ op' = op /\ op[r] = "remove" /\ stage[r] = "calling"
      /\ UNCHANGED <<place, asked, remover>>
  BY DEF Resolve, NumberGiven, Handles, Fixed, brokerVars
<1>2. \/ /\ stage' = [stage EXCEPT ![r] = "acting"] /\ result' = result
         /\ resolved' = [resolved EXCEPT ![r] = asked[r]]
      \/ /\ stage' = [stage EXCEPT ![r] = "done"] /\ resolved' = resolved
         /\ result' = [result EXCEPT ![r] = "error"]
  BY DEF Resolve, NumberGiven, Proceed, Answer, Return
<1>3. /\ stage \in [Requests -> Stages] /\ result \in [Requests -> Results]
      /\ resolved \in [Requests -> Messages \cup {NoMessage}]
  BY DEF IInv, ProxyInv, ProxyTypeOK, AdapterTypeOK
<1>4. \A m \in Messages : remover[m] # Idle => remover[m] \in Requests \ {r}
  BY <1>1 DEF IInv, AdapterTypeOK, Removals
<1>5. Removals'
  BY <1>1, <1>2, <1>3, <1>4 DEF IInv, Removals
<1>6. RemovalIsReported'
  BY <1>1, <1>2, <1>3 DEF IInv, RemovalIsReported
<1> QED
  BY <1>5, <1>6

LEMMA RemoveRemovals ==
    ASSUME IInv, NEW r \in Requests, Remove(r)
    PROVE  Removals' /\ RemovalIsReported'
<1> DEFINE m == asked[r]
<1>1. /\ op' = op /\ op[r] = "remove" /\ stage[r] = "acting"
      /\ UNCHANGED <<asked, resolved>>
      /\ resolved[r] = m /\ m \in Messages
  BY DEF Remove, Handles, Fixed, IInv, Removals
<1>2. /\ stage' = [stage EXCEPT ![r] = "done"]
      /\ \/ /\ place[m] = "queued" /\ place' = [place EXCEPT ![m] = "gone"]
            /\ remover' = [remover EXCEPT ![m] = r]
            /\ \/ result' = [result EXCEPT ![r] = "true"]
               \/ result' = [result EXCEPT ![r] = "error"]
         \/ /\ UNCHANGED <<place, remover>>
            /\ \/ result' = [result EXCEPT ![r] = "false"]
               \/ result' = [result EXCEPT ![r] = "error"]
  BY <1>1 DEF Remove, Answer, Return
<1>3. /\ stage \in [Requests -> Stages] /\ result \in [Requests -> Results]
      /\ place \in [Messages -> {"coming", "queued", "gone"}]
      /\ remover \in [Messages -> Requests \cup {Idle}]
  BY DEF IInv, ProxyInv, ProxyTypeOK, AdapterTypeOK
<1>4. \A k \in Messages : remover[k] # Idle => remover[k] \in Requests \ {r}
  BY <1>1, <1>3 DEF IInv, Removals
<1>5. place[m] = "queued" => remover[m] = Idle
  BY <1>1 DEF IInv, Removals
<1> HIDE DEF m
<1>6. /\ stage'[r] = "done"
      /\ \A s \in Requests \ {r} : stage'[s] = stage[s] /\ result'[s] = result[s]
  BY <1>2, <1>3
<1>7. \A k \in Messages :
        \/ remover'[k] = remover[k] /\ place'[k] = place[k]
        \/ k = m /\ remover'[k] = r /\ place'[k] = "gone"
  BY <1>1, <1>2, <1>3
<1>8. asked[r] = m
  BY DEF m
<1>9. Removals'
  <2>1. ASSUME NEW s \in Requests
        PROVE  /\ (op'[s] = "remove" /\ stage'[s] # "none") => asked'[s] \in Messages
               /\ (op'[s] = "remove" /\ stage'[s] = "acting") => resolved'[s] = asked'[s]
               /\ stage'[s] # "done" => result'[s] = "none"
    BY <1>1, <1>6, <1>8 DEF IInv, Removals
  <2>2. ASSUME NEW k \in Messages, remover'[k] # Idle
        PROVE  /\ place'[k] = "gone" /\ stage'[remover'[k]] = "done"
               /\ asked'[remover'[k]] = k
    BY <2>2, <1>1, <1>4, <1>6, <1>7, <1>8 DEF IInv, Removals
  <2> QED
    BY <2>1, <2>2 DEF Removals
<1>10. RemovalIsReported'
  <2> SUFFICES ASSUME NEW s \in Requests
               PROVE  /\ (op'[s] = "remove" /\ result'[s] = "true") => remover'[asked'[s]] = s
                      /\ (op'[s] = "remove" /\ result'[s] = "false") => remover'[asked'[s]] # s
                      /\ \A k \in Messages : remover'[k] = s => k = asked'[s]
    BY DEF RemovalIsReported
  <2>1. CASE s = r
    BY <2>1, <1>1, <1>2, <1>3, <1>4, <1>7, <1>8
  <2>2. CASE s # r
    <3>1. op[s] = "remove" /\ result[s] \in {"true", "false"} => asked[s] \in Messages
      <4>1. result[s] # "none" => stage[s] = "done"
        BY DEF IInv, Removals
      <4> QED
        BY <4>1 DEF IInv, Removals
    <3>2. /\ (op[s] = "remove" /\ result[s] = "true") => remover[asked[s]] = s
          /\ (op[s] = "remove" /\ result[s] = "false") => remover[asked[s]] # s
          /\ \A k \in Messages : remover[k] = s => k = asked[s]
      BY DEF IInv, RemovalIsReported
    <3>3. remover[m] = s => place[m] # "queued"
      BY <1>5
    <3>4. \A k \in Messages : remover[k] = s <=> remover'[k] = s
      BY <2>2, <1>1, <1>2, <1>3, <1>5
    <3> QED
      BY <2>2, <1>1, <1>6, <3>1, <3>2, <3>4
  <2> QED
    BY <2>1, <2>2
<1> QED
  BY <1>9, <1>10

LEMMA FreeRemovals ==
    ASSUME IInv, NEW r \in Requests, Free(r)
    PROVE  Removals' /\ RemovalIsReported'
<1>1. /\ place' = place /\ stage[r] = "done"
      /\ stage' = [stage EXCEPT ![r] = "none"] /\ op' = [op EXCEPT ![r] = "read"]
      /\ asked' = [asked EXCEPT ![r] = NoMessage]
      /\ resolved' = [resolved EXCEPT ![r] = NoMessage]
      /\ result' = [result EXCEPT ![r] = "none"]
      /\ remover' = [m \in Messages |-> IF remover[m] = r THEN Idle ELSE remover[m]]
  BY DEF Free, Forget, brokerVars
<1>2. /\ stage \in [Requests -> Stages] /\ op \in [Requests -> Ops]
      /\ result \in [Requests -> Results]
      /\ remover \in [Messages -> Requests \cup {Idle}]
      /\ asked \in [Requests -> Messages \cup {NoMessage}]
      /\ resolved \in [Requests -> Messages \cup {NoMessage}]
  BY DEF IInv, ProxyInv, ProxyTypeOK, AdapterTypeOK
<1>3. /\ stage'[r] = "none" /\ op'[r] = "read" /\ result'[r] = "none"
      /\ \A s \in Requests \ {r} :
            /\ stage'[s] = stage[s] /\ op'[s] = op[s] /\ result'[s] = result[s]
            /\ asked'[s] = asked[s] /\ resolved'[s] = resolved[s]
      /\ \A m \in Messages : remover'[m] # r
      /\ \A m \in Messages, s \in Requests \ {r} : remover'[m] = s <=> remover[m] = s
  BY <1>1, <1>2
<1>4. Removals'
  <2>1. \A m \in Messages : remover'[m] # Idle =>
          remover'[m] \in Requests \ {r} /\ remover'[m] = remover[m]
    BY <1>1, <1>2
  <2> QED
    BY <2>1, <1>1, <1>3 DEF IInv, Removals
<1>5. RemovalIsReported'
  <2> SUFFICES ASSUME NEW s \in Requests
               PROVE  /\ (op'[s] = "remove" /\ result'[s] = "true") => remover'[asked'[s]] = s
                      /\ (op'[s] = "remove" /\ result'[s] = "false") => remover'[asked'[s]] # s
                      /\ \A k \in Messages : remover'[k] = s => k = asked'[s]
    BY DEF RemovalIsReported
  <2>1. CASE s = r
    BY <2>1, <1>3
  <2>2. CASE s # r
    <3>1. op[s] = "remove" /\ result[s] # "none" => asked[s] \in Messages
      BY DEF IInv, Removals
    <3> QED
      BY <2>2, <1>3, <3>1 DEF IInv, RemovalIsReported
  <2> QED
    BY <2>1, <2>2
<1> QED
  BY <1>4, <1>5

LEMMA NextRemovals ==
    ASSUME IInv, [Next]_vars PROVE Removals' /\ RemovalIsReported'
<1>0. /\ stage \in [Requests -> Stages] /\ op \in [Requests -> Ops]
      /\ asked \in [Requests -> Messages \cup {NoMessage}]
  BY DEF IInv, ProxyInv, ProxyTypeOK, AdapterTypeOK
<1>1. ASSUME NEW r \in Requests, NEW u \in Users \cup {NoUser}, NEW o \in Ops,
             NEW m \in Messages, NewRequest(r, u, o, m)
      PROVE  Removals' /\ RemovalIsReported'
  <2>1. /\ stage[r] = "none" /\ stage' = [stage EXCEPT ![r] = "arrived"]
        /\ op' = [op EXCEPT ![r] = o]
        /\ asked' = [asked EXCEPT ![r] = IF o = "remove" THEN m ELSE NoMessage]
        /\ UNCHANGED <<place, resolved, remover, result>>
    BY <1>1 DEF NewRequest, Arrive, brokerVars
  <2> QED
    BY <2>1, <1>0, RemovalsBefore
<1>2. ASSUME NEW r \in Requests, Start(r) PROVE Removals' /\ RemovalIsReported'
  <2>1. /\ stage[r] \in {"arrived", "awaiting"}
        /\ stage' = [stage EXCEPT ![r] = "calling"]
        /\ UNCHANGED <<op, place, asked, resolved, remover, result>>
    BY <1>2 DEF Start, Begin, Resume, Run, brokerVars, removeVars
  <2> QED
    BY <2>1, <1>0, RemovalsBefore DEF IInv, Removals
<1>3. ASSUME NEW r \in Requests, Wait(r) PROVE Removals' /\ RemovalIsReported'
  <2>1. /\ stage[r] = "arrived" /\ stage' = [stage EXCEPT ![r] = "awaiting"]
        /\ UNCHANGED <<op, place, asked, resolved, remover, result>>
    BY <1>3 DEF Wait, AwaitBody, adapterVars, brokerVars, removeVars
  <2> QED
    BY <2>1, <1>0, RemovalsBefore DEF IInv, Removals
<1>4. ASSUME NEW r \in Requests, Handler(r) PROVE Removals' /\ RemovalIsReported'
  <2>1. CASE SimpleCall(r)
    <3>1. /\ stage[r] = "calling"
          /\ stage' = [stage EXCEPT ![r] = "done"] \/ stage' = stage
          /\ UNCHANGED <<place, removeVars, result>>
      BY <2>1 DEF SimpleCall, Call, Return, adapterVars, brokerVars
    <3>2. stage'[r] # "acting"
      BY <3>1, <1>0
    <3> QED
      BY <1>4, <3>1, <3>2, RemovalsOther
  <2>2. CASE Resolve(r) \/ NumberGiven(r)
    BY <2>2, ResolveRemovals
  <2>3. CASE Remove(r)
    BY <2>3, RemoveRemovals
  <2>4. CASE EnsureQueue(r) \/ EnsureAddress(r) \/ SendFrame(r)
    <3>1. UNCHANGED <<place, removeVars>> /\ op[r] # "remove"
      BY <2>4 DEF EnsureQueue, EnsureAddress, SendFrame, Handles, Sends, brokerVars
    <3>2. \/ UNCHANGED result
          \/ stage'[r] = "done" /\ \E v \in Results : result' = [result EXCEPT ![r] = v]
      BY <2>4, <1>0 DEF EnsureQueue, EnsureAddress, SendFrame, Proceed, Answer, Return,
         Results
    <3> QED
      BY <1>4, <3>1, <3>2, RemovalsOther
  <2>5. CASE ListTargets(r) \/ TargetQueue(r) \/ ResetOne(r)
    <3>1. UNCHANGED <<place, removeVars>> /\ op[r] # "remove"
      BY <2>5 DEF ListTargets, TargetQueue, ResetOne, Handles, brokerVars
    <3>2. \/ UNCHANGED result
          \/ stage'[r] = "done" /\ \E v \in Results : result' = [result EXCEPT ![r] = v]
      BY <2>5, <1>0 DEF ListTargets, TargetQueue, ResetOne, GoOn, Proceed, Answer,
         Return, Results
    <3> QED
      BY <1>4, <3>1, <3>2, RemovalsOther
  <2> QED
    BY <1>4, <2>1, <2>2, <2>3, <2>4, <2>5 DEF Handler
<1>5. ASSUME NEW r \in Requests, Free(r) PROVE Removals' /\ RemovalIsReported'
  BY <1>5, FreeRemovals
<1>6. CASE (\E r \in Requests : Deliver(r)) \/ BrokerActivity \/ UNCHANGED vars
  <2>1. /\ UNCHANGED <<op, stage, removeVars, result>>
    BY <1>6 DEF Deliver, BrokerActivity, vars, adapterVars, proxyVars
  <2>2. \A m \in Messages : place[m] = "gone" => place'[m] = "gone"
    <3>1. CASE BrokerActivity
      BY <3>1 DEF BrokerActivity, IInv, AdapterTypeOK
    <3>2. CASE UNCHANGED place
      BY <3>2
    <3> QED
      BY <1>6, <3>1, <3>2 DEF Deliver, vars, adapterVars, brokerVars
  <2> QED
    BY <2>1, <2>2, RemovalsUntouched DEF IInv
<1> QED
  BY <1>1, <1>2, <1>3, <1>4, <1>5, <1>6 DEF Next

(***************************************************************************)
(* Frames.                                                                 *)
(***************************************************************************)

\* A step that leaves the queue and the frames alone, in which only
\* ensure_destination is followed by "acting" and a handler that is through is
\* not taken up again.
LEMMA FramesKept ==
    ASSUME Frames, UNCHANGED <<exists, wire, lost>>,
           \A s \in Requests :
              /\ stage[s] = "done" => (stage'[s] = "done" /\ op'[s] = op[s])
              /\ (stage'[s] = "acting" /\ op'[s] = "sendQueue") =>
                   (stage[s] = "acting" /\ op[s] = "sendQueue")
    PROVE  Frames'
BY DEF Frames

LEMMA NextFrames == ASSUME IInv, [Next]_vars PROVE Frames'
<1>0. /\ Frames /\ stage \in [Requests -> Stages] /\ op \in [Requests -> Ops]
      /\ wire \in [Requests -> {"none", "sent", "queued", "dropped"}]
  BY DEF IInv, ProxyInv, ProxyTypeOK, AdapterTypeOK
<1>1. ASSUME NEW r \in Requests, NEW u \in Users \cup {NoUser}, NEW o \in Ops,
             NEW m \in Messages, NewRequest(r, u, o, m)
      PROVE  Frames'
  <2>1. /\ stage[r] = "none" /\ stage' = [stage EXCEPT ![r] = "arrived"]
        /\ op' = [op EXCEPT ![r] = o] /\ UNCHANGED <<exists, wire, lost>>
    BY <1>1 DEF NewRequest, Arrive, brokerVars, sendVars
  <2> QED
    BY <1>0, <2>1, FramesKept
<1>2. ASSUME NEW r \in Requests, Start(r) \/ Wait(r) PROVE Frames'
  <2>1. /\ stage[r] \in {"arrived", "awaiting"}
        /\ \E v \in {"awaiting", "calling"} : stage' = [stage EXCEPT ![r] = v]
        /\ UNCHANGED <<op, exists, wire, lost>>
    BY <1>2 DEF Start, Begin, Resume, Run, Wait, AwaitBody, adapterVars, brokerVars,
       sendVars
  <2> QED
    BY <1>0, <2>1, FramesKept
<1>3. ASSUME NEW r \in Requests, Handler(r) PROVE Frames'
  <2>1. /\ stage[r] \in {"calling", "acting"}
        /\ \A s \in Requests \ {r} : stage'[s] = stage[s]
        /\ op' = op
    BY <1>3, HandlerStages
  <2>2. wire[r] = "none"
    BY <1>0, <2>1 DEF Frames
  <2>3. CASE EnsureQueue(r)
    <3>1. /\ UNCHANGED <<wire, lost>>
          /\ \/ exists' = TRUE
             \/ /\ exists' \in {exists, TRUE}
                /\ stage' = [stage EXCEPT ![r] = "done"]
      BY <2>3 DEF EnsureQueue, Answer, Return, sendVars
    <3>2. exists' \in {exists, TRUE} => (exists => exists')
      BY Zenon
    <3>3. \/ exists'
          \/ (exists => exists') /\ stage'[r] = "done"
      BY <1>0, <3>1, <3>2
    <3> QED
      BY <1>0, <2>1, <2>2, <3>1, <3>3 DEF Frames
  <2>4. CASE SendFrame(r)
    <3>1. /\ exists' = exists /\ lost' = lost
          /\ stage[r] = "acting" /\ stage' = [stage EXCEPT ![r] = "done"]
          /\ wire' = [wire EXCEPT ![r] = "sent"] \/ wire' = wire
      BY <2>4 DEF SendFrame, Handles, Answer, Return, brokerVars
    <3> QED
      BY <1>0, <2>1, <2>2, <3>1 DEF Frames
  <2>5. CASE ~EnsureQueue(r) /\ ~SendFrame(r)
    <3>1. UNCHANGED <<exists, wire, lost>>
      BY <1>3, <2>5 DEF Handler, SimpleCall, Resolve, NumberGiven, Remove,
         EnsureAddress, ListTargets, TargetQueue, ResetOne, adapterVars, brokerVars,
         sendVars
    <3>2. CASE SimpleCall(r)
      <4>1. stage'[r] # "acting"
        BY <1>0, <3>2 DEF SimpleCall, Call, Return
      <4> QED
        BY <2>1, <3>1, <4>1, <1>0, FramesKept
    <3>3. CASE ~SimpleCall(r)
      <4>1. op[r] # "sendQueue"
        BY <1>3, <2>5, <3>3 DEF Handler, Handles, Resolve, NumberGiven, Remove,
           EnsureAddress, ListTargets, TargetQueue, ResetOne
      <4> QED
        BY <2>1, <3>1, <4>1, <1>0, FramesKept
    <3> QED
      BY <3>2, <3>3
  <2> QED
    BY <2>3, <2>4, <2>5
<1>4. ASSUME NEW r \in Requests, Deliver(r) PROVE Frames'
  <2>1. /\ wire[r] = "sent" /\ stage[r] = "done"
        /\ wire' = [wire EXCEPT ![r] = IF exists THEN "queued" ELSE "dropped"]
        /\ UNCHANGED <<stage, op, exists, lost>>
    BY <1>0, <1>4 DEF Deliver, proxyVars, brokerVars, Frames
  <2> QED
    BY <1>0, <2>1 DEF Frames
<1>5. ASSUME NEW r \in Requests, Free(r) PROVE Frames'
  <2>1. /\ stage' = [stage EXCEPT ![r] = "none"] /\ op' = [op EXCEPT ![r] = "read"]
        /\ wire' = [wire EXCEPT ![r] = "none"] /\ lost' = lost \ {r}
        /\ exists' = exists
    BY <1>5 DEF Free, Forget, brokerVars
  <2> QED
    BY <1>0, <2>1 DEF Frames
<1>6. CASE BrokerActivity
  <2>1. UNCHANGED <<stage, op, wire>>
    BY <1>6 DEF BrokerActivity, proxyVars
  <2>2. /\ lost \subseteq lost'
        /\ \/ exists => exists'
           \/ \A s \in Requests : Sending(s) => s \in lost'
    BY <1>6 DEF BrokerActivity
  <2> QED
    BY <1>0, <2>1, <2>2 DEF Frames, Sending
<1>7. CASE UNCHANGED vars
  BY <1>0, <1>7, FramesKept DEF vars, proxyVars, adapterVars, brokerVars, sendVars
<1> QED
  BY <1>1, <1>2, <1>3, <1>4, <1>5, <1>6, <1>7 DEF Next

(***************************************************************************)
(* Resets.                                                                 *)
(***************************************************************************)

\* A step of the handler of r that lists, resets and binds nothing.
LEMMA ResetsOther ==
    ASSUME IInv, NEW r \in Requests, Handler(r),
           UNCHANGED <<bound, listed, stay, tried>>,
           \A s \in Requests \ {r} : pending'[s] = pending[s],
           op[r] # "resetTopic" \/ stage[r] = "calling"
    PROVE  Resets'
<1>1. /\ running = r
      /\ running' \in {r, Idle}
      /\ stage'[r] \in {"calling", "acting", "done"}
      /\ stage'[r] = "calling" => stage[r] = "calling"
      /\ \A s \in Requests \ {r} : stage'[s] = stage[s] /\ running' # s
      /\ op' = op
  BY HandlerStages
<1>2. stage[r] = "calling" => r \notin listed
  BY DEF IInv, Resets
<1> SUFFICES ASSUME NEW s \in Requests PROVE Resets!(s)'
  BY DEF Resets
<1>3. CASE s = r
  BY <1>1, <1>2, <1>3 DEF IInv, Resets
<1>4. CASE s # r
  BY <1>1, <1>4 DEF IInv, Resets
<1> QED
  BY <1>3, <1>4

LEMMA ListTargetsResets ==
    ASSUME IInv, NEW r \in Requests, ListTargets(r) PROVE Resets'
<1>1. Handler(r)
  BY DEF Handler
<1>2. /\ running = r /\ running' \in {r, Idle}
      /\ \A s \in Requests \ {r} : stage'[s] = stage[s] /\ running' # s
      /\ op' = op
  BY <1>1, HandlerStages
<1>3. /\ UNCHANGED <<bound, stay, tried>>
      /\ \/ GoOn(r, bound \X Counters) /\ listed' = listed \cup {r}
         \/ GoOn(r, {}) /\ listed' = listed
      /\ stage[r] = "calling"
  BY DEF ListTargets, brokerVars, Handles
<1>4. /\ stage \in [Requests -> Stages]
      /\ pending \in [Requests -> SUBSET (Queues \X Counters)]
      /\ stay[r] \subseteq bound /\ r \notin listed
  BY <1>2, <1>3 DEF IInv, ProxyInv, ProxyTypeOK, AdapterTypeOK, Resets
<1>5. /\ \A s \in Requests \ {r} : pending'[s] = pending[s]
      /\ stage'[r] \in {"acting", "done"}
      /\ r \in listed' => pending'[r] = bound \X Counters
      /\ (r \in listed' /\ stage'[r] = "done") => bound \X Counters = {}
  BY <1>3, <1>4 DEF GoOn, Answer, Return, Proceed
<1>6. stay[r] \X Counters \subseteq bound \X Counters
  BY <1>4
<1> SUFFICES ASSUME NEW s \in Requests PROVE Resets!(s)'
  BY DEF Resets
<1>7. CASE s = r
  BY <1>2, <1>3, <1>4, <1>5, <1>6, <1>7
<1>8. CASE s # r
  BY <1>2, <1>3, <1>5, <1>8 DEF IInv, Resets
<1> QED
  BY <1>7, <1>8

LEMMA ResetOneResets ==
    ASSUME IInv, NEW r \in Requests, ResetOne(r) PROVE Resets'
<1>1. Handler(r)
  BY DEF Handler
<1>2. /\ running = r /\ running' \in {r, Idle}
      /\ \A s \in Requests \ {r} : stage'[s] = stage[s] /\ running' # s
      /\ op' = op
  BY <1>1, HandlerStages
<1>3. /\ UNCHANGED <<bound, stay, listed>> /\ stage[r] = "acting"
  BY DEF ResetOne, brokerVars, Handles
<1>4. PICK t \in pending[r] : /\ tried' = [tried EXCEPT ![r] = @ \cup {t}]
                              /\ GoOn(r, pending[r] \ {t})
  BY DEF ResetOne
<1>5. /\ stage \in [Requests -> Stages]
      /\ pending \in [Requests -> SUBSET (Queues \X Counters)]
      /\ tried \in [Requests -> SUBSET (Queues \X Counters)]
  BY DEF IInv, ProxyInv, ProxyTypeOK, AdapterTypeOK
<1>6. /\ \A s \in Requests \ {r} : pending'[s] = pending[s] /\ tried'[s] = tried[s]
      /\ stage'[r] \in {"acting", "done"}
      /\ pending'[r] = pending[r] \ {t} /\ tried'[r] = tried[r] \cup {t}
      /\ stage'[r] = "done" => pending'[r] = {}
  BY <1>3, <1>4, <1>5 DEF GoOn, Answer, Return, Proceed
<1>7. tried[r] \cup pending[r] \subseteq tried'[r] \cup pending'[r]
  BY <1>6
<1> DEFINE all == stay[r] \X Counters
<1>8. (op[r] = "resetTopic" /\ r \in listed) => all \subseteq tried[r] \cup pending[r]
  BY <1>3 DEF IInv, Resets
<1> HIDE DEF all
<1>9. /\ (op[r] = "resetTopic" /\ r \in listed) => all \subseteq tried'[r] \cup pending'[r]
      /\ (op[r] = "resetTopic" /\ r \in listed /\ stage'[r] = "done") => all \subseteq tried'[r]
  BY <1>6, <1>7, <1>8
<1>10. stay[r] \subseteq bound
  BY <1>2 DEF IInv, Resets
<1> SUFFICES ASSUME NEW s \in Requests PROVE Resets!(s)'
  BY DEF Resets
<1>11. CASE s = r
  BY <1>2, <1>3, <1>6, <1>9, <1>10, <1>11 DEF all
<1>12. CASE s # r
  BY <1>2, <1>3, <1>6, <1>12 DEF IInv, Resets
<1> QED
  BY <1>11, <1>12

LEMMA NextResets == ASSUME IInv, [Next]_vars PROVE Resets'
<1>0. /\ stage \in [Requests -> Stages] /\ Resets
      /\ stay \in [Requests -> SUBSET Queues]
      /\ \A r \in Requests : stage[r] \in {"calling", "acting"} <=> running = r
  BY DEF IInv, ProxyInv, ProxyTypeOK, OneRuns, AdapterTypeOK
<1>1. ASSUME NEW r \in Requests, NEW u \in Users \cup {NoUser}, NEW o \in Ops,
             NEW m \in Messages, NewRequest(r, u, o, m)
      PROVE  Resets'
  <2>1. /\ stage[r] = "none" /\ stage' = [stage EXCEPT ![r] = "arrived"]
        /\ op' = [op EXCEPT ![r] = o] /\ op \in [Requests -> Ops]
        /\ UNCHANGED <<running, bound, resetVars>>
    BY <1>1 DEF NewRequest, Arrive, brokerVars, IInv, ProxyInv, ProxyTypeOK
  <2> QED
    BY <2>1, <1>0 DEF Resets, resetVars
<1>2. ASSUME NEW r \in Requests, Start(r) PROVE Resets'
  <2>1. /\ stage[r] \in {"arrived", "awaiting"}
        /\ stage' = [stage EXCEPT ![r] = "calling"] /\ running' = r
        /\ stay' = [stay EXCEPT ![r] = bound]
        /\ UNCHANGED <<op, bound, pending, listed, tried>>
    BY <1>2 DEF Start, Begin, Resume, Run, brokerVars
  <2>2. r \notin listed
    BY <2>1, <1>0 DEF Resets
  <2>3. /\ stage'[r] = "calling" /\ stay'[r] = bound
        /\ \A s \in Requests \ {r} :
              stage'[s] = stage[s] /\ stay'[s] = stay[s] /\ running' # s
    BY <2>1, <1>0
  <2> SUFFICES ASSUME NEW s \in Requests PROVE Resets!(s)'
    BY DEF Resets
  <2>4. CASE s = r
    BY <2>1, <2>2, <2>3, <2>4
  <2>5. CASE s # r
    BY <1>0, <2>1, <2>3, <2>5 DEF Resets
  <2> QED
    BY <2>4, <2>5
<1>3. ASSUME NEW r \in Requests, Wait(r) PROVE Resets'
  <2>1. /\ stage[r] = "arrived" /\ stage' = [stage EXCEPT ![r] = "awaiting"]
        /\ UNCHANGED <<running, op, bound, resetVars>>
    BY <1>3 DEF Wait, AwaitBody, adapterVars, brokerVars
  <2> QED
    BY <2>1, <1>0 DEF Resets, resetVars
<1>4. ASSUME NEW r \in Requests, Handler(r) PROVE Resets'
  <2>1. CASE SimpleCall(r) \/ TargetQueue(r)
    <3>1. /\ UNCHANGED <<bound, listed, stay, tried>> /\ stage[r] = "calling"
          /\ \A s \in Requests \ {r} : pending'[s] = pending[s]
      BY <2>1 DEF SimpleCall, Call, TargetQueue, Handles, GoOn, adapterVars, brokerVars,
         resetVars, IInv, AdapterTypeOK
    <3> QED
      BY <1>4, <3>1, ResetsOther
  <2>2. CASE \/ Resolve(r) \/ NumberGiven(r) \/ Remove(r)
             \/ EnsureQueue(r) \/ EnsureAddress(r) \/ SendFrame(r)
    <3>1. UNCHANGED <<bound, resetVars>> /\ op[r] # "resetTopic"
      BY <2>2 DEF Resolve, NumberGiven, Remove, EnsureQueue, EnsureAddress, SendFrame,
         Handles, Sends, brokerVars
    <3> QED
      BY <1>4, <3>1, ResetsOther DEF resetVars
  <2>3. CASE ListTargets(r)
    BY <2>3, ListTargetsResets
  <2>4. CASE ResetOne(r)
    BY <2>4, ResetOneResets
  <2> QED
    BY <1>4, <2>1, <2>2, <2>3, <2>4 DEF Handler
<1>5. ASSUME NEW r \in Requests, Free(r) PROVE Resets'
  <2>1. /\ stage[r] = "done" /\ stage' = [stage EXCEPT ![r] = "none"]
        /\ op' = [op EXCEPT ![r] = "read"] /\ op \in [Requests -> Ops]
        /\ listed' = listed \ {r} /\ stay' = [stay EXCEPT ![r] = {}]
        /\ tried' = [tried EXCEPT ![r] = {}]
        /\ tried \in [Requests -> SUBSET (Queues \X Counters)]
        /\ UNCHANGED <<running, bound, pending>>
    BY <1>5 DEF Free, Forget, brokerVars, IInv, ProxyInv, ProxyTypeOK, AdapterTypeOK
  <2>2. /\ stage'[r] = "none" /\ running' # r
        /\ \A s \in Requests \ {r} : /\ stage'[s] = stage[s] /\ op'[s] = op[s]
                                     /\ stay'[s] = stay[s] /\ tried'[s] = tried[s]
    BY <2>1, <1>0
  <2> SUFFICES ASSUME NEW s \in Requests PROVE Resets!(s)'
    BY DEF Resets
  <2>3. CASE s = r
    BY <2>1, <2>2, <2>3
  <2>4. CASE s # r
    BY <1>0, <2>1, <2>2, <2>4 DEF Resets
  <2> QED
    BY <2>3, <2>4
<1>6. CASE BrokerActivity
  <2>1. UNCHANGED <<running, stage, op, listed, pending, tried>>
    BY <1>6 DEF BrokerActivity, proxyVars
  <2>2. \A s \in Requests : /\ stay'[s] \subseteq stay[s]
                            /\ stay[s] \subseteq bound => stay'[s] \subseteq bound'
    BY <1>0, <1>6 DEF BrokerActivity
  <2> SUFFICES ASSUME NEW s \in Requests PROVE Resets!(s)'
    BY DEF Resets
  <2>3. stay'[s] \X Counters \subseteq stay[s] \X Counters
    BY <2>2
  <2>4. /\ running' = s => stay'[s] \subseteq bound'
        /\ s \in listed' => stage'[s] \in {"acting", "done"}
    BY <1>0, <2>1, <2>2 DEF Resets
  <2> DEFINE all == stay[s] \X Counters
             still == stay'[s] \X Counters
  <2>5. /\ (stage[s] = "acting" /\ op[s] = "resetTopic" /\ s \in listed) =>
             all \subseteq tried[s] \cup pending[s]
        /\ (stage[s] = "done" /\ op[s] = "resetTopic" /\ s \in listed) =>
             all \subseteq tried[s]
    BY <1>0 DEF Resets
  <2>6. still \subseteq all
    BY <2>3
  <2> HIDE DEF all, still
  <2>7. /\ (stage'[s] = "acting" /\ op'[s] = "resetTopic" /\ s \in listed') =>
             still \subseteq tried'[s] \cup pending'[s]
        /\ (stage'[s] = "done" /\ op'[s] = "resetTopic" /\ s \in listed') =>
             still \subseteq tried'[s]
    BY <2>1, <2>5, <2>6
  <2> QED
    BY <2>4, <2>7 DEF still
<1>7. CASE (\E r \in Requests : Deliver(r)) \/ UNCHANGED vars
  <2>1. UNCHANGED <<running, stage, op, bound, resetVars>>
    BY <1>7 DEF Deliver, vars, adapterVars, proxyVars, brokerVars
  <2> QED
    BY <2>1, <1>0 DEF Resets, resetVars
<1> QED
  BY <1>1, <1>2, <1>3, <1>4, <1>5, <1>6, <1>7 DEF Next

(***************************************************************************)
(* The invariant and the theorems.                                         *)
(***************************************************************************)

LEMMA InitIInv == Init => IInv
<1> SUFFICES ASSUME Init PROVE IInv
  OBVIOUS
<1> USE DEF Init, ProxyInit
<1>1. ProxyInv
  BY DEF ProxyInv, ProxyTypeOK, OneRuns, SessionOfRunning, CredentialsOfOne, Stages, Ops
<1>2. AdapterTypeOK
  BY DEF AdapterTypeOK, Results
<1>3. Removals /\ RemovalIsReported
  BY DEF Removals, RemovalIsReported
<1>4. Frames
  BY DEF Frames
<1>5. Resets
  BY DEF Resets
<1> QED
  BY <1>1, <1>2, <1>3, <1>4, <1>5 DEF IInv

LEMMA NextIInv == IInv /\ [Next]_vars => IInv'
<1> SUFFICES ASSUME IInv, [Next]_vars PROVE IInv'
  OBVIOUS
<1>1. ProxyInv'
  BY NextProxy DEF IInv
<1>2. AdapterTypeOK'
  BY NextTypes
<1>3. Removals' /\ RemovalIsReported'
  BY NextRemovals
<1>4. Frames'
  BY NextFrames
<1>5. Resets'
  BY NextResets
<1> QED
  BY <1>1, <1>2, <1>3, <1>4, <1>5 DEF IInv

LEMMA Invariance == Spec => []IInv
BY InitIInv, NextIInv, PTL DEF Spec

\* Every variable keeps its type, and only the handler that has the event loop
\* is calling.
THEOREM TypeCorrect == Spec => []TypeOK
<1>1. IInv => TypeOK
  BY DEF IInv, ProxyInv, TypeOK
<1> QED
  BY <1>1, Invariance, PTL

\* Whatever requests interleave, all calls for one carry the same credentials;
\* these are its own unless it came without any, or jolpost of the adapter was
\* overtaken while it awaited the body.
THEOREM CredentialsKept == Spec => []CredentialsOfOne
<1>1. IInv => CredentialsOfOne
  BY DEF IInv, ProxyInv
<1> QED
  BY <1>1, Invariance, PTL

\* A removal answers true only when it removed the message it was asked for,
\* false only when it did not, and never removes another one.
THEOREM RemovalsReported == Spec => []RemovalIsReported
<1>1. IInv => RemovalIsReported
  BY DEF IInv
<1> QED
  BY <1>1, Invariance, PTL

\* A message whose request was answered with ok is dropped only if somebody
\* removed the queue after ensure_destination: a createQueue that fails is never
\* followed by the frame.
THEOREM SentMessagesQueued == Spec => []SentIsQueued
<1>1. IInv => SentIsQueued
  BY DEF IInv, Frames, SentIsQueued
<1> QED
  BY <1>1, Invariance, PTL

\* A reset that could list the queues asks for every counter of every queue
\* that stays bound, whatever fails on the way.
THEOREM ResetsTryAll == Spec => []ResetTriesAll
<1>1. IInv => ResetTriesAll
  BY DEF IInv, Resets, ResetTriesAll
<1> QED
  BY <1>1, Invariance, PTL
=============================================================================
