----------------------------- MODULE ApiErrors -----------------------------
(***************************************************************************)
(* What a failed HTTP call does to the login session of the console.       *)
(*                                                                         *)
(* Every factory call of JS/Factories/AMQInfoFact.js that fails, except    *)
(* the read of the broker information, hands its response to               *)
(* handleApiError.  The text it composes (connectionError, toasts) is left *)
(* out; what is kept is the login state, the refresh timer, and whether    *)
(* the handler itself throws: the default branch calls response.data       *)
(* .replace, and a body that Angular parsed into an object has no replace. *)
(***************************************************************************)
EXTENDS Integers

CONSTANT Failures   \* the failed responses the brokers and proxies can give

ASSUME FailuresAssumption ==
    Failures \subseteq [status : Int, object : BOOLEAN]

\* A call that got no HTTP answer: refused, timed out, or never sent because
\* $http threw.  Angular rejects with status 0 or -1, or with an exception.
NoReply == [status |-> 0, object |-> FALSE]

\* What an operation is rejected with: a failed call, no answer, or the 500 that
\* the factory makes of an answer whose body does not say what it must.
Rejections == Failures \cup {NoReply, [status |-> 500, object |-> FALSE]}

Halting == {401, 403, 0, -1}            \* shouldStopRefresh
Worded  == {404, 500, 503} \cup Halting \* statuses with a case of their own

Session == [connected : BOOLEAN,   \* the tabs are shown, not the login window
            loginok   : BOOLEAN,   \* an info read succeeded since Connect
            stompOnly : BOOLEAN,
            timer     : BOOLEAN]   \* refreshTimer is running

Throws(f) == f.status \notin Worded /\ f.object

AfterApiError(s, f) ==
    [s EXCEPT !.connected = @ /\ f.status # 401,
              !.loginok   = @ /\ f.status # 401,
              !.timer     = @ /\ f.status \notin Halting]

\* The error callback of refreshQueues, refreshConnections and refreshTopics:
\* handleApiError first, then the timer, unless handleApiError threw.
AfterReadError(s, f) ==
    LET t == AfterApiError(s, f)
    IN  IF Throws(f) THEN t ELSE [t EXCEPT !.timer = @ /\ t.loginok]
=============================================================================
