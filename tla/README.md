# A verification development for AMQC

AMQC is a browser console for ActiveMQ brokers: an AngularJS application
(`src/JS`, `src/Templates`, `src/index.html`) that reads and operates a broker
through Jolokia, sends and receives messages over STOMP, and runs either inside
the broker's web server or behind one of two small proxies (`src/server`).
This directory holds TLA+ modules translated from that code, TLC
configurations that model-check them on small instances, and proofs, checked by
TLAPS, that the main properties hold for all values of the constants.

In the text below `AMQInfoFact.js` stands for `src/JS/Factories/AMQInfoFact.js`
and so on; `PROJECT.json` maps every definition to the lines it translates.

## The system

JavaScript is run to completion: between two events (a click, an HTTP answer, a
tick of the timer, a dialog answered) nothing interleaves, so one event with
everything it calls synchronously is one action.  What interleaves are the
answers of up to four reads of a refresh cycle, operations with no timeout, the
timer, the chains of the bulk deletions, the user, and the broker.

| component | state it keeps | operations | what must be right |
|---|---|---|---|
| API error handling (`handleApiError`) | none of its own; writes `connected`, `loginok`, `refreshTimer` | called by every failed request | which failures stop the timer or log out; that it returns, so that its caller can clear its flag |
| Login session and refresh cycle (`AMQInfoFact.js`, `LoginCtrl.js`, `TabsCtrl.js`) | URLs of the broker, `connected`, `loginok`, `connecting`, `stompOnly`, `refreshTimer`, `currentlyRefreshing[0..3]`, the four lists | `logAMQ`, `logStompOnly`, `disconnectAMQ`, `setRefresh`, `refreshAll`, four section reads | the tabs show the broker that operations address; flags follow the reads; cycles end; no timer left behind |
| Deleting queues (`QueuesCtrl.js`, `getUnusedQueues`, `deleteQueue`) | `deletingUnusedQueues`, the chain and its counters, `currentQueue` | `deleteUnusedQueues`, `deleteQueue`, `showQueueDetails` | only what was agreed to and found unused since is deleted, the report is true, each name counted once, the run ends |
| Deleting topics (`TopicsCtrl.js`, `getUnusedTopics`, `deleteTopic`) | `deletingUnusedTopics`, the chain, `currentTopic` | `deleteUnusedTopics`, `deleteTopic`, `showDetails` | the same, and durable subscriptions protect their topic |
| Queue details and message browser | `currentQueue`, the one list `queueMessages`, per scope the browser window and the message on display | `browseQueue`, `showQueueMessageDetails`, `deleteMessage`, `purgeQueue`, `resetStatsQueue` | the messages shown belong to the queue named above them; what was reported deleted is not shown |
| Connection details | `currentConnection` of the factory and of the scope, `connectionDetailsObject`, `detailsComputingUnderway` | `showConnectionDetails`, `showConnection`, `computeConnectionDetails` | the consumers shown are those of the connection named above them |
| Subscriber check | `topicSubscribers`, `subscriberTesterList`, `subscriberTesterVisible` | `checkSubscribers`, `getSubscriberDetails` | one row per subscriber |
| STOMP client (`AMQClientFact.js`, `ClientCtrl.js`) | connection state, subscriptions, at most 1000 messages | connect, disconnect, subscribe, unsubscribe, send | state follows the socket; the list stays within its limit |
| Preferences and stored settings (`PreferencesFact.js`) | `localStorage`, `prefs` | load, save, remember-me | what is stored is what is loaded |
| Queue statistics (`refreshQueues`, `ProcessorFact.js`) | windows of values per queue and field | add a value, create and drop processors | windows within `MAXGRAPHVALUES`, values in order |
| Classic proxy (`server/main.py`) | one cached session | forward, `read_connection_view` | a caller's request goes out with the caller's credentials, or with none if it has none |
| Artemis adapter (`server/mainartemis.py`) | one shared client session | translate reads and operations; `removeMessage`, `message`, `resetStatistics` make several calls each | the same; the answer of a compound operation is true although a part of it fails |
| Send tab, Information tab, interceptor, templates, deployment, vendored libraries | | | see "Not modelled" |

How they interact: every component issues HTTP requests through the URLs that
`prepareURLs` derives from the login form, so a login redirects whatever is
issued after it; every failed request ends in `handleApiError`, which may log
out or stop the timer; every operation that changed the broker ends in
`refreshAll`, which is dropped while a cycle runs; the selected queue and topic
are kept in the factory and shared by all scopes of their tabs, while the
"deleting" flags belong to one scope; `disconnectAMQ` calls the STOMP client
before it changes the session.

Hard behaviours, each listed in `PROJECT.json` under `hazards` at the line
where it bites: answers of an earlier login; a handler that throws between
setting and clearing a flag; checks that are stale when used; lost answers of
deletions; overlapping runs; calls dropped because a cycle is running; requests
that never time out; answers that fill a pane after something else was opened in
it; a session shared by requests that give way to each other in the middle;
compound operations of which a call fails.

## The modules

### ApiErrors

The operators `AfterApiError` and `AfterReadError`: what a failed answer does to
the login state and the timer.  `Failures`, a constant, is the set of failed
answers considered, each a status and whether its body was parsed into an
object; `Throws` says when the default branch of `handleApiError` calls
`replace` on such an object.

### RefreshCycle

Login, logout and the refresh cycle.  `session` holds the four factory fields
the error handler touches, `target` the broker the URLs address,
`currentlyRefreshing` is the code's array, and `request` is what the code does
not keep: for each section, the broker its outstanding GET was sent to.
`shown` is where the data on screen came from.  One action per handler: `Login`
(`logAMQ`), `LogStompOnly`, `Disconnect` (`disconnectAMQ`), `RefreshButton`,
`EditInterval`, `UpdateAutoRefresh`, `Tick`, one for success and one for failure
of the info read and of the list reads, and `Exec` with its three outcomes for
every operation that is a POST; one that fails may refresh all the same, as the
bulk deletions do when they end (`ExecFailed`).  The callbacks of the connections and the topics read
fields of each row, and throw on a row that lacks one: `Incomplete` is the set of
lists that may come so.  `Stuck` says that a flag is set with no read
outstanding; `response`, a history, is what the callback of a list got last, so
that `OnlyThrowsStick` can say of *this* response that its handler throws.
Guards on user actions are the conditions under
which `index.html` and the templates show the control.

### ConsoleSession

The same session as the other components see it: `busy` instead of the flags
and requests of each section.  QueueCleanup, TopicCleanup, StompClient and
DetailPanes are composed with it, so that they are checked against every order of
logins, logouts, refreshes and failures, at the price of four variables.  It is
both what they may expect and what they may do: RefreshCycle implements it
(`ImplementsSession`, model-checked and proved), and so does every component, with
its own operations among the steps (`SessionSpec`, model-checked for the queues and
proved for all).  What is said of the session alone (`TimerHasOwner`,
`BrokerStays`) therefore holds wherever a component calls it from.

### QueueCleanup

`deleteUnusedQueues` and the single `deleteQueue`, with the broker.  Each visit
of the Queues tab is a scope of its own (`Visits`) with its own run: the phase
of the promise chain, the names agreed to, those to come, the one at hand, the
broker its outstanding request addresses and whether that broker has processed
it, and the results.  A deletion takes effect (`ServeDelete`) apart from its
answer (`Deleted`, `DeleteFailed`), so answers can be lost.  `BrokerActivity`
lets queues come, go and change use at any time.  The counters `deleted`,
`skipped` and `failed` are kept as the sets they count, and `removals` is a
history of what the broker did for the run.  Not covered: a request that the
browser has given up and that the broker processes only afterwards.

### TopicCleanup

The same for topics, which the code does differently: nothing is checked before
each deletion, but once after the confirmation, for all of them, and the check
is made of two requests at a time.  `waiting` holds the reads of a check the
broker has yet to process, `free` and `protected` what they found
(`ServeTopics`, `ServeInfo`, in either order, with `BrokerActivity` between
them); a check that fails is over at once (`CheckFailed`), as `$q.all` does not
wait for the other read.  A link of the promise chain whose topic is not eligible
skips it without waiting for anything, so one action takes the names skipped up
to the next deletion together (`before` in `Delete`).  `TopicStates` is what
the clients make of a topic: absent, unused, consumed, with an offline durable
subscription, or with one that is connected.

### TopicCheck

TopicCleanup with three history variables about the re-check: the topics that had
a durable subscription all the time (`kept`) or a consumer all the time
(`manned`), and those that were without either at some time (`lull`).  Each use
on its own protects a topic (`OccupiedKept`); one that gives way to the other
between the two reads does not (`EligibleWasUnused`, which fails).

### BulkCleanup

What a bulk deletion promises, whatever the order in which it checks and
deletes: names are agreed to once, each is struck at most once and only if the
latest reading made since the agreement found it unused, one at a time; names
not found unused are dropped, any number of them with one decision
(`Decide`), and the rest may be given up.  What earlier readings found does not
count for a new agreement (`Agree` forgets it).  Three consequences are stated
there for all that implement it: `OnlyAgreed`, `OnceOnly` and `StruckOnSight`.
QueueCleanup, which reads before
every decision, and TopicCleanup, which reads once, both implement it.

### StompClient

`factory.connect`, `disconnect`, `callBackFunc` and `failureFunc` over the STOMP
library and the browser's web sockets.  Each Connect makes a client with a
socket of its own (`Clients`, in the order they are made); `client` is
`factory.client`, and `socket[c]` is what the library and the browser keep for
one: the state of the socket, whether `onclose` is still set, whether CONNECTED
was received, how often `callBackFunc` subscribed, and the heart-beats.  A socket
outlives the user's interest in it, so events of any of them are possible at any
time; the callbacks act on `client`, as the code does on `factory.client`.  The
library is modelled from the vendored `stomp.js`, the web socket from how the
library uses it: `send` throws while it connects (`CanSend`), frames are
delivered only while it is open, and a socket that closes ends with an event.
`DisconnectAMQ` composes the client with the session: it hangs up first, and if
that throws because the socket still connects, the user stays logged in.
`HungUp` unsets `onclose`, which is why nothing is heard of an old socket.

Left out are sending, the timeline, the destinations by name, and the settings
that `connect` stores.  Messages are numbered by their reception since Connect.

### MessageBrowser

The messages of a queue on the Queues tab.  `browseQueue` may have several
requests outstanding (`browses`), each with the queue it asked for, the broker it
goes to and, once the broker has processed it (`BrowseServed`), the messages it
saw; whichever is answered last fills `queueMessages`, the one list of the
factory.  Every visit of the tab is a scope with a window
(`queueBrowerVisible`) and a message on display (`currentMessage`) of its own, and
the callback of `deleteMessage` acts in the scope that asked: it closes whatever
message is on display there, reports, and browses the queue again, unless one of
them is missing, when it throws (`DeletionDone`).  An answer without a value, or
a message with neither text nor preview, makes the callback of `browseQueue`
throw and leaves a part of the list (`BrowseBroken`).  `latest`, `fresh`,
`listedOf`, `deleted` and `reported` are histories for the properties.

### ConnectionDetails

`computeConnectionDetails`, called by the Connections tab, by `showConnection`
from the Queues and Topics tabs, and by the Refresh button, which asks for the
connection that its own scope knows.  The list of consumers is represented by
the connection whose consumers it holds.

### SubscriberCheck

`checkSubscribers` empties the list and starts one read per subscriber; each
answer adds a row, whichever check it was asked by.  `TopicsRead` composes
`refreshTopics`, which replaces the subscribers meanwhile, with the list read of
the session.  The question before a check is a modal dialog (`asking`).

### DetailPanes

The three panes in one session.  They share the session, the dialog and nothing
else.

### ProxySession

The two servers as far as they share one `requests.Session` among all requests.
A handler owns the event loop from its start to its next `await` (`running`); the
only awaits are those for the body of a POST.  `jolpost` of the adapter calls
`get_session`, which writes the request's credentials into the shared session,
*before* it awaits the body (`SessionBeforeBody`), the others after it.  A
request without credentials changes nothing in the session and is called for with
what is there; the POST handlers of `main.py` give each call headers of its
own (`OwnHeaders`).  Cookies the session may hold are not represented.
`used[r]` collects the credentials the calls of a request went out with, and
`overtaken[r]` whether another handler has begun in between.

### ArtemisAdapter

ProxySession with the requests of `mainartemis.py` that consist of several calls:
`removeMessage` looks the number of a message up and then removes that number,
`message` ensures the destination and sends a frame without a receipt (the
broker takes it later, or drops it: `wire`), `resetStatistics` goes through the
queues of a topic and their counters and passes failures over.  `lost` says for
which requests the queue was removed behind their `ensure_destination`; it
depends on the broker's activity only, not on what the adapter makes of an
answer.  Every call may
fail, and `BrokerActivity` of others comes between any two of them.

## What is checked

| run | question | bounds |
|---|---|---|
| `refresh` | Do the tabs ever show one broker while operations address another (`ConnectedToTarget`), is a read of another broker ever outstanding while they are open (`NoForeignRequest`), is a timer left behind the login window (`TimerHasOwner`), is a flag left behind otherwise than by a callback that throws on the response it got (`OnlyThrowsStick`), is refreshing really over then, for all sections and later logins (`StuckForGood`), does the cycle implement ConsoleSession, does every cycle end, is a login whose own refresh was dropped made up for by the timer? | two brokers, all kinds of failure, lists with and without a field missing, stomp-only mode, one operation; under fairness; 836,000 states |
| `queue` | Are the reports true, also of two runs that overlap because the tab was left and opened again, each name in exactly one place, the single deletion the one confirmed, each run an implementation of BulkCleanup; do deletions treat the session as ConsoleSession allows (`SessionSpec`), and does every run end, so that the button works again? | one broker, two queues, failures, two scopes, the single deletion; one queue in play once there are two scopes; under fairness; 434,000 states |
| `topic` | The first four questions of `queue` for topics | one broker, two topics, failures, the single deletion; two scopes while at most one topic is in play, the tabs are open and the timer is off |
| `topic_check` | Does a durable subscription that exists throughout the re-check protect its topic, do consumers that are there throughout (`OccupiedKept`), and does every run end, whichever read comes last or fails? | one scope, one topic in all five states; under fairness |
| `stomp` | Are handlers and timers left over those of the current client, is no connection subscribed twice, does the table hold the latest messages within its limit, does logging out hang up, is silence noticed? | three connections, a table of two messages, four messages per connection; under fairness |
| `artemis` | Do all calls for a request carry the same credentials, and its own unless it came without any or was overtaken (`CredentialsOfOne`), does `removeMessage` answer what it did and remove nothing else, is a message that was accepted dropped without somebody having removed the queue after `ensure_destination` (`SentIsQueued`), does a reset try everything? | both servers, two requests at a time, two users and requests without credentials, two messages, one queue, two counters |
| `details` | Once the last answer has come, does the list show the queue in its heading and nothing whose deletion was reported, do the details show the connection in their heading, does an undisturbed check give every subscriber its row? | one message two queues may have, two browses outstanding, two visits; two connections, two reads; two subscribers; one pane at a time |

Five further runs find a disagreement between the code and what it or its
documents say; each is a finding in `PROJECT.json`:

| run | what happens |
|---|---|
| `refresh_stuck` | A 502 with a JSON body, which the adapter sends, makes `handleApiError` throw before a section clears its flag: no refresh ever starts again until the page is loaded anew. |
| `queue_relogin` | A login to another broker during a check: the deletion goes to a broker that was not checked. |
| `topic_races` | The information is read while a topic has a plain consumer; a durable subscriber replaces it and goes offline; the topics are read: the topic is found eligible although it was in use all the time. |
| `artemis_credentials` | A request without credentials follows one that has some: `get_session` leaves the session as it is, and the call goes out with the credentials of the other (`OwnCredentials`). |
| `browser_reload` | The pane of a message is closed while its deletion is under way: the callback throws before it browses the queue again, and a browse in flight shows the deleted message once more. |

Behaviours met while modelling that have no run of their own, because nothing in
the repository says otherwise or because what they touch is left out:

* The automatic logout of a 401 is undone when an info answer in flight arrives
  after it (`refreshInfo` sets `connected` without asking; VERSION.md, v1.13,
  speaks only of the logout).
* Refresh pressed in the stomp-only mode before any login sets the connections
  flag and then throws (`Flagged` in RefreshCycle).
* A bulk deletion that ends during a refresh cycle has its final refresh dropped
  (`RefreshAll` in ConsoleSession).
* The adapter's `jolpost`, overtaken while it awaits its body, goes on with the
  credentials of the request that overtook it: an exception `CredentialsOfOne`
  states, and another way to refute `OwnCredentials` than the one its run shows.
* A list that comes with a row that lacks `ClientId` or `Subscriptions` leaves its
  flag set like the 502 of `refresh_stuck` (`ListRead` in RefreshCycle).
* `deleteMessage` addresses `/api/jolokia/exec/...` with a POST, for which
  neither proxy has a route, so behind a proxy it fails with a 404; in front of a
  broker it reports success without reading the answer's value.
* The destination of a message on display is that of the queue details, not that
  of the list, so a message from an old list is deleted from the wrong queue, in
  vain (`ShowQueueMessageDetails`).
* Lists in the panes stay when the user logs in to another broker.
* The Refresh button of the connection details stays hidden after a failed read,
  and when `showConnection` led there, since `detailsComputingUnderway` is not
  cleared (`DetailsFailed`, `RefreshCurrentConnection`).
* Two overlapping checks give subscribers two rows; `CheckIsComplete` is about a
  check that no other overlapped.
* The classic proxy answers HTTP 200 to a message whatever the broker said.

**Bounds.** Two brokers are enough for "another broker", since no handler
compares more than the current URLs with those a request was sent to. Two
queues (or topics) distinguish the name at hand from those to come, and one
already decided from one yet to be; two scopes are the least that overlap, and
the scopes share only `currentQueue` or `currentTopic`, the session and the
broker, so that one queue in play shows what overlapping runs do to each other; two messages of which one fails to be removed, two requests of which
one overtakes the other, two reads of which the older is answered last, are the
least that show what ordering can do. The runs about the report use two states,
since a queue or topic in use is skipped like one that is gone, and those about durable
subscriptions all five. `MaxOps` operations are interchangeable: they carry
nothing but their outcome. The failures stand for the classes `handleApiError`
distinguishes: logs out (401), stops the timer (403, -1), neither (500), throws
(502 with an object). The message table holds two messages instead of 1000 and
four arrive, so that it overflows twice and is cleared in between; of three
connections each can be one of the past, the current one, or the one to come.
`stomp` has one broker and one failure, a 401: the session takes part only by
opening and closing the tab. In `details` only requests without a reply fail,
as every other failure does the same to the panes; the panes share nothing but
the session, so one is used at a time (`OnePane` of MCDetailPanes), and while
the message browser is crowded (a second visit, a second browse, a deletion)
the session stays open, idle and without timer (`Crowded`, `Settled`). `topic`
bounds its overlap likewise (`SmallOverlap`). In `queue` the stomp-only mode is
entered only before the first run, no login or preference starts the timer
during a run, and beside a second scope or a single deletion the session moves
from outside only by failures and the logout (`RunInSession`, `Calm`); none of
these holds up a step of a run, of which fairness speaks. The theorems below lift all of
these bounds for the safety properties.

**Fairness.** In RefreshCycle the timer ticks as long as it is not cancelled,
and every read of a cycle is answered or fails, because its `$http` call has
`timeout: 5000`. `CyclesEnd` and `TimerRetriesLogin` except a section that is
`Stuck`, and `OnlyThrowsStick` says what it takes to get there. In QueueCleanup
`RunsEnd` further assumes that the POST of a deletion is answered or fails,
which the code does not enforce (it has no timeout; the hazard at
`AMQInfoFact.js:738` says so), and that the user answers the dialog; in
TopicCleanup likewise. Nothing is assumed of the user's other actions or of the
broker's activity. In StompClient the interval timer of the heart-beats ticks
as long as it is not cleared, and a socket that is closing is closed in the
end, which browsers enforce by a timeout; nothing is assumed of sockets that
connect.
The servers and the panes have no fairness: their properties are safety.

## What is proved

Safety, for all brokers, queues, failures and bounds, in modules of their own:

* `RefreshCycleProofs`: `TypeCorrect`, `TabsShowTarget` (`ConnectedToTarget`),
  `NoForeignAnswer` (`NoForeignRequest`), `TimerStops`, `StuckByThrows`
  (`OnlyThrowsStick`), `StuckStays` (`StuckForGood`), `Implementation`
  (`ImplementsSession`).
  The properties are not inductive by themselves.  That no foreign read is
  outstanding when an info answer opens the tabs depends on why that info read
  could be issued, which is long past.  The invariant `IInv` adds: a flag covers
  every outstanding request (`FlagCoversRequest`); `connecting` is exactly an
  outstanding info read (`ConnectingIsInfo`), which is what hides the Connect
  button; while an info read is outstanding every read of the cycle addresses the
  target (`CycleOfTarget`); and a console that is connected outside the
  stomp-only mode has prepared URLs (`Prepared`).  It is a flag too many, never a
  flag too few, that the throwing handler causes, so the invariant holds with
  every kind of failure.  `StuckByThrows` names the three ways to a flag too many,
  each by the response that was given, and `FlagsTrueIfNoThrow` draws the line
  around the finding of `refresh_stuck`: where no failure makes the handler throw,
  no list is incomplete and the
  stomp-only mode is not used, `FlagMeansPending` holds.  The effect of failures
  on the session is cited from `ConsoleSessionProofs` through an instance
  (`Facts`), with `isRefreshing` for `busy`.
* `QueueCleanupProofs`: `TypeCorrect`, `ReportsAreTrue`, `NamesAccountedFor`,
  `SingleAsAsked`, `Implementation` (`ImplementsCleanup`).  Its invariant is a
  conjunction over scopes, `RunInv(v)`, with two clauses the properties lack:
  an outstanding request has an addressee (`Addressed`), and the name at hand is
  recorded as removed exactly when its deletion was served (`Recorded`).  A
  step of one scope leaves the other scopes' variables alone (`Elsewhere`), so each
  action is proved for its own scope only.  `DetailsStay` strengthens
  `SingleDeletesAsked`: while its dialog is open the details either still show
  the queue it named or have been closed.  From the refinement follow, through
  an instance of `BulkCleanupProofs` (`Contract`), `RemovesAgreed` and
  `RequestedOnSight`.  `RecheckedIfOneBroker` draws the line around the finding of
  `queue_relogin`: with a single broker to log in to, `RecheckedWhereDeleted`
  holds; its invariant `CheckedInv` says that a check is outstanding at the
  broker that will count as checked.
* `TopicCleanupProofs`: the same five theorems for the topics, `RemovesAgreed` and
  `RequestedOnSight`, and `OccupiedTopicsKept` (`OccupiedKept` of TopicCheck).  The invariant adds
  that a run which checks has names left (`Offered`) and that its reads are over
  when it goes on (`ReadsOver`); as several names are skipped in one step,
  the accounting is an argument about sets (`Decision`).  For the durable
  subscriptions `KeptInv` follows the information read: until it is processed,
  what was kept is still protected by the broker; from then on it is in what was
  read; at the end it is not among the eligible.  `MannedInv` follows the read of
  the topics in the same way for the consumers.  `CheckStep` says what any step
  may do to a check, so that the history is argued about once and not per action.
* `StompClientProofs`: `TypeCorrect`, `CallbacksOfCurrent` (`OnlyCurrentListens`),
  `SubscribedAtMostOnce`, `TableIsLatest` (`NewestFirst`),
  `LogoutIsComplete` (`LogoutHangsUp`).  The invariant `SocketsInOrder` adds that
  only a greeted socket is subscribed on, and that sockets not yet made are
  blank; `HungUpIsDead` shows what hanging up leaves of a socket, and
  `DisconnectEffect` that `factory.disconnect` keeps the order whether or not
  it throws.  `ListedNewest` is the argument about the table, for every limit.
* `ArtemisAdapterProofs`: `TypeCorrect`, `CredentialsKept` (`CredentialsOfOne`),
  `RemovalsReported`, `SentMessagesQueued`, `ResetsTryAll`.  What a request is
  answered is right because of what was so while its handler ran, and the
  invariant says what: the session holds the credentials of the handler that owns
  the event loop, or that handler was overtaken or its request has none, and what
  it has called with so far is what the session holds (`SessionOfRunning`); the number
  resolved is that of the message asked for, and what was removed stays gone
  (`Removals`); behind `ensure_destination`, until the broker comes to the frame, the
  queue exists or somebody has removed it (`Frames`); what a reset has
  not tried is still before it (`Resets`).
* `DetailPanesProofs`: `TypeCorrect`, `ListFits` (`FreshIsShown`),
  `ReportedAreGone` (`ReportedNotListed`), `DetailsFit` (`DetailsShown`),
  `ChecksComplete` (`CheckIsComplete`).  The properties are about the time after
  the last answer; the invariant is about the time before it.  While the window
  is open the last browse asks for the current queue and has not seen what has
  been reported deleted since (`LastBrowse`), which holds because details that
  change close the window, windows of scopes to come are shut (`Windows`), and
  a deletion that is reported with the window open browses again; what was
  reported is gone from the broker, so that no later browse sees it
  (`Deletions`).  `LastRead` says the like of the connection details.
* `BulkCleanupProofs`, about the contract alone: `AgreedOnly`, `NoneTwice`,
  `SeenFirst`.  The invariant keeps the books of one run (`Books`): what it has
  removed, is removing and may still remove are apart and were agreed to.
* `ConsoleSessionProofs`: the lemmas about the session and the error handler
  that all the others rest on, `SessionWellFormed`, `SessionTimer`
  (`TimerHasOwner`) and `SessionBroker` (`BrokerStays`).
* In `QueueCleanupProofs`, `TopicCleanupProofs`, `StompClientProofs` and
  `DetailPanesProofs` besides: `ImplementsSession` (`SessionSpec`), from which
  follow `TimerOwned` (`TimerHasOwner`) and, for the deletions, `BrokerKept`
  (`BrokerStays`).  A handler issues a request only when the URLs have been
  prepared, but its answer comes later; so the invariant adds that whatever is
  outstanding was asked for with URLs, which are never taken back
  (`SingleAddressed`, `PanesAddressed`).

The proofs assume only the `ASSUME`s of the modules (the null values are not
members of the sets, the bounds are numbers, failures have a status and a
Boolean), which TLC evaluates on every run.  Two theorems have hypotheses of their
own and say where a finding ends: `FlagsTrueIfNoThrow` and
`RecheckedIfOneBroker`.  Both describe installations there are (a broker reached
without the adapter, a single broker); without the hypothesis the property fails, as
`refresh_stuck` and `queue_relogin` show.

**Only model-checked:** the liveness properties (`CyclesEnd`,
`TimerRetriesLogin`, `RunsEnd`, `SilenceNoticed`).  The prover does not handle
liveness under fairness.  `EligibleWasUnused`, `DeletedNotListed` and
`OwnCredentials` fail, and no constant sets apart the cases where they do;
`OccupiedKept`, `ReportedNotListed` and `CredentialsOfOne` are the parts of them
that hold.

## Plan

The most important behaviour came first: the session, then the irreversible
operations, then the servers and the panes.  In this order, all done:

1. `ApiErrors`, `RefreshCycle`, `ConsoleSession`, `QueueCleanup`, `BulkCleanup`
   and their proofs.
2. `TopicCleanup` (composed with ConsoleSession, implements BulkCleanup) and
   `TopicCheck`, with their proofs.
3. `StompClient`, composed with the session for `disconnectAMQ`, with its proofs.
4. `ProxySession` and `ArtemisAdapter`: the shared session across awaits, and
   compound operations of which a part fails, with their proofs.
5. `MessageBrowser`, `ConnectionDetails`, `SubscriberCheck` and their composition
   `DetailPanes`, with its proofs.

6. The contracts themselves: every component implements ConsoleSession, and what
   ConsoleSession and BulkCleanup promise is proved once and cited.

What would come next: the match of topics with `activeConnections` of another
cycle (`computeActiveConnections`), the windows of statistics, and the settings
that two forms store under the same keys.

## Not modelled

The program's own code is some 4,400 lines of JavaScript, HTML and Python; the
other lines of the repository are vendored libraries, their examples and
stylesheets.  Of the program's own code, these parts have no module:

Texts (toasts, `connectionError`), sorting and filtering of tables, charts and
layout, the Information tab: presentation without a state change that another
component reads.  The Send tab is a form and one POST (an operation of
RefreshCycle).  `httpRequestInterceptorFact.js` adds a header to each request and
`Base64Fact.js` is a vendored encoder.  The scripts of `src/DockerImage` edit
configuration files once.  `src/bower_dep` and `src/libs` are third-party: what
`$http`, `$q`, `$interval`, `$confirm` and `ng-include` do is modelled where
`src/JS` uses them, and such definitions are marked external in the map.
Preferences (three `localStorage` keys read at load and written on Save and
Connect) and the statistics of `refreshQueues` and `ProcessorFact.js` (windows of
values that only charts read) are state that nothing else depends on.  Of the
servers the translation of names and answers is left out, and
`read_connection_view` with its fallback, which reads only.  Of the subscriber check
the verdict `isOk` is left out, and the rows of durable subscribers that
`refreshTopics` reads itself.  `src/server` is the whole of the server side: the
broker is modelled from how it is called.
