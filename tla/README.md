# Chat Analyzer AI: verification project

TLA+ models of the parts of Chat Analyzer AI whose correctness depends on the
order of events: the realtime channel, sessions, the rate limiter, the AI layer
with the connections and threads it takes, and the three stateful parts of the
browser client. TLC checks them on small instances; TLAPS proves the core of all
of them, and that the realtime half implements an abstract chat log, for every
value of their constants.

    tlc -workers 2 -config MCRealtimeUsers.cfg MCRealtime     # a run
    tlapm RealtimeProofs.tla                                  # proofs

Each source line a definition stands for is in `PROJECT.json` under `map`.

## 1. The system

One FastAPI process (asyncio, one event loop, SQLAlchemy async sessions over
PostgreSQL) and a React single-page app. One process is an assumption of the
code (`scaling.py`): the connection registry and the rate limiters are in memory.

| Component | State it keeps | Operations | What makes it correct |
|---|---|---|---|
| WebSocket endpoint (`routes/websocket.py`) | where each handler is; its user | accept, first-frame handshake with timeout, ping, message, every way to end | only proved identities receive anything; handshakes resolve; a vanished client's handler ends |
| ConnectionManager (`realtime.py`) | user to set of sockets | connect, disconnect, send_to_user | no live socket falls out; each is told once, in one order; dead ones are dropped |
| Message service (`crud.py`, `routes/messages.py`) | messages, sentiment | create (both transports), delete, paginated read | announced after commit; ownership; no rows without author |
| Accounts and sessions (`routes/users.py`, `auth_utils.py`, `models.py`) | users, refresh_tokens, the cookie | register, login, refresh (purge, rotate), logout, delete account | one account per name; sessions die with their account; rotation neither loses nor doubles a session |
| Rate limiter (`ratelimit.py`) | buckets of recent hits | retry_after, eviction, clear | budget per window, truthful Retry-After, bounded table |
| Client session (`auth/AuthContext.tsx`, `apiClient.ts`, `auth/token.ts`) | access token, provider state, the refresh in flight | boot, renew, expiry timer, 401 rescue, sign in and out | one refresh at a time; the gate opens; calls settle; a failure clears only its own session |
| Client socket (`realtime/useChatSocket.ts`, `protocol.ts`, `pages/Chat.tsx`) | connection, pending send, heartbeat | handshake, send over socket or HTTP, echo, timeout, ping, close | one row and one verdict per submission; silence is noticed |
| Message feed (`queries/messages.ts`, `messages.ts`) | paginated cache | read a page, re-read all, load older, merge, remove | shows what the server has; the history can be loaded to its start |
| AI layer (`ai_utils.py`) | loaded models, failure records, one lock, memo of scores | load, warm up, score, report status | a model is loaded once; its status is truthful; chat loses at most a score |
| Summariser (`ai_utils.py`) | none | chunk, map, fold | nothing left out; calls fit; it ends |
| Database engine, executor (`database.py`, `config.py`) | connections checked out, threads busy | checkout, timeout, return | every job ends, whoever holds what |
| Analytics (`routes/analytics.py`), lifespan and readiness (`main.py`) | none that others read | score, daily summary, timeline, warm-up, probe | jobs of the AI layer |
| Middleware, logging, worker guard, pages, migrations | none that others read | | not modelled |

How they interact. The browser's `AuthProvider` holds an access token that the
HTTP client and the socket's first frame carry; the refresh cookie is shared by
all tabs of the browser. A message enters by socket frame or by POST, is written
by `crud.create_message` and fanned out through the ConnectionManager to all
sockets of its author (a deletion likewise). The author's own tab takes the
fan-out's echo, recognised by a `client_id`, as the confirmation of its send.
Deleting an account cascades in the database but tells no socket. Between its
insert and its commit, a message is scored in a thread of the executor, which may
have to wait for a thread, for the load lock and for a load; its session keeps a
connection of the pool all that time, which reads, deletions and probes need too.

What is hard:

- every `await` of a handler is a point where other handlers, requests and
  transactions run: the fan-out iterates over a copy while sockets come and go,
  a row may vanish between commit and refresh, an account under an open socket;
- READ COMMITTED transactions that check, then write, without row counts;
  row locks taken in different orders by the purge and by the cascade;
- clients that vanish or stop reading, frames lost with a connection, responses
  lost after a commit, cookies that change order;
- timers that race answers: auth timeout, echo timeout, heartbeat, token expiry;
- React's effects, which run after the state they depend on has changed;
- threads, one lock around downloads, a pool and an executor that are waited for by
  jobs that hold the others; state read outside the lock;
- a cache filled from pages of one moment and announcements of another, with a
  cursor taken from a row that commits may still overtake.

The full list, at its lines, is `hazards` in `PROJECT.json`.

## 2. The modules

| Module | Models | Checked by |
|---|---|---|
| `Realtime` | websocket endpoint, ConnectionManager, message writes of both transports, account deletion | `MCRealtime*.cfg`, proved in `RealtimeProofs` |
| `ChatLog` | the abstract promise of the realtime half, without handlers, awaits, transactions or a registry | implemented by `Realtime` (`ImplementsChatLog`), proved in `RealtimeProofs` |
| `AiLayer` | model loading, warm-up, status, the memo, and the pool and executor that requests share with it | `MCAiLayer*.cfg`, proved in `AiLayerProofs` |
| `Summary` | the map-reduce of the daily summary | `MCSummary.cfg`, proved in `SummaryProofs` |
| `RateLimiter` | one `SlidingWindowLimiter` and `_enforce` | `MCRateLimiter.cfg`, proved in `RateLimiterProofs` |
| `Sessions` | `routes/users.py` over `users` and `refresh_tokens`, and cookie jars | `MCSessions*.cfg`, proved in `SessionsProofs` |
| `AuthProvider` | one page load's session in the client | `MCAuthProvider*.cfg`, proved in `AuthProviderProofs` |
| `ChatSocket` | the realtime hook and composer of the tabs of one browser, against a server that behaves as in `Realtime` | `MCChatSocket*.cfg`, proved in `ChatSocketProofs` |
| `MessageFeed` | one tab's paginated cache, against the paginated read and announcements that may be lost | `MCMessageFeed*.cfg`, proved in `MessageFeedProofs` |

Every module starts with its CONSTANTS and the named assumption about them, then
VARIABLES, `Init`, one action per operation or step, `Next`, `Spec` (and `FairSpec`),
`TypeOK` and the properties, each with the code behaviour it is about. Operators
named `Mut...` are not part of the model: each is a plausible bug in the
definition after it (a dropped guard, a swapped order), and substituting it must
make one property fail. `PROJECT.json` pairs them under `mutants`.

### Realtime

One action is what one coroutine does between two awaits that let somebody else
in. A handler's place is `phase` (new, accepted, lookup, found, greeting, open, closed):
`Accept`, then `AuthTimeout`, `BadFirstFrame` or `FirstFrame`, then the lookup of the user
(`LookupFinds`, `LookupFails`, `LookupRaises`), then `Register` (connect and the start of the
`auth_ok` write run without a suspension in between), then `Greeted` or
`GreetingFails`. An account may be deleted between its lookup and the registration. `task` is the write a handler or
request is in the middle of: `SocketMessage` / `RestCreate`, `Insert` (flush, row locks
and foreign key), `Commit` (after the sentiment thread, whatever it returned), `Refresh`, `Announce` (copy of the set, the gather starts
and each frame is written), `SendReturns` per target, `FinishSend` (the failed are
dropped). `RestDelete`, `CommitDelete` and then the same fan-out. Each step that
asks something of the database may raise instead (`InsertFails`, `CommitFails`,
`RefreshFails`, `DeleteFails`): a refresh also with the row stored, because it needs a
connection again that the commit has given back. A socket's handler then ends, a
request answers 500. `DeleteAccount`
waits for uncommitted inserts of the account, as the foreign key makes it, and
cascades. `peer` is the client's end: up, gone, or stalled (reads nothing). `wire` is
all that was ever put on a connection, so that properties can speak of what a
tab has been told.

Abstracted: texts, timestamps, the sentiment row (a commit happens with or
without one), frame fields except the ones that identify user, message and sender.

### ChatLog, and how Realtime implements it

`ChatLog` knows accounts, messages that are absent, stored or gone, sockets that are
joined as a user or not, what a writer has done and still owes to say, and what
each socket was told. `Announce` tells all sockets joined as that user at once and
nobody else. The refinement mapping is at the end of `Realtime`:

| `ChatLog` | in `Realtime` |
|---|---|
| `status[m]` | stored from the commit on, not from the insert; gone with the row |
| `owner[m]` | whose message it was stored as, also after it is gone |
| `owed[w]` | the frame of a write between its commit and the start of its fan-out |
| `joined[s]` | the user of a socket that is registered, whose client is there and whose handler has not ended |
| `told[s]` | `wire[s]` |

`Register` with the `auth_ok` is `Join`; the end of a client or of a handler is `Leave`;
a fan-out's start is `Announce` (`SendReturns` and `FinishSend` are stutters); a refresh that
raises is `Forget`, and a stored message then stays unannounced. The mapping of `joined` looks at the
handler and the client, not at the registry. That both agree is an invariant
(`RegisteredOpen` and `RegistryComplete`), and is what the implementation rests on:
a socket dropped from the registry too early would not be told.
`ChatLog` states no more than the code keeps: a message may be removed twice, with an
announcement each, an announcement may come after the message is gone, the
announcement of a creation may be dropped with the failure of its writer, and a
socket may join as a user that has just been deleted.

### AiLayer

A job is a request, a frame or the warm-up; `at` is where it is: connecting,
querying, queued for the executor, scoring, locking, loading, publishing,
inferring, returned, refreshing, announcing. `conn` is whether it holds a
connection. `chat` stands for what only queries: history, deletions, probes, the
timeline. `create` is either transport's write, `score` the synchronous route with
threads of its own, `daily` the summary, which makes `left` model calls one after the
other. `_load_pipeline` is `TakeLock`, then `ImportFails`, `LoadFails` or `LoadSucceeds` and
`Publish`, because readiness reads both tables between the last two. A loader that
returns or raises goes where its caller goes (`LoaderReturns`, `LoaderRaises`): the
warm-up to the next model, and after the last one the lifespan yields (`serving`).
`Commit` gives the connection back and `Refresh` checks one out again, which may time
out; a frame's session ends before the fan-out, a request's after it.

### Summary

Texts are their numbers of words, chunks the words they span. `Split` is an iteration
of `_chunk_words`, `JoinTail` what follows the loop, `Map` a model call, `Fold` a pass over the
partial summaries. A call may answer any number of words. The size of a joined
tail counts the overlap twice, as the code's string does. The limit is in words,
like the code's; that a chunk and a half of words is within the model's limit of
tokens is an assumption the code makes.

### RateLimiter

`RetryAfter(k)` is one call, which never awaits: `KnownKey` pops what left the window
and decides, `NewKey` makes room first, `NoRoom` fails open. `Tick` is the clock, in
fractions of a second (`TicksPerSecond`), so that the rounding of `Retry-After` is
visible. `admitted` is a history variable: everything that was let through and
counted, which buckets forget.

### Sessions

A request goes sent, looked, (locking,) replied. The steps are its SELECT, its
flush and commit, its lock waits, its response. `purged` are expired rows a refresh
has deleted and not committed; others wait for them (`HeldBesides`), and an account
whose deletion waits for its cascade is `Locked`. `Deadlock` is PostgreSQL ending one
transaction of a cycle. `Lose` drops a request or response. `used`, `out` and `raced`
are history: how often a token was spent, what a logout revoked, which logins
ever had two requests in flight at once.

### AuthProvider

An action is one JavaScript task with the promise continuations it releases.
`token` is React state and `shown` the token the effects last ran for: between the
two, the seams (`setSessionRefresher`, `setUnauthorizedHandler`) and the timer are
those of the old token. After a click there is nothing between the two: React commits
a click's update and flushes its effects before another task runs, so `SignOut`
clears timer and seams itself. `Unreadable` are tokens whose expiry the app cannot
read, which `RunEffects` drops. `waiters` are the callers that await `refreshInFlight`;
`Settle` answers all of them in the task in which the call settles. `RefreshFails`
has, in order, the provider's own check (`memory = before`), the timer's
continuation and the API calls' unauthorized handler.

### ChatSocket

`ready` is the browser's socket, `authed` the user it authenticated as, `queue` what
react-use-websocket keeps for the next connection, `up` and `down` the two
directions of the connection, `peer` the server's handler. `SendOverSocket` and
`SendOverHttp` are the composer's two transports; `Echo`, `EchoTimeout` and `Closed`
give a verdict. The library is external: modelled from how the hook uses it (it
reconnects unless told not to, keeps what is written to a socket that is not
open, and reports a close once). When a connection ends (`Disconnect`), what the tab has
not handled is lost, and of what it sent any number of frames has been received:
the server's handler still stores and announces those messages (`late`, `StoresLate`,
`LateFails`), also to the tab's next connection. `Reload` is a page load: `sequence` starts
again, and the pending send is nobody's any more (`abandoned`). `origin` is history, the
page a send came from.

### MessageFeed

`row` and `ts` are the server's messages and their timestamps; `due` is what is on its
way to this tab, the frame of the fan-out and, for what the tab asked by HTTP, the
answer. Transactions overlap and a timestamp is the start of one (`func.now()`), so
messages commit in any order of `ts` and of id. `pages` is `data.pages`, newest first. A
fetch takes its steps apart: `Refetch` or `LoadOlder` starts it, `ListMessages` is the
server's read, `PageArrives` hands the page to the library. A refetch (a mount, or
the network's return) reads as many pages as were loaded, each with the
cursor of the one before; an older page is appended to what the cache held when
it was asked for, and cancels a refetch. Either way the result overwrites
what frames wrote meanwhile: that is the library, external here. `PageFails` is a
retry, which `queries/client.ts` bounds, `FetchFails` the end of one that
leaves the cache alone, `Forget` the garbage collection of a feed nobody shows.
`Before` is the server's order, `CompareKey` the client's: it compares printed
timestamps, and a whole second is printed without a fraction.

`floor`, `missed`, `crossed`, `skipped` and `overtaken` are history variables and steer nothing:
how far back has been read, which messages the cache may be wrong about, whether
something crossed the fetch in progress, what a cursor left out, whether a message
became the cursor of the only page. They are what `FeedAccurate` has to except, and TLC
refutes it when any one exception is left out: the code does lose track of a message
announced to a dead socket, announced while a fetch is on its way (the
result overwrites it), announced after its own deletion, or skipped by a cursor.
`HistoryReachable` excepts a feed with deletions and one that was `overtaken`; both
exceptions have a configuration that shows them (`MCMessageFeedOlder.cfg`,
`MCMessageFeedCursor.cfg`), and so has the overwriting (`MCMessageFeedKept.cfg`).
`RefetchRepairs` is what puts an end to all of them.

## 3. The runs

| Run | Instance | Shows |
|---|---|---|
| `realtime_users` | 2 users, 2 sockets, 1 REST slot, 1 message, one pong or error per wire | `RegistrySound`, `FramesOnlyToAuthor`, `NoOrphanRows`, `TabsAgree`, `ImplementsChatLog` |
| `realtime_live` | 1 user, 1 socket that may stall, 1 REST slot, 1 message, `FairSpec` | `HandshakeResolves`, `NoSilentDrop`, `DeadSocketsReaped`, `WritersFinish`, `DeadOnesDropped` |
| `limiter` | 3 keys, limit 2, window 3 ticks, 2 buckets, 2 ticks a second, clock to 7 | `SlidingWindow`, `WaitIsExact`, `FailsOpenOnlyWhenFull` |
| `sessions_accounts` | 2 users, 1 name, 3 tokens, 1 browser, 2 requests, losses | `NoOrphanSessions`, `UniqueNames`, `SessionSurvives` |
| `sessions_live` | 1 user, 3 tokens, 2 requests, no losses, `FairSpec` | `SingleFlightIsSafe`, `JarHolds`, `RequestsFinish` |
| `auth` | 3 tokens, one of them unreadable, 1 API slot, `FairSpec` | `OneRefresh`, `BootSparesLogin`, `BootResolves`, `RequestsSettle`, `ExpiryHandled` |
| `socket` | 1 tab, 2 users, 2 sends, 3 connections, 2 page loads, `FairSpec` | `TypeOK`, `OnlyATwinMisleads`, `StoredOnce`, `SendsSettle`, `SilenceNoticed` |
| `feed` | 4 messages, 2 of them history, pages of 2, 1 retry, one message's announcements on their way at a time | `TypeOK`, `FeedAccurate`, `HistoryReachable`, `RefetchRepairs` |
| `ai` | 3 request slots and the warm-up, 2 connections, 1 thread, 2 models, 1 text, memo of 1, summaries of at most 2 calls, `FairSpec` | `LoadedOnce`, `StatusTruthful`, `OnlyTheScoreIsLost`, `JobsEnd` |
| `summary` | chunks of 6 words, overlap 1, texts to 21 words, answers to 7, 3 passes, `FairSpec` | `NothingLeftOut`, `CallsFit`, `SummaryComes` |
| `auth_signout`, `auth_login` | 3 tokens, no API slot | a counterexample each, section 5 |

What is proved for every instance and is not hard to keep on a small one is no part
of a run: the type invariants of `Realtime`, `RateLimiter`, `AiLayer`, `Summary`, `Sessions` and
`AuthProvider`, `SafetyInv`,
`RegistryComplete`, `AnnouncedAfterCommit`, `MessageToldOnce`, `TableBounded`, and the
inductive invariants of section 4. TLC found them to hold before they were proved.

Why the bounds are enough. The hazards are between two parties and one observer:
two writers of one row and a socket that is told; a sender and another tab that
comes or goes (of a third, the proof of `TabsAgree` speaks); a deletion against a creation; two requests with one
cookie, one of them against a purge; a login against a boot, a timer and a
rejected call; an echo against a timer, a close and a page reload, with one
reconnection before and one after; a fetch against a commit, a deletion and a lost frame. Each instance has at least those. Slots (`Requests`) are reused, so
the number of requests over a run is not bounded by them. Ids are used up
(`Messages`, `Tokens`, `Users`), connections (`MaxOpens`), page loads (`MaxLoads`) and the clock (`MaxTime`)
too: a request that would need an id none is left for is not sent (`IdsLeft`,
`TokensLeft`), rather than failing in a way the code cannot. `MaxWire` and `MaxQueue`
only keep pings and junk from filling wires; they never hold back a message, nor
what is written to a client that has gone, where a write shows nothing.
In `MCAiLayer` two connections and one thread for four jobs make each resource the one
that is short: two jobs that hold connections while a third waits, one in the
thread while another is queued, one that loads while another waits for the lock.
Three requests are the fewest with a loader, a waiter and one that retries; `chat`
jobs are left out of the instance because every other kind does the same when
its query answers it. `MCSummary` covers every length up to three and a half chunks. With chunks of 6 words
and an overlap of 1 a tail of 2 words is short and joined (a text of 7 words, of 12
and of 17) and one of 3 is not, so that both outcomes of each test of the code occur.
`MaxDue` lets one message be announced at a time, with its frame and answer, its
creation and deletion in any order. In `MCMessageFeed` the timestamps (`Clocks`) hold
what makes cursors hard: a tie across the boundary of two pages, a whole second
that prints behind a later instant, and a message that commits last but started first.

`CHECK_DEADLOCK FALSE` is in every configuration because the system may really
stop: the clients have all gone, or the ids, tokens, connections or clock ticks
of the bound are used up. That nothing waits for ever is what the liveness
properties say.

Symmetry is declared for safety runs only, over sets whose elements the model
never distinguishes; the instances that check liveness have none.

### Fairness

- `Realtime`: the event loop runs every coroutine that can go on (weak fairness of
  each writer's step, of the user lookup, of reporting a disconnect), the auth
  timeout is a loop timer, and the server's keepalive ends a stall. A send or
  greeting to a client that stalls on and off has been woken once it could
  return, hence strong fairness. Clients owe nothing.
- `Sessions`: handlers run, and the database ends lock waits and deadlocks.
  Browsers owe nothing, and tokens need not expire.
- `AuthProvider`: React runs effects, timers fire, and a fetch is answered or
  fails. Users owe nothing: no fairness for logins, clicks or new calls.
- `ChatSocket`: timers fire and the browser completes a close it was asked for.
  The server and the network owe nothing, which is what the timers are for.
- `AiLayer`: the event loop and the threads run, loads and inferences return or
  raise, the keepalive ends a fan-out, and `pool_timeout` is a timer. A thread that
  waits for the load lock gets it although others may take it first, any number
  of times: strong fairness. Nobody owes a request.
- `Summary`: the thread runs.
- `MessageFeed` has no liveness property, since a feed is read when the user asks for
  it; its `FairSpec` (a request is answered or fails) is that of one counterexample.

## 4. The proofs

`RealtimeProofs` proves, for every finite or infinite choice of users, sockets,
requests and messages, from `ConstantsDistinct` alone (the null values are not
members, request and socket names differ):

- `TypeCorrect`: `Spec => []TypeOK`.
- `InvariantHolds`: `Spec => []SafetyInv`, and from it `RegistryIsSound`,
  `RegistryIsComplete`, `MessagesStayPrivate`, `AnnouncedIsCommitted`,
  `AccountsLeaveNothing`.

None of the five is inductive by itself. That a frame is about its author's
message needs to know what the write in progress knows (`TaskInv`: the message of
a task is its user's, was committed before it is announced, and a socket's task
writes as the socket's user). That in turn needs that two writers never score one
row (`ScoringApart`) and that a row with an author is not free (`FreeUnowned`);
`RegistryComplete` needs that the sockets a fan-out drops are gone or closed (the
last conjunct of `TaskInv`); `RegistrySound` needs that a handshake has neither
written nor registered anything (`PhaseInv`). The proof has one lemma per
action, and frame lemmas for what an action leaves alone.

Its second half proves `RealtimeIsChatLog`: `Spec => ImplementsChatLog`. It shows, action by
action, that a step of `Realtime` is the step of `ChatLog` named above or a stutter, from
`TypeOK`, `SafetyInv` and `RegisteredOpen`, which it proves first. `ChatLog` being a safety
specification, what is proved is that an announcement is made once, after its
commit, to all sockets joined and to nobody else; that it comes at all, in the end,
is not. Then the proof uses what it has shown:

- `TabsShowTheSame` (`TabsAgree`), `ToldOnceOnly` (`MessageToldOnce`).

A step either tells every socket joined as a user the same frame, and nobody else
anything, or tells nobody of a chat frame. So of two tabs of a user the n-th chat frames
from the end agree before a step, and agree after it. `TabsAgree` counts from the end
because the older tab was told more before the younger one joined. `MessageToldOnce`
rests on `ToldInv`: of a message that is free, or stored and not announced yet, nobody
was told. That follows no more from `ChatLog`, where several writers may owe one frame:
in `Realtime` a message has one creator.

`AiLayerProofs` proves, from `AiAssumption`, for every number of requests, threads,
connections, texts and calls:

- `TypeCorrect`, `ModelsLoadOnce` (`LoadedOnce`), `StatusIsTruthful` (`StatusTruthful`), and, of
  steps, `MessagesSurviveTheAiLayer` (`OnlyTheScoreIsLost`).

`AiInv` is the inductive invariant. `LoadedOnce` alone is not one: that nobody else loads
needs that who loads holds the lock, which needs that the lock is given back by
its holder only. `StatusTruthful` needs that the record of a failure is gone before the
model is published, and that nobody else's failure comes in between. `WellFormed`
says which kinds of job get where, without which a message could leave by an
analytics answer, or a summary make a call it has not left.

`SummaryProofs` proves, from `SummaryAssumption` (the overlap is smaller than a chunk),
for every size of chunks and every length:

- `TypeCorrect`, `EveryWordIsInAChunk` (`NothingLeftOut`), `EveryCallFits` (`CallsFit`).

`SummaryInv` is the inductive invariant: all chunks of the loop but the last are full,
each starts where the one before ends less the overlap, and the loop variable is
where the last one says.

`SessionsProofs` proves, from `ConstantsDistinct`, for every set of users, names, tokens,
browsers and requests, with losses or without:

- `TypeCorrect`, `SessionsDieWithAccounts` (`NoOrphanSessions`), `NamesAreUnique`
  (`UniqueNames`), `RotationLosesNothing` (`SessionSurvives`), `RotationsReplace` (`OneAtATime`).
- where no response is lost (`~Lossy`, as in the run `sessions_live`), `JarsHold` (`JarHolds`) and
  `SingleFlight` (`SingleFlightIsSafe`).

`SessionInv` is the inductive invariant. `SessionSurvives` alone is not one: a rotation
replaces what it deletes only if the row it goes by is of the account whose user it
read (`RequestInv`, since a row's owner never changes), if a new token descends from
a login of the same account (`RowInv`), and if everything else it purges really has
expired (`RequestInv`). `WellFormed` says what a request of each kind carries at each
step; `OneAccountEach` is `UniqueNames` without the cardinality. Every write of rows is
an instance of one of two lemmas: `NewRow` (a login or a rotation) and `RowsGo` (a
logout or a deletion).

That a login keeps to one live token needs, even with losses, that its requests
come one at a time and a rotation under way is of the one live token (`OneAtATime`).
The rest is about cookies: one on its way to a browser is nobody else's
(`NewCookieInv`), one in a jar is unspent or its replacement is on the way
(`HeldCookieInv`), and the live token of a login is the one its browser holds or will be
given next (`LatestInv`). These three need `~Lossy`: a lost response leaves a browser with
a spent cookie, and a logout with that one revokes nothing. `SingleFlightIsSafe` then
says in full what `OneAtATime` says half of: a logged-out login has no live token.

`RateLimiterProofs` proves, from `LimiterAssumption` (limit, window and resolution
positive, as `config.py` demands), for every set of keys:

- `TypeCorrect`, `BucketsAreRecent` (`WindowInv`), `WindowIsKept` (`SlidingWindow`),
  `TableIsBounded`, `RefusalsAreFull` (`RefusalInv`), `WaitsAreExact`, `HeadersRoundUp`, `FailsOpenWhenFull`
  (`FailsOpenOnlyWhenFull`).

`WindowInv` is the inductive invariant: a bucket is the recent end of what was
admitted, and everything admitted that it lacks has left the window. It is kept
by popping (what is popped is expired), by eviction (an evicted bucket's newest
hit is expired) and by admission (fewer than `Limit` in the bucket, so the
`Limit`-th before the new one is not in it, so it has left the window).
`WaitIsExact` and `HeaderRoundsUp` rest on `RefusalInv`: what a refusal leaves behind stays
as it was until the clock moves on. `WindowInv`, `RefusalInv` and `HeaderRoundsUp` hold in
the instance of `limiter` too; being proved, they are no part of the run.
`FailsOpenOnlyWhenFull` needs that where `_make_room` finds no room it has left live
buckets only, and that such a table stays as it is until the clock moves on
(`FullOfLive`): another uncounted attempt purges nothing more.

`AuthProviderProofs` proves, from `ConstantsDistinct`, for every set of tokens and API calls:

- `TypeCorrect`, `RefreshesAreShared` (`OneRefresh`) and, of steps, `BootKeepsItsHandsOff`
  (`BootSparesLogin`).

`TypeOK` and `OneRefresh` together are inductive. `BootSparesLogin` rests on a lemma: of all
steps, only a failing refresh ends a renewal without a token handed out, and a
failure that nobody but the boot waits for compares `memory` with `before`.

`ChatSocketProofs` proves, from `ConstantsDistinct`, for every set of tabs, accounts and
submissions, and every number of connections:

- `TypeCorrect`, `NothingIsStoredTwice` (`StoredOnce`), `PagesConfirmTheirOwn` (`OnlyATwinMisleads`).

`SocketInv` is the inductive invariant: a submission's frame is at one place only, in one
tab's queue, on one connection or received by a handler that outlives its
connection (`LineInv`); what is on its way is not stored yet (`SendInv`); a pending entry
is one tab's and without a verdict (`PendingInv`); an echo on its way stands for a row
(`EchoInv`). What it gives of a confirmation is that *a* row was stored under its
`client_id` (`ConfirmedIsKnown`). `CounterInv` adds that the sends of one page have
different ids; so the row is the submission's own, or another page's, a tab's or an
earlier load's. The latter happens (section 5), and nothing else does.

`MessageFeedProofs` proves, from `FeedAssumption`, for every finite set of messages, size of
pages, number of retries and choice of timestamps:

- `TypeCorrect`, `FeedIsAccurate` (`FeedAccurate`), `HistoryCanBeRead` (`HistoryReachable`)
  and, of steps, `RefetchesRepair` (`RefetchRepairs`).

It begins with what the operators do: a sort puts out every element once, in order
(`Sorted`: the ranks of a finite set are an injection into as many numbers, so each
is taken); a page read below a cursor holds all of it or the newest (`PageRead`); the
merge and the filter add and take away one message (`Inserted`, `Removed`). `FeedAccurate`
needs to know that what a fetch has read so far, or starts from, is right about
every message of which nothing was heard since it began (`FetchInv`), and that
announcements are of rows in the state they announce (`DueInv`). An older page fits what it is
appended to because its cursor is shown there, and what lies between the cursor
and the floor is `Skipped`. `HistoryReachable` needs that a page which
lost nothing stays full (`PagesInv`), and that of a feed that was not overtaken the
last page begins at the floor (`CursorInv`), so that no cursor skips anything
(`NothingBetween`). Its exceptions are part of the theorem: a feed in which a message was
deleted, one whose only page took in a message dated before what had been read, and
the messages the tab was not told of. For the proofs a filter is stated by the
places it keeps (`Without`), since the library's `SelectSeq` is recursive.

Only model-checked is liveness, which is outside the prover's reach, as are ENABLED
and induction over data: `HandshakeResolves`, `NoSilentDrop`, `DeadSocketsReaped`,
`WritersFinish`, `DeadOnesDropped`, `RequestsFinish`, `BootResolves`, `RequestsSettle`, `ExpiryHandled`, `SendsSettle`,
`SilenceNoticed`, `JobsEnd`, and `SummaryComes` (that the folding ends).

## 5. What the code does not keep

Each with a run that TLC ends with a counterexample; all are under `findings`.

| Property | Run | What happens |
|---|---|---|
| `SignOutSticks` | `auth_signout` | `auth/AuthContext.tsx:92` says the local session ends regardless of the answer. A refresh in flight at a sign-out signs the user in again |
| `RefreshSparesLogin` | `auth_login` | `auth/AuthContext.tsx:69` says that a refresh must not clear the session a login just created. The expiry timer's continuation (line 122) does, when its refresh fails after the login |

Stated in the modules and refuted by TLC in the same way, each with the configuration
named; they are not under `runs`. Where it says "with", the configuration holds
another property of the table, or another instance, and needs that change:

| Property | Configuration | What happens |
|---|---|---|
| `NoGhosts` | `MCRealtimeGhost.cfg` | `realtime.py:55` announces a deletion so that every socket drops the row. A creation is committed; before its handler is back from `refresh`, a deletion commits and is announced; the creation is announced after it, and the tabs show a deleted message |
| `DeletionToldOnce` | `MCRealtimeTwice.cfg` | `routes/messages.py:63` says that a delete that changed nothing tells the sockets nothing. Two deletes both find the row, both answer success, both announce; clients ignore the second |
| `StoredIsPushed` | `MCRealtimeUnpushed.cfg` | `routes/messages.py:21` says "Store the message, then push it". The refresh after the commit may raise with the row stored (it needs a connection again), and nothing is pushed |
| `LogoutRevokes` | `MCSessionsLogout.cfg` | `routes/users.py:134` says that a copy of the cookie taken before a logout refreshes nothing. A refresh that has read its row inserts a replacement after the logout deleted the row, and succeeds |
| `TokenWorksOnce` | `MCSessionsTwice.cfg` | `routes/users.py:87` says each token works exactly once. Two refreshes read one row before either commits, and both succeed |
| `ConfirmedMeansStored` | `MCChatSocketReload.cfg` | `realtime/protocol.ts:148` makes the id so that the echo of *that* message can be recognised. Every page load counts from c1, while the server still stores and announces what it had received from the page before; that echo confirms the new page's first send. Two tabs do it without a reload |
| `ChatNeverWaits` | `MCAiLayerWaits.cfg` | `main.py:69` says chat, history and deletes "must never wait on — or be blocked by — the AI layer". Messages being scored keep their connections; when they hold all of them, the next request waits for the AI layer, up to `pool_timeout` |
| `FailureRecorded` | `MCAiLayerWaits.cfg`, with this property | `ai_utils.py:115` says failures are already recorded by `_load_pipeline`; the import at line 58 is outside its `try`, so a missing package leaves `not_loaded` |
| `OlderExist` | `MCMessageFeedOlder.cfg` | `queries/messages.ts:67` takes `hasNextPage` for whether older messages exist, but a page shorter than `PAGE_SIZE` is taken for the last. Removing a message from the last loaded page hides the older ones until the feed is read afresh |
| `CursorUndisturbed` | `MCMessageFeedCursor.cfg` | `queries/messages.ts:53` says that growing the first page cannot disturb the cursor, which is read from the last. With one page loaded it is the same page, and an older message that commits late moves the cursor past rows that are then never loaded |
| `WritesStay` | `MCMessageFeedKept.cfg` | `docs/gaps_and_improvements.md:564` says that answers and echoes are written to the feed directly, being authoritative. What arrives while an older page is being fetched is overwritten by the result, which is put together from the cache as it was when the fetch began |
| `ScoredOnce` | `MCAiLayerWaits.cfg`, with this property | `ai_utils.py:148` says identical text is never scored twice; `lru_cache` does not hold a lock while it calls, so two threads that miss both score |
| `LoadedIsAtHand` | `MCAiLayerWaits.cfg`, with this property | `ai_utils.py:43` speaks of double-checked caching; the table is looked up under the lock only, so a score with a loaded model waits for the other model's load |
| `RejectedWithReason` | `MCRealtimeGhost.cfg`, with this property | `websocket.py:103` promises an error frame for every rejection; when the lookup or `create_message` raises, the handler ends and says nothing |
| `RegistryLive` | `MCRealtimeGhost.cfg`, with this property | the write of `auth_ok` fails outside the `try` that unregisters; the dead socket stays until a later send to that user, which drops it (`DeadOnesDropped`) |
| `StreamMatchesSession` | `MCChatSocketReload.cfg`, with this property and 2 users | the user is compared on `auth_ok` only; a renewal that brings another account's session leaves the socket with the old user |
| `FirstFrameIsAuth` | `MCChatSocketReload.cfg`, with this property | a ping or send written between the heartbeat's close and the close event is kept by the library and goes out before the next `auth` frame, which the server refuses for good |

`SingleFlightIsSafe` is the other side of `LogoutRevokes` and `TokenWorksOnce`: where a
client sends a login's requests one at a time, which is what its single-flight
refresher is for, neither happens.

The exceptions of `FeedAccurate` are of the same kind: a ghost (`NoGhosts`), a message skipped
by a cursor (`CursorUndisturbed`), one a fetch overwrote (`WritesStay`), and one announced while
the socket was down (`Miss`). `docs/design_decisions.md:742` speaks of refetching on
reconnect; no code does it, so the last stays missing until the next refetch.

## 6. Not modelled

- Middleware, logging, field validation, page rendering, migrations, the
  worker-count guard: no state that other parts read.
- The aggregation of the sentiment timeline: one query, which the database answers.
- In `AiLayer`, the rows (they are in `Realtime`), and the network behind a download.
- Password hashing, JWT signing and the same-origin guard: a check is modelled
  by its outcomes. A refused request changes nothing and is not a step.
- In `ChatSocket`, sign-out while a socket is open, and the status text.
- In `MessageFeed`, a feed per user and the change of one: the cache keeps a feed for
  each user id.
- Several server processes: `scaling.py` excludes them.

## 7. Plan

Done: `Realtime`, `RateLimiter`, `Sessions`, `AuthProvider`, `ChatSocket`, `MessageFeed`, `ChatLog`, `AiLayer`,
`Summary`, in that order, most central first; every safety property of the passing runs proved.

Next:

1. A composition of `ChatSocket` and `MessageFeed` over `ChatLog`; sign-out while a socket
   is open.
2. Theorems of several steps that no run states yet: that a writer's steps end in one
   announcement, that the pool is given back in full.
