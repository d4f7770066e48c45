# Verification of chatgpt-oauth

`chatgpt-oauth` signs an application's users in with ChatGPT, keeps their
credentials fresh, and talks to the service on their behalf. The same library
exists in TypeScript, Python, Swift and Kotlin; `PROTOCOL.md` is the contract
and `docs/concepts.md` says that a difference in behaviour between two ports is
a bug. This directory holds TLA+ modules of the parts in which order, failure
and concurrency decide whether a user keeps a working credential, the TLC
configurations that check them, and TLAPS proofs of the theorems that matter
most for any number of processes and calls.

The modules are translated from the TypeScript port, except where another port
has a mechanism of its own (the Python file store, the refresh task of the
Python session). Paths below are relative to
the repository.

## 1. The system

| Component | State | Operations | Depends on | What is hard | Correct when |
|---|---|---|---|---|---|
| Session lifecycle `typescript/src/core/lifecycle.ts` | the flights map (one per process and store) | get token, forced refresh, login, device login, status, logout | store, OAuth client, kill switch | callers join one refresh; a version read before two awaits is compared after them; replicas share only the store | one refresh at a time per process; a refresh replaces only what it loaded; callers get only what is stored; a quarantine is cleared by a login alone; every call returns |
| OAuth client `core/oauth.ts` | none between calls, but for the interval of a device login | begin and complete a login, refresh, device login | token endpoint | the endpoint rotates the refresh token it is sent, so a lost answer loses it; retries; polling against a deadline | attempts are bounded; polls keep their distance |
| Credential stores | rows `subject -> token set, version` | load, compare-and-swap, delete | files, locks, device storage, a database | the compare and the write must be one step, across threads, processes and crashes | each call takes effect at one moment: one winner per version, losers told of it |
| App-server client `app-server/index.ts`, `rpc.ts` | thread, active turn, turn fence, event queues, pending requests | stream, respond, close; callback for a token | a codex child process | notifications come before the answer that names them; a turn failed here still runs there | one turn at a time; a stream gets its own deltas in order; every stream ends |
| Live calls `realtime/`, `app-server/realtime.ts`, `examples/gpt-live` | the microphone, connection and channel of each call; pending delegations with their timers; the page's phase and references; the route's client, active call and answer promise | connect, hang up, delegate, nudge; POST and DELETE of the route; start, say, close | data channel, app server, the delegate | two calls share the page; turns and delegations overlap; an answer may time out, fail or never come | a delegation is nudged at most once and answered once, silence is filled, the phase tells the truth, nothing is left on, every offer is answered |
| HTTP handler `http/`, `web/` | the pending login, in a store or a sealed cookie | session, login, callback, logout | session | callback URLs requested twice, or after a newer login | a store hands a pending login out once |
| React bindings `react/` | view, operation counter, popup | refresh, login, logout, unmount | HTTP handler | operations overlap, and the older ones still hold requests and a window | busy only while the newest operation runs; the page shows what was so since it began; no window is left behind; every operation returns |
| Loopback servers `node/loopback.ts`, `loopback.py` | one-shot server | wait for a callback | session | the callback, `open()` and the timeout come in any order; a rejection nobody awaits | a login returns however they come |
| Render service `examples/render-service` | a client and a turn queue per subject | run, drop, evict, close | app-server client, Postgres store | eviction, sign-out and shutdown racing turns and clients on their way up | no process is orphaned; an answered sign-out has killed the process it found, and leaves no client but those it could not see; every request and every shutdown ends |
| API client `core/client.ts`, SSE, images, AI SDK | none | send, stream, respond | session | one retry on 401 while others refresh too; a stream cut anywhere | the same events however the body is cut; rejected means that what a refresh came to was refused as well; only a completed response is returned; every call ends |
| Python session `session.py` | a map of refresh tasks | get token, forced refresh | store, OAuth client | cancelling a caller cancels the task all await, wherever it is | a flight that is over has left the map |
| Ports (Swift, Kotlin) | as above | as above | as above | cancellation of a caller that others wait for; actors and mutexes | (planned where they differ) |
| JWT claims, redaction, constants, website, video | none | pure | | | not modelled |

How they interact: an application calls the session with a subject. The session
loads the subject's row, calls the token endpoint through the OAuth client, and
writes the answer back with `compareAndSwap`, which is where two processes meet.
The app-server client asks the session for a token when its child process calls
back. Nothing else is shared.

`PROJECT.json` lists every component with its status, and every hazard with the
line at which it bites and the properties that cover it.

## 2. Modules

| Module | Models | State and actions in terms of the code |
|---|---|---|
| `AuthLifecycle` | `lifecycle.ts` with the parts of `oauth.ts` it awaits, the device polling loop among them, and `node/loopback.ts` | `rec` is the subject's row, `flights` the map at `lifecycle.ts:37`, `cur`/`nxt`/`attempt` the local variables of `refreshOne`, `persistFresh` and `refresh`. `issued`, `spent`, `revoked` are the endpoint's knowledge of refresh tokens, `kept` a history variable. One action is the code from one await to the next |
| `AuthLifecycleProofs` | | theorems about it |
| `PythonFlight` | `session.py` from `get_token_set` to `_refresh_one` | `flight` is the entry of `_flights`, `task` the asyncio tasks, `call` the callers; `NeverBegins` is what asyncio does to a task that is cancelled before its first step |
| `StoreTypes` | `core/types.ts` | rows, requests and answers common to every store |
| `CredentialStore` | the contract of a store, and the memory stores | an invocation, an effect, a return; failures and deaths may come after the effect |
| `CredentialStoreProofs` | | theorems about the contract |
| `FlockStore` | `python/.../stores/file.py` | `file` is the data file with all subjects, `holder` the descriptor that holds the flock, `records` what a call read and changed |
| `FlockStoreProofs` | | that it implements `CredentialStore` |
| `SecureStore` | `react-native/index.ts` | `items` is the device's storage, `tail` the `locks` map: the last promise of each subject's chain |
| `SecureStoreProofs` | | that it implements `CredentialStore`, and that one call at a time is on its turn |
| `FileStore` | `node/file-store.ts` | `lock` and `reaper` are the two lock files (their owner's name), `saw` and `reaped` the local variables of `staleLock` and `reapStaleLock` |
| `FileStoreProofs` | | that it implements `CredentialStore` while who waits for the lock waits alone (`AloneSpec`), and so with two calls in all |
| `AppServer` | `app-server/index.ts`, `rpc.ts` | `thread`, `active`, `turns` (with queue, id and the pending notifications, kept by turn) are the variables of `createAppServerClient`; `wire` is the child's standard output; `run` and `told` are what the external process does |
| `AppServerProofs` | | theorems about it; its second part has those about `RenderService`, which keeps such processes (it extends both) |
| `HttpHandler` | `http/index.ts`, `web/index.ts` | `kept` is the pending login (the store's row, or the browser's cookie), `row` the subject's credentials, `callback` the requests of callback URLs between their steps |
| `WebSignIn` | `react/index.tsx` over `HttpHandler` | `operation`, `popup`, `view` are the hook's refs and state, `op` the local variables of each call, `window` the named window of the browser, `seen` a history variable |
| `WebSignInProofs` | | theorems about the hook and the handler |
| `CodexCall` | `examples/gpt-live/.../call-codex/route.ts` over `app-server/realtime.ts` | `post` is where each POST stands, `answer` the promise of the SDP with its timer, `subscribed` and `closed` the listener and flag of each call, `activeCall` and `client` the route's two variables; `RejectionUnheard` is the end of the route's process by a rejection nobody awaits, after which it begins anew |
| `LiveCall` | `examples/gpt-live/components/live-call.tsx`, `realtime/browser.ts`, `realtime/call.ts`; extends `CodexCall` | `call` is what `connectLiveCall` holds, `item` the delegations of `attachLiveSession`, `callRef`, `phase`, `openTurns` the refs and state of the page |
| `LiveCallProofs` | | theorems about the page and the codex route; its second part has those about `EventStream` and the client (it extends `ApiClient` beside `LiveCall`), whose requests the offers of a live call are among |
| `RenderService` | `examples/render-service/src/session-manager.ts`, the routes and the shutdown of `index.ts`, creation and close in `app-server/index.ts` and `process.ts` | `entryOf` is `#entries`, `entry` the entries with their queues, `client` the promise in each entry, `process` the child, `kill` the `close()` of its handle (the grace, SIGKILL, the return); `logout` is the last sign-out, with the clients its subject had `before` and those created `during` the deletion of the row, as histories; its initial condition and so on are named `ServiceInit`, `ServiceNext`..., for `AppServerProofs` extends it beside another specification |
| `EventStream` | `core/sse.ts` | the normalisation, the boundary search and `parseBlock` as operators; and, apart from them, what the events of a whole text are: `Seen` reads it once, a token at a time, with no buffer, no normalisation and no search |
| `ApiClient` | `core/client.ts`, `ai-sdk/index.ts`, `images/generate.ts`, `createLiveCall`, over `EventStream` | `retry` is `withAuthRetry`, `stream` the local variables of `parseSSE`, `request` one invocation of any entry point, `tokens` the stored token set, its freshness and what the backend accepts, `flight` the subject's flight (`inFlight`, `refreshOne`), which the call starts or joins; its initial condition, next-state relation and so on are named `ClientInit`, `ClientNext`..., for `LiveCallProofs` extends it beside another specification |
| `MC*` | | constants of the instances TLC checks |

Composition. `CredentialStore` is the abstract specification. It has no run of its
own: its two promises are proved, and checked on `FlockStore`. `FlockStore`,
`SecureStore` and `FileStore` each instantiate it `WITH` a refinement mapping
(rows, phase, request and answer of every call) and have its `Spec` as the
property `ImplementsStore`. `WebSignIn` extends `HttpHandler` and sends it the
requests of the page. `LiveCall` extends `CodexCall`: an offer of the page is a
POST of the route. `ApiClient` extends `EventStream` and calls its operators as
the code calls `parseBlock` and `indexOf`. `AuthLifecycle` uses a store whose operations take
effect at one step, which is what `CredentialStore` promises, and
`StoreFails` covers the failures before the effect. A failure after the effect
looks to the lifecycle like a crash of the caller after the write.

Abstractions:

- Subjects are independent in the lifecycle (every map and every row has the
  subject as its key), so `AuthLifecycle` has one. The stores have several where
  they share state between subjects (one file, one lock).
- A token is a number: its order of issue. Token strings, claims and expiry
  times are left out; `stale` is the outcome of the comparison of the expiry
  with the margin.
- A row of a store holds the call that wrote it, which is all that the contract
  tells apart. Encryption is left out.
- Timers: a retry delay is no step, a deadline is an action that may come at any
  time it is armed (`GiveUp`).
- `AppServer` leaves out the initial handshake, rate limits, the retries of
  overload answers (each is one more request with the same guards) and the text
  of events. A step that ends in an error before the next event is dispatched is
  one action with the step that raised it. `pendingTurnNotifications` is one array
  in the code, which a turn searches for its own id when it learns it; `pending`
  keeps the same notifications by turn, in their order.
- `WebSignIn` has the popup mode. A redirect leaves the page, and the next mount
  begins with a refresh, as here. A login is completed in one step (its
  interleavings are `AuthLifecycle`'s); a login is known by a number, so that a
  state, a verifier and a code fit or do not.
- In `FileStore` a call of `Before` is a process that died before the behaviour
  begins, and may have left the reaper behind. `calm` marks the behaviours
  without deadlines and I/O errors, in which a call has to end by itself.
- `LiveCall` has one page and leaves out transcripts. Behind codex no delegation
  comes to the page. The delegate may take forever.
- `RenderService` leaves the turns' content to `AppServer`: a turn ends, well or
  not, and only ends well while its client is open and its process alive. An entry
  without turns may be found idle at any moment. SIGKILL is taken to end the process;
  `close()` returns after its second wait all the same. That it exits during the
  grace and the signal that follows are one step.
- `PythonFlight` has one store and one subject. `Tasks` and `MaxVersion` bound how
  often a flight is created and how often others write. What was asked of the store
  or the endpoint when a task is cancelled may have taken effect (`Stops`); an
  effect that comes later is one of another process (`Elsewhere`). The attempts of
  one refresh, and logins, are left to `AuthLifecycle`.
- `ApiClient` cuts a body into tokens: CR, LF, and words that are each one data
  line. `event:` lines and comments of a block do not end it and carry nothing the
  properties look at. Token sets are numbers in the order they were stored, by this
  process or elsewhere. There is one flight at a time, as in the map; what becomes of
  the session after the call has its answer is left out.
- Definitions with names such as `JoinNoMap`, each with a comment that begins
  with "Mutant", are deliberate mistakes. No specification uses them. They show
  that each property can be broken by a plausible bug.

## 3. Runs

| Run | Instance | Shows |
|---|---|---|
| `auth_one_process` | 3 calls in one process: get, forced refresh, device login, logout; revocation, kill switch | `Singleflight`, `ForcedWentToNetwork`, `OnlyRevokedQuarantined`, `EveryCallReturns` (a device login by its deadline) |
| `auth_replicas` | 3 calls in 2 processes: get, forced refresh, login, loopback login, logout; crash, lost answers, store failures, revocation | `VersionIdentifiesGeneration`, `WritesReplaceLoaded`, `QuarantineSticks`, `TokensComeFromStore` |
| `flock_store` | 3 calls, two of them threads of a process, 2 subjects, I/O errors, crashes | `ImplementsStore`, `WritersHoldTheLock`, and the contract itself: `OneWinnerPerVersion`, `WinnersAreNotLost` |
| `secure_store` | 3 calls, 2 subjects, rejections, restarts | `ImplementsStore`, `EveryCallReturns` |
| `file_store_pair` | 2 calls in 2 processes, a third that died before, crashes and I/O errors | `ImplementsStore`; `EveryCallReturns`, by reaping alone where no deadline passes |
| `file_store_three` | violation | see findings |
| `python_flight` | violation: 2 callers that may be cancelled, 4 tasks, 3 versions | see findings |
| `app_server` | 2 streams, 2 deltas a turn, a pipe of 1 line | one turn at a time, deltas in order, no orphan queue, `EveryStreamEnds` |
| `web_sign_in` | 4 operations (the mount's refresh and 3 more), 2 callback requests, a deadline after 2 polls, pending logins in a store or a cookie | `BusyWhileNewestRuns`, `ViewWasTrue`, `WindowIsAttended`, `NewestKeepsItsWindow`, `TakenOnce`, `OperationsEnd` |
| `live_call` | 2 calls by either route, 1 delegation, 2 turns | `DelegationsAreAnswered`, `PhaseTellsTruth`, `NothingIsLeftOn`, `OpenCallsAreReplaced`, `SilenceIsFilled`, `PostsEnd` |
| `render_service` | 2 subjects, 2 entries, 2 requests, 1 sign-out, sign-ins, sweeps, failures at any point of a creation, a shutdown at any moment | `NoProcessIsOrphaned`, `LogoutEndsProcess`, `RequestsEnd`, `ShutdownEnds` |
| `api_client` | one call of each kind; every body of up to 6 tokens, every cut into chunks of up to 3 (and empty ones); 3 token sets, stored by the call's flight, another call's, a login or another replica | `FramingIgnoresChunks`, `OnlyCompletedIsReturned`, `RejectedTwice`, `EveryCallEnds` |

The type invariant of a module (`TypeOK`, `ClientTypeOK` in `ApiClient`) is no property of a run; it is proved
(section 5) for every module but `PythonFlight`.

Why the bounds are enough. A race over a row needs a reader, a writer and
someone who changes the row between them, and a flight needs a leader, a caller
that joins it and one that changes the row meanwhile: three calls. `OnlyRevokedQuarantined` is about one process, because
with two it is false (see the observations in section 4). Retries are
counted as in the code, up to three attempts. Two subjects are needed to see a
write of one undo a write of the other in a common file. With two streams one
fails and one waits at the fence, which is the widest a fence gets before it
refuses; two deltas and a completion are enough to lose, double or swap one.
`MaxLines` bounds what the process may write ahead of the client: a line that
waits in the pipe is to the client like one not written yet, and with a pipe of
one line several lines can still be handled before the code that awaited an
earlier one goes on. What the client holds back itself (`pending`) is not
bounded by it. `MaxDeltas` bounds a
turn. On the page, a login, an operation that supersedes it and a second login
are enough for an old operation to meet a new window; two callback requests are
a replay, or one of an old login and one of a new. On the page of a live call
the second call is the one that meets what the first left behind: its turns, its
delegation, its session in codex. In the render service two entries are an entry
and its successor, or those of two subjects, and two requests are a running turn
and a queued one. Three token sets are the
one that is refused, the one a flight stores or adopts, and one stored in between. Six
tokens hold a split CRLF, two line ends across a join, a
block of two data lines and an event after `[DONE]`; `MaxChunk` of 3 makes a
chunk that holds a whole boundary and more.

Deadlock is not checked: an instance has a finite number of calls or streams
and stops when all have ended. That they do end is the liveness property of
each module.

### Fairness

- `AuthLifecycle`: every started call goes on (`WF` of `Step`): the event loop
  runs, and the store and the endpoint settle every request. The code does not
  enforce the latter: `fetch` at `oauth.ts:177` has no timeout, which is listed
  as a hazard. Starting a call, expiry and crashes are not fair. `SF(DeviceExpires)`: the
  clock runs, however often the device endpoint says to wait. A login whose
  `open()` failed under a waiting listener (`abandoned`) has returned to its
  caller.
- `SecureStore`: every call goes on; rejections and restarts are not part of the
  fair step. `FlockStore`, `CredentialStore` and `PythonFlight` state no fairness.
- `FileStore`: as above, and `SF(TimesOut)`: a call that comes to the pause of
  `withLock` again and again finds its deadline passed. In a `calm` behaviour
  no deadline passes and there is no such fairness, to show that the leftovers of
  dead processes are reaped and waiting is not in vain.
- `WebSignIn`: while a request is out or an answer has come, one of them goes on
  (one `WF` for all). The user and the callbacks are not fair.
- `AppServer`: the event loop runs, the consumer keeps asking for events (unless
  it leaves), the refresh of a token settles, and the process answers every
  request and completes every turn it runs. `ServerWaits` says that the process
  does not complete a turn before its callback was answered. `index.ts:250`
  depends on it: the failure of a refresh is put on the turn that is active when
  it settles. With a process that gives up on its callback the next turn would
  take the blame.
- `LiveCall`, `CodexCall`: the timers fire, and codex answers or refuses every
  request (not with an SDP, which it may never send). Users, networks, the
  backend and the delegate owe nothing.
- `RenderService`: what was begun goes on: promises settle, turns end, the waits of
  `close()` are over in time. Users owe nothing and the sweeper need not run.
- `ApiClient`: the store and the endpoints settle every request, so that flights end
  (`WF` of `Flight`), and a body
  delivers, ends or breaks off, if after empty chunks (`SF(Delivers)`).

## 4. Findings

1. `file_store_three` (code bug, `node/file-store.ts:130`). `staleLock` answers
   true when the lock file is gone. A reaper that looked at the moment of a
   release then removes the lock that another call links just after, and two
   calls are in the read-check-write at the same time. Both win the same
   version; `docs/storage.md:85` promises that exactly one wins. It needs three
   calls and no crash: one that has the lock, one that waits for it, and one that
   comes to it meanwhile. With two calls in all (`file_store_pair`), or while who
   waits for the lock waits alone (`AloneImplementsStore`), the store is correct.
2. `python_flight` (code bug, `session.py:184`). A flight leaves the map in the
   `finally` of `run()`. A task that is cancelled before its first step never
   enters its `try`. This happens when a caller creates the flight and is cancelled
   by the next task of the event loop: the cancellation is passed on to the new
   task. The cancelled task stays in the map, and every later refresh of the
   subject in this process raises `CancelledError`; `PROTOCOL.md:148` asks to clear
   the promise in `finally`. Without the step `NeverBegins` the property holds for
   the same instance. Cancellation at any later await does leave the map, but
   it fails every caller of the flight, not only the one that was cancelled.

The following have no run of their own. The properties that come close name the
circumstance they exclude.

In the lifecycle:

- A row that was deleted starts again at version 1. The marker of a refresh that
  began before the logout can match the version of the next login's credential
  and quarantines it (`lifecycle.ts:80`); `PROTOCOL.md:172` asks for a CAS against
  the exact failed generation. `WritesReplaceLoaded` is false without `kept`.
- Two replicas present the same refresh token. The one that is refused stores
  its marker before the other stores the token it was granted, which is dropped
  (`lifecycle.ts:103`): the user must sign in again, while `docs/concepts.md:40`
  says the loser adopts the winner. `OnlyRevokedQuarantined` is false with two
  processes.
- A login that loses its CAS to a quarantine marker returns the quarantined
  record as its success (`lifecycle.ts:69`).
- `loginWithLoopback` awaits `open()` before the callback (`node/loopback.ts:83`).
  A listener that is refused or times out in between, or after `open()` threw,
  rejects a promise nobody awaits, which ends a Node process by default.

In the clients:

- A user may be sent to sign in (`client.ts:74`) after one token set was refused
  twice. The forced retry joins a flight that is already out
  (`lifecycle.ts:122`); when that flight loses its compare-and-swap, or its
  quarantine, it adopts the row that won as refreshed (`:106`, `:82`), and that may be
  the row the backend has just refused, stored by a login or another replica while
  the flight was posting. `PROTOCOL.md:232` wants the refresh forced.
  `RejectedTwice` states what does hold.
- The answer of the handler's login may be lost after its pending login was
  saved (`http/index.ts:153`, `ServeLogin`): in a store it has replaced the one before,
  which then cannot be completed.

- An application that calls the hook's `login` again while one runs gets the
  same named window from the browser; the first login closes it when its answer
  comes (`react/index.tsx:169`, `:191`). The library's own button is off while a
  login runs. `Buttons = FALSE` shows it.
- A body that breaks off under `collapse` (`ai-sdk/index.ts:79`) surfaces as the
  reader's own error, where the comment at `:151` wants a typed `TransportError`.
- `parseSSE` releases its reader without cancelling the body (`core/sse.ts:60`),
  so a consumer that stops early leaves the response streaming. And
  `lastRateLimits` is that of the stream that ended last, not of the most recent
  response (`core/types.ts:107`).

In the examples:

- Hanging up while a live call is connecting does not stop it: the page has no
  reference to it yet (`live-call.tsx:115`), and the call comes up with its
  microphone on. `examples/gpt-live/README.md:40` says it is open until you hang
  up. `NothingIsLeftOn` and `PhaseTellsTruth` exclude it with `cut`.
- Two POSTs of the codex route that overlap both find no active call
  (`call-codex/route.ts:44`); the session that is answered first is never closed.
  `OpenCallsAreReplaced` excludes it with `overlapped`. A client that could not
  be created is kept for good (`:24`), and a start that is refused leaves the
  answer's timer armed, whose rejection nobody awaits (`realtime.ts:98`); nor is
  an error awaited that codex sends before it answers the start. Such a rejection
  ends the route's process by default, with every call in it (`RejectionUnheard`).
- A shutdown of the render service dies with an unhandled rejection when a client
  on its way up cannot be created (`session-manager.ts:101`). A request that comes
  while a sign-out deletes the row may start another process, which takes the old
  access token and outlives the sign-out (`index.ts:116`), while
  `typescript/examples/render-service/README.md:45` says that the sign-out closes the subject's
  process. `LogoutEndsProcess` says that nothing else escapes: it excludes the clients
  in `during`, and is false without that.
- `close()` of a process returns after two waits of a second whether or not the
  process has exited (`process.ts:137`), and at once to a second caller; who awaits it
  knows that SIGKILL was sent.

## 5. Proofs

All theorems are for any number of processes, calls, subjects, streams, operations
or entries, and are checked by TLAPS from the assumptions named in the modules: the
calls have a home process, `NoCall` is no call, requests are requests, bounds are
numbers, `[DONE]` and the completed response are different data lines. Some
theorems have a hypothesis of their own, because without it they are false (below):
`OneHealthyProcess`, `Buttons`, and for the Node file store `AloneSpec` or `PairMeets`.

| Theorem | States | Argument |
|---|---|---|
| `AuthLifecycleProofs!TypeCorrect` | `TypeOK` | inductive; the versions stay naturals because only `Swap` writes them |
| `!OneFlightPerProcess` | `Singleflight` | inductive together with `TypeOK`: the three conjuncts need each other, a joiner waits for what the map holds, the map holds a call in a flight, and a flight is in the map |
| `!VersionsIdentifyGenerations` | `VersionIdentifiesGeneration` | `GenerationInv` adds that a missing row is the empty record (else a logout of a missing row could disturb a holder) and that flights never load a quarantined record |
| `!FlightsReplaceWhatTheyLoaded` | `WritesReplaceLoaded` | a flight writes by `Swap` alone, whose guard with `GenerationInv` gives `rec = cur[c]` |
| `!FlightsKeepQuarantine` | `QuarantineSticks` | from the previous one and `FlightsLoadHealthy` |
| `!AnswersComeFromStore` | `TokensComeFromStore` | `HandsOut`: a step gives one call the token of the row as it is, or what a flight has settled with. It needs `WritesAreNumbered`: a write carries the number after the one it expects, so that the row of a write that won is what the call answers with |
| `!ForcedCallsReachTheNetwork` | `ForcedWentToNetwork` | a forced call never comes to the phase that answers from the row alone, and one that joined a flight which did not ask the endpoint asks again (`ForcedInv`) |
| `!OnlyTheRevokedIsQuarantined` | `OnlyRevokedQuarantined` | under `OneHealthyProcess`. `TokenInv`: the row's refresh token is unspent, unless the flight that spent it has yet to store the answer; there is one such flight (`OneFlightHolds`) |
| `CredentialStoreProofs!StoreTypeCorrect`, `!ExactlyOneWins`, `!WinnersStay` | `TypeOK`, `OneWinnerPerVersion`, `WinnersAreNotLost` | `IInv` ties each answer to its request; a second winner would expect the version the first has moved past |
| `FlockStoreProofs!FileTypeCorrect`, `!OneWriterAtATime` | `TypeOK`, `WritersHoldTheLock` | `IInv`: who is under the lock holds it, and what a call is about to write is the present file with its own row changed |
| `!FileStoreImplementsStore` | `ImplementsStore` | each step maps to a step of `CredentialStore` or a stutter; the rename is the moment of effect of a write, the read that of a refusal. A raise or a crash is `Fail` of the calls concerned |
| `!FileHasOneWinner`, `!FileKeepsWinners` | `OneWinnerPerVersion`, `WinnersAreNotLost` of the file | what is proved of the contract, carried over by the refinement: `Contract` is an instance of `CredentialStoreProofs`, and its steps are those of the abstract store (`SameSteps`) |
| `FileStoreProofs!FileTypeCorrect` | `TypeOK` of `FileStore` | inductive with `Typed`: who runs has a request |
| `!AloneImplementsStore` | `ImplementsStore` of `FileStore`, under `AloneSpec` | `ReapsFit`, see below |
| `!PairImplementsStore` | the same, for two calls in all | `OtherIsPast`: when one of two finds the lock taken, the other took it and never comes back to it, so that who waits waits alone |
| `!AloneHasOneWinner` | `ExactlyOneWins` of `FileStore`, under `AloneSpec` | carried over by the refinement, as for the Python store |
| `SecureStoreProofs!DeviceTypeCorrect`, `!OneCallOnTurn` | `TypeOK`, `OneCallAtATime` | `ChainsFit`: there is a numbering of the calls that grows along each promise chain, so that a call waits only for earlier ones and the last is the tail. A numbering is claimed to exist and never computed, which spares an induction over the chain |
| `!DeviceImplementsStore` | `ImplementsStore` | the write to the device is the moment of effect; between a call's read and its write nobody else of the subject is on turn, so what was read still stands |
| `!DeviceKeepsContract` | `OneWinnerPerVersion`, `WinnersAreNotLost` of the device | carried over by the refinement, as for the file |
| `AppServerProofs!ClientTypeCorrect`, `!OneTurnRuns` | `TypeOK`, `OneTurnInTheProcess` | `OneHolds`: one turn holds the pipe; the process runs no other turn, and what is in the pipe is about that turn |
| `!OpenQueuesHaveAnOwner` | `OpenQueuesAreActive` | `QueuesFit`, by where a turn stands |
| `!StreamsReceiveTheirTurn` | `StreamsGetTheirTurn` | an invariant that follows the deltas back from the consumer: what was received, then what is queued, then what is kept in `pending`, then what is in the pipe is 1, 2, 3, ... up to what the process has sent |
| `WebSignInProofs!PageTypeCorrect`, `!PageIsBusyInTime` | `TypeOK`, `BusyWhileNewestRuns` | operations are taken in order, and a step of an older one leaves the view and the newest operation alone (`ArriveKeeps`) |
| `!PageShowsWhatWas` | `ViewWasTrue` | `AnswersFit`: an answer that is on its way to the newest operation was so since it began, as is the present row |
| `!WindowsAreAttended` | `WindowIsAttended` | with the previous ones: an operation that ends without closing the window is not the newest |
| `!NewestLoginKeepsItsWindow` | `NewestKeepsItsWindow` | under `Buttons`. `OwnWindows`: no older operation holds the name of the window that is open |
| `!LoginsAreTakenOnce` | `TakenOnce` | a login is kept before its answer arrives and not again, and a login that is kept was not taken (`CallbacksFit`) |
| `LiveCallProofs!CallTypeCorrect`, `!DelegationsGetOneAnswer` | `TypeOK`, `DelegationsAreAnswered` | a timer is armed only while the work runs and nothing was sent |
| `!OrbTellsTruth`, `!CallsAreTurnedOff` | `PhaseTellsTruth`, `NothingIsLeftOn` | `OneCall`: unless a call was ended while connecting, one call at most connects, while it does the page refers to no other, and all that is on belongs to it or to the call the page refers to. So a late event of an earlier call finds its channel closed |
| `!CodexCallsAreReplaced` | `OpenCallsAreReplaced` | `OneRequest` and `ClosedFits`: while requests did not overlap, the active call is the one the request in flight stops, and a session asked to close is over or its stop is awaited |
| `LiveCallProofs!ClientTypeCorrect`, `!OnlyRejectedTwice` | `ClientTypeOK`, `RejectedTwice` | `RetryInv`: after a refusal the retry is forced; it goes out with what a flight stored or adopted, which is newer than what that flight had loaded and not older than what was refused, for token sets are stored in order (`RequestInv` has the flight never ahead of the store) |
| `!ChunksDoNotMatter` | `FramingIgnoresChunks`, for bodies and chunks of any length | `BufferInv`, see below |
| `!SdkGetsCompleted` | `OnlyCompletedIsReturned` | with the previous one: what was collapsed is what the body has |
| `AppServerProofs!ServiceTypeCorrect`, `!TurnsTakeTurns` | `ServiceTypeOK`, `TurnsAreSerial` | `RequestsFit`: a queue holds distinct requests of its entry, of which only the head runs. The queue's length is bounded by an injection into the requests |
| `!ProcessesHaveAnOwner` | `NoProcessIsOrphaned` | `LeftForAReason`: an entry that has left the map was asked to close or could not be created, and a process is alive only under a client that is on its way up, up or on its way down |
| `!LogoutsEndProcesses` | `LogoutEndsProcess` | `DropFits`: when the drop is over, the client it found has closed or failed and its process is gone. `AskedFits`: who is asked to close by a sign-out is the entry that sign-out waits for, or is done. `LogoutFits`: the clients a sign-out found have left the map, not by the shutdown, and once the row is deleted a newer one logs in only with a new credential. So the clients found are closed, failed or evicted, in whatever order creations, evictions and requests come |

Two notes on the inductive invariants. `VersionIdentifiesGeneration` holds only
for calls whose row has not been removed since they loaded it (`kept`); without
it the property is false, as section 4 says. A device or loopback login waits
without touching what these invariants are about, so one lemma each
(`DeviceStep`, `LoopbackStep`, `Dies`) covers its actions. The file store's `WritesFit` is what makes a
whole-file replacement harmless to other subjects.

The Node file store. A call is inside only while the lock file has its name, and two
steps remove that file. Its owner does so as it leaves. A reaper does so
(`rmLock`) some steps after it has found the owner dead, and looks again only at the
reaper's file, not at the lock's. So the proof must show that what it found
still stands. That is `ReapsFit`: while a call looks for the process it has read in the lock
file (`killLock`) the lock has that owner or is gone, and from then on the owner is
dead or the lock is gone. Both last as long as nobody takes the lock,
and under `WaitsAlone` nobody is about to. Nothing is asked of the reaper's
file: it is what should keep two reapers apart, and does not (finding 1). Two calls
meet the condition by themselves (`OtherIsPast`). So the condition is what the code
needs of its surroundings, and three processes that refresh at once may break it.

The stream. The code keeps a buffer, half converted and half searched; the property
is about the text. `BufferInv` connects them (`Placed`): the converted text, but
for a CR at its end, is a text that ends with an event, followed by what is in the
buffer, and the events yielded are those of the former. A chunk that joins the
buffer keeps this (`JoinKeepsPlace`, with the held CR and the CRLF that is cut in
two), a block that leaves it keeps it (`BlockLeaves`), between two reads the buffer
has no blank line (`NoBlank`), and the search need not begin before `from`. So what
the loop has yielded is what `Seen` has read of the text (`PlacedEvents`), and
likewise at the end (`PlacedEnd`) and after `[DONE]` (`DoneEnds`).

Inductions over texts go by sets: a set of numbers that has 0 and with n also n + 1 is
`Nat`, because what is missing would have a least member (`NaturalsFromZero`, from
`WFMin`), and so for sequences (`SequencesFromEmpty`). That the recursive functions
exist, so that their equations hold, is `RecursionIsDefined`, for any first value and
any step. No theorem with an operator for a parameter is needed.

Hypotheses. `OneHealthyProcess` (one process, no crash, no lost answer, no store
failure, no loopback login) is the instance of `auth_one_process`: a second
process, or the next flight after a lost answer, posts a spent token, and the
endpoint's refusal quarantines a credential that was not revoked. A loopback login
may end the process by a rejection nobody awaits, which is a crash (section 4).
`Buttons` says that the page uses the library's buttons; section 4 says what an
application of its own can do. The exclusions `kept`, `cut` and `overlapped` are
in the properties themselves, as histories. TLC checked each inductive invariant
on an instance of its own before it was proved; that of `WebSignIn` also for
`Buttons = FALSE`, and that of `AloneSpec` with three calls in three processes, crashes
and I/O errors. It also compared the events of `Seen` with a definition by line
numbers and blank lines, which are equal on every text of up to seven tokens.

Only model-checked: every liveness property, which is out of the prover's reach. Of
`PythonFlight`, whose one property is violated, nothing is proved.

## 6. Not modelled, and the plan

Next, in order of importance:

1. The Kotlin port, where it differs: the leader of a flight is one of its callers
   (`AuthSession.kt:161`), and the device login does not ask the kill switch again
   (`:50`).
2. `KeyFile`: creation of the key by two processes, with a crash
   (`node/file-store.ts:80`, `stores/file.py:141`).
3. `KeychainStore` and `PostgresStore` as further implementations of the
   contract, or of a weaker one (a writer that lost reads the winner in a second
   query, `postgres-store.ts:92`).
4. `AndroidStore`: migration of legacy records with a crash between its steps
   (`EncryptedCredentialStore.kt:86`).
5. The Python callback server, rate limits and overload retries of the
   app-server client.

Not modelled: JWT claims, redaction and constants (pure functions of strings),
views, the website and videos, build files, and the text of requests and answers
everywhere. Cryptography and network formats are outside every model; of the
network formats only the framing of server-sent events is modelled.
