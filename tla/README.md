# sage-api in TLA+

A verification project for the FastAPI service under `src/sage_api`: TLA+
modules of its stateful parts, TLC runs on small instances, and proofs by TLAPS
for every value of the constants. Source paths below are relative to
`src/sage_api/`.

## The system

sage-api serves LLM agents over HTTP. Several replicas (API processes, each one
asyncio event loop) share one Redis. A client creates a session with an agent,
sends it messages, sync or as an SSE stream, and deletes it.

    client -> rate limiting -> routers -> SessionManager -> RedisSessionStore -> Redis
                 |                           |  |
               Redis                 sage.Agent  AgentRegistry <- hot reload <- files

### Inventory

| component | source | state | operations | what makes it correct |
|---|---|---|---|---|
| session manager | `services/session_manager.py` | cache of Agent objects, per replica | create, send, stream, delete, recover, close_all | one message at a time per session on all replicas; nothing acknowledged is lost; nothing refused is stored |
| session store | `services/session_store.py` | Redis: record with TTL, lock key with TTL and token | create, get, delete, touch, save_history, session_lock | every key expires; only the owner releases a lock |
| routers | `api/messages.py`, `api/sessions.py` | none | lookups, status codes, SSE | the reply says what happened |
| rate limiting | `middleware/rate_limit.py` | Redis counters per key and minute, and per key | dispatch | caps hold; slots come back |
| agent registry | `services/agent_registry.py` | `_instances` | scan, get, create_instance | readers see one whole scan |
| hot reload | `services/hot_reload.py` | watcher task, stop event | start, stop, _watch | every reported change is picked up; a broken file hurts nobody |
| lifecycle | `main.py` | the app's objects | start-up, shutdown | scan before watch; no agent left open |
| A2A routes | `a2a/routes.py` | a generator per stream, handed from one task to another | message/send, message/stream | the reply, or the last event, says what the session manager did; no chunk lost or twice |
| error handlers | `middleware/errors.py`, `exceptions.py` | none | exception to status | every exception ends in a reply that is not better than the truth |
| metrics | `middleware/metrics.py`, `telemetry.py` | a gauge, counters | inc, dec, record | the gauge falls once, whichever way a request ends |
| health, auth | `api/health.py`, `middleware/auth.py` | none | PING and registry; refusal | - |
| agent card, agents router | `a2a/agent_card.py`, `api/agents.py` | none | views of the registry | - |
| logging, settings, schemas | `middleware/logging.py`, `logging.py`, `config.py`, `models/` | none | - | - |

How they interact: routers and the A2A routes call the session manager; it calls
the store (every call awaits one Redis command), the registry (synchronously: a
dictionary lookup and the construction of an Agent) and the Agent (the run, an
await as long as the request timeout). The reloader calls `scan` in a worker
thread, so requests read the registry while it is scanned.

What is hard here:

* *Interleaving.* Between two awaits a coroutine is alone on its replica, never
  on Redis. Deletions take no lock. Two replicas hold two Agent objects of one
  session.
* *Stale state.* A cached Agent carries history and usage of its own; a message
  refreshes the history from Redis, not the usage.
* *Failure half-way.* A timeout, a client that goes away or a model error cuts a
  run off and leaves its beginning on the cached Agent. A Redis reply can get
  lost after the command ran. A replica can die anywhere.
* *Time.* Locks, sessions and counters expire while somebody relies on them.
* *Tasks.* A stream is a generator suspended at each chunk, whoever holds it. The
  A2A stream is begun by the handler's task and goes on in the body's, while its
  timeout belongs to the first. Whoever leaves it suspended leaves its lock taken.
* *The end.* The lifespan shuts down beside whatever is not over.

The line of each hazard, and the properties that watch it, are in
`PROJECT.json` under `hazards`.

## Modules

| module | models |
|---|---|
| `SessionManager` | manager, store and routers over one Redis, all replicas |
| `SessionProperties` | its properties |
| `Conversation` | what the sessions promise, abstractly |
| `MCSession` | symmetry and view for TLC |
| `Service` | the manager as the handlers of one process meet it |
| `Gateway` (over `Service`) | middlewares, routers, A2A routes, error handlers, event streams |
| `Lifecycle` (over `Gateway`) | start-up, shutdown and the hot reloader around the requests |
| `Exchange` | what a process promises the sender of a message, abstractly |
| `MCServer` | requests and view for TLC |
| `GatewayProofs` | lemmas: what a step of a request keeps true in `Gateway` |
| `LifecycleProofs` | theorems about `Lifecycle` |
| `SessionProofs`, `LockProofs`, `HistoryProofs` | theorems about `SessionManager` |
| `ConversationProofs` | that it implements `Conversation` |
| `RateLimit` | the middleware, for one API key |
| `MCRateLimit` | symmetry and view for TLC |
| `RateLimitProofs` | theorems about `RateLimit` |
| `AgentRegistry` | registry, hot reload and the order of start-up |
| `RegistryProofs` | theorems about `AgentRegistry` |

### SessionManager

A request is a coroutine with a program counter, used once. `send_message` and
`stream_message` take the same steps in the same order, so one set of actions
stands for both:

| action | code |
|---|---|
| `Arrive` | lookups of router and manager before the lock |
| `Acquire(r, heard)` | `lock.acquire(blocking=False)`: SET NX PX; `heard` is whether the reply arrives |
| `Reread` | `store.get` inside the lock |
| `Attach` | `_get_or_recover_instance` and the history refresh, one stretch without an await |
| `Touch` | EXPIRE, before the run |
| `RunDone`, `RunTimeout`, `RunFails` | the run ends in time; `asyncio.timeout` fires; the model fails, the client of a stream goes away |
| `SaveGet`, `SaveSet(r, heard)` | `save_history`: GET, then MULTI SET EXPIRE |
| `Release(r, done, heard)` | the finally clause: the script that compares tokens and deletes; `LockNotOwnedError` is ignored; a connection error replaces the reply |
| `Fail` | any other await raises |
| `DelLookup`, `Pop`, `Del`, `Close` | `delete_session` and the router's lookup |
| `CreateStore`, `Install`, `InstallFails` | `create_session` |
| `Tick` | time passes for every key, run and Redis wait |
| `Crash(p)` | a replica dies and restarts with an empty cache |

`store`/`ttl` and `lock`/`lockTtl` are the two keys of a session in Redis;
`instances` the caches; `agents` the heap of Agent objects (an object is named by
the request that built it; one message adds itself to its history and one run to
its usage). A history is a sequence of messages and not of roles and texts.
`LeavePartialRun` is external: what an Agent keeps of a run cut off depends on a
library that is not in the repository, so it may keep its message or not, and
may have charged it or not.

*Time.* A tick is an arbitrary unit. `asyncio.timeout` is modelled as enforced:
the clock does not move while a run has used its timeout up. Redis is slow but
not boundlessly: a lock holder may wait `Slack` ticks on Redis, all its commands
together. `LockTimeout` is `RequestTimeout + LockMargin`, as in the code (margin
30 s); `SlackWithinMargin` (`Slack < LockMargin`) is the assumption under which
the lock protects anything, and the code has no way to enforce it: a client
stopped for longer than the margin loses its lock. That is the one timing
assumption of the whole session model.

### Conversation

Per session a sequence that is opened empty, extended by one new message at a
time, and dropped for good. `ImplementsConversation` maps a stored record to its
history. It says in one property that replicas, caches, timeouts and lost
replies are not visible: no update is lost, no message stored twice, no session
comes back.

### Service

The session manager once more, seen from above: one process, no clock, no
histories. `SessionManager` is about what replicas do to a stored session;
`Service` about what a caller gets from a coroutine, and leaves behind. `call` is the point a coroutine
has reached; `outcome` how it ended or will end.

| action | code |
|---|---|
| `Enter` | first lookup and `acquire`; a Redis error may hit before or after the lock was taken |
| `Attach` | lookup inside the lock, `_get_or_recover_instance`, `touch` |
| `Yield` | a chunk |
| `RunEnds`, `SaveWrite` | the run is over and `save_history` has read the record, or one of them fails; `save_history` writes it, also over a deletion |
| `RunTimesOut` | `asyncio.timeout` cancels the task that waits for the agent |
| `Release` | the finally clause; what it raises replaces the outcome |
| `Left`, `Finalize` | the coroutine is dropped at its await or yield; asyncio throws it out later (external) |
| `PopInstance`, `DeleteKey`, `CloseInstance` | `delete_session`; a failed DEL skips the rest |
| `StoreRecord`, `InstallInstance` | `create_session` |
| `SessionExpires`, `LockExpires` | Redis. A lock expires only under a coroutine that is at its release, over or left: `LocksExpireWhenLeft` of `LockProofs` |

A Redis command whose task is cancelled while it waits counts as executed before the
cancellation or never: Redis has it already, or does not get it.

### Gateway

A request has a kind and a program counter: the middlewares (`stack`), the router's
lookup, the A2A route's session (`resolve`), the handler's wait for the manager, the reply on its way
through the middlewares, and, for an event stream, the body. `Arrive`, `TurnAway`
(401, 413, 422, 429), `Probe`, `HandleRest`, `LookUp`, `HandleA2A`, `Resolve`, `Answer`
and `AnswerFirstChunk` are the handlers; `Respond` and `Escape` are the two ways back
through the metrics; `SendWorking`, `SendChunk`, `EndBody` the bodies.
A stream's status is 200 from the start, so what its client is told in the end (`Told`) is its last
event. `HangUp` is the client leaving, or sse-starlette ending its streams
when the server stops. `TimesOutElsewhere` is the timer of a stream that runs out while its task waits
for something other than the agent: for the client to take a chunk, or, in the handler
of an A2A stream, for the body's task. The task is cancelled all the same, and the
generator is left where it was.

`Exchange` says what all this must amount to: one message at a time works on a session, a
message is kept only while it does, and before its client has been answered; success means
kept and done; a refusal means not kept; after a failure the client knows nothing.
`ImplementsExchange` maps the lock, the saved messages and `Told` to it.

### Lifecycle

`StartUp` is the lifespan up to its `yield` (`StartUpFails` ends the process),
`SignalStop` is uvicorn's: no new requests, and those it has are waited for. Then `CloseAll`, one `CloseOne` per
agent of the copied list (each awaits), `ClearInstances`, `StopWatcher` and `Disconnect`, in
the code's order. `HotReload` swaps the registry at any moment, also from
the thread that `stop` cannot cancel. A second signal, with which uvicorn does
not wait, is a crash and belongs to `SessionManager`.

### RateLimit

One coroutine per request and one step per Redis command, with `Break` (a Redis
error or the end of the process) possible between any two. The per-minute counter has
a key per minute; the stream counter one key with a safety TTL, set only by the
INCR that returns 1. An absent key counts 0 for INCR and DECR and the new key
has no TTL: so the counter may be negative. `call_next` of BaseHTTPMiddleware
returns at the start of the response; `EndBody` is the end of the body.

`Arrive` makes the key of the minute, `Hit` is the INCR, and any time may pass between
them: the code awaits there. An INCR may thus be executed after its minute, or on a key that has
expired, which it starts again. `MinuteCap` is what is left of "max requests per
minute" then: at most `Rpm` requests whose INCR is executed within its minute, and at most
`Rpm` through one counter as long as it is there. `window` is the minute in the request's key;
`leaked`, `lapsed`, `gone` (the minutes whose key has expired) and `faults` are history variables.

### AgentRegistry

An agent's configuration is a version number, `Broken`, or absent. A scan lists
the directory, reads one subdirectory per step, and swaps the registry in one
assignment; edits happen in between, but an agent's own files (`config.toml`, prompts)
count as one, changed and read in one step. The watcher collects changes from its first
iteration on, also during a reload, and a batch without a `.md` or `.toml`
path is ignored, which is all that the renaming of a directory reports.
`seen` (what each agent was since the scan began) and `missed` (the watcher was
not told of a change) are history variables.

## Runs

| run | instance | shows |
|---|---|---|
| `conversation` | 2 replicas, 1 session, 3 messages | mutual exclusion, refinement of `Conversation`, replies match the history, only owners release, a session survives its run |
| `lifetime` | 1 replica, 2 sessions, 2 messages, 1 creation, 1 deletion | no update lost, no message in another session's history or twice, usage covers the history, no closed agent in a cache, every key expires |
| `liveness` | 1 replica, 2 messages, 1 crash, fair | every message is answered, every lock is freed, a recovered agent's usage covers its history |
| `server` | 1 process, start to stop; a stream (REST or A2A) and one of send, A2A send, create, delete, readiness; fair | refinement of `Exchange`, whole streams, metrics, every agent closed, everything ends |
| `usage_replicas` | 2 replicas, 3 messages | violation: usage lost |
| `resurrect` | 1 message, 1 deletion | violation: a deleted session comes back |
| `mid_request_expiry` | TTL shorter than the run | violation: expires in mid-request |
| `rate_limit` | 3 requests, 2 per minute, 1 slot, 1 fault, INCRs of any delay | caps, slots |
| `stream_cap` | 2 streams, cap 1 | violation: both stream |
| `self_clean` | 1 stream, 1 fault, fair | violation: counter stays |
| `registry` | 3 directories, 3 edits, fair | one whole scan, catches up |
| `missed_change` | 2 directories, 1 edit, fair | violation: change not picked up |

### Bounds, and why they are enough

*Sessions.* Sessions share nothing but the process: each key, lock and cache entry
is per session, which `lifetime` checks with two sessions whose messages run at
once (and `HistoriesStayOwn` proves for any number), so in the other runs one session is
the interesting case. Three messages on two replicas are
the least with which a cached agent goes stale (first on p1, second on p2, third
on p1 again); they also give a holder, a competitor and an heir of its lock.
`RequestTimeout` 1, `LockMargin` 2, `Slack` 1 are the least with
`Slack < LockMargin` and every wait non-empty: the lock may expire one tick after
its holder's last moment. `SessionTtl` 3 is the least that outlives one request
from touch to save and still expires between requests. In `usage_replicas` it
is 6 so that the session lives on over three requests.
One crash covers a death at every step, with others before and after it.

*Symmetry and view.* `Interchangeable` permutes messages, replicas and sessions;
no property of a run that uses it is a liveness property, and none names one of
them. The view `Live` drops what can never be read again: the locals of a
finished coroutine, and agents that no cache and no coroutine refers to. Every
property of the runs that use it reads only what the view keeps, except
`TypeOK`, whose locals keep the type they had when they were live.

*Server.* Two requests, `r1` a stream of either kind and `r2` any request that is
not: every pair of a stream and something else on one session, which gives a holder and a refused
competitor, a deletion under a stream, an agent recovered after its deletion. (Two requests of
any kind each give four times the states and were too many for the liveness property within
five minutes.) `Asks` is that bound, `MaxChunks` 2 another: none, one pulled ahead, one
after it. `Known` is a third: a session created by a request is used by no other. What
is known of older sessions is in `Shared`, which may be there from the start. There is no clock: a timeout may come at once or late. The view `Live` drops the locals of
finished requests but for what the invariants ask of them. `CHECK_DEADLOCK FALSE`:
a stopped process has stopped.

*Rate limits.* Three requests with a limit of 2 and a slot of 1 give a request
admitted, one refused, and one after it, or one that is late into a minute of the others.
A minute is 2 ticks, so a key can be set early and late in it; the stream TTL is 3, so it
lapses under an open slot. `MaxClock` 4 gives two minutes and the start of a third; the TTLs go on
after the clock stops, and `OnTime` does not count what happens at its end, where the clock no
longer tells. The view `Live` keeps of the time at which a request was let through only whether
it was in its minute, and nothing of what a request was that is done.

*Registry.* Three edits: one before a reload, one during it, one after.
`CHECK_DEADLOCK FALSE` because edits are bounded and an idle watcher waits for
ever: there the system does stop. The other runs check deadlock; time goes on.

### Fairness

`SessionManager!FairSpec`: weak fairness of the steps a coroutine takes by itself
(the event loop runs what is ready, Redis answers, time passes), for each
message of its own. `RunDone` has none: a model may never answer, and
only the timeout ends its run. Failures, crashes and arrivals have none.
`Lifecycle!FairSpec`: one weak fairness condition for the whole event loop: as long as some
coroutine can go on by itself, some coroutine does. It is the weakest that fits a
single-threaded loop, and enough because every request and the shutdown are finite. Among the steps are: Redis
answers, a timer that was set runs out, a client takes its chunk (or, by `TimesOutElsewhere`, the timer ends its
stream), an abandoned generator is finalised. That a run ends by itself, that a client leaves, that something arrives,
fails, expires, or that the signal to stop comes, is not among them.
`RateLimit!FairSpec` is the same for the middleware, without `EndBody` (a stream may
last for ever). `AgentRegistry!FairSpec`: the reloader's steps, one after the other
in one task and its worker thread; nobody has to edit.

## Proofs

`SessionProofs` proves `TypeCorrect`: `Spec => []TypeOK`, one lemma per action. `TypeOK` has
the conjunct `BoundWhenUsed`, without which it is not inductive: a step past
`Reread` may use its record and its agent, because what it was given earlier is
still there.
It also proves `NoClosedAgentCached`. An agent closed is out of every cache when `delete_session`
closes it, but what keeps it out is more than the order of pop and close; the invariant is `CacheInv`:
an agent that is cached is cached once, on the replica and for the session of the request that
built it, and that request is past its attach (`CachedAtHome`); what a deletion has popped is
nowhere else (`PoppedIsGone`), and so is what was closed (`ClosedIsGone`). Two deletions of one
session therefore never hold the same agent, and a message that still works on a closed one
cannot put it back.

`LockProofs` proves `LockIsKept`: `Spec => []HolderKeepsLock`, for any number of
replicas, sessions and messages, any timeout and margin. `HolderKeepsLock` alone
is not inductive: a tick could end the lock of a holder that has steps left. The
inductive invariant is `LockOutlivesHolder`: the TTL of a held lock is greater
than `Remaining`, the most time the holder can still let pass (its slack, plus
its run if that is not over). `Acquire` establishes it because `Slack < LockMargin`;
a tick takes one off both sides, since whoever is inside either waits for Redis
or runs; `Touch` turns the run still to come into
its timer; other requests cannot touch the lock, since they take only a free one and
release only their own. `LockAlwaysOutlives` is that invariant. Its counterpart is `LockNamesHolder`: a lock that is
set names a message to that session which is inside, at its release, or over. Together they give
`LocksExpireWhenLeft`: a TTL never frees the lock of a message at work. `Service`, which has
no clock, takes just that for granted (`LockExpires`).
It also proves `EveryKeyExpires`, which is inductive as it stands, and `OnlyOwnerReleases`: a lock
changes by the step of its holder's release or by a tick that takes its TTL to nothing. Both
go through `RedisWriters`: the seven kinds of step that write Redis at all.

`HistoryProofs` proves `AckedIsStored`, `RejectedNotStored` and `NoLostUpdate`, with
deletions, expiry and crashes at any moment. Each is about a write of `SaveSet`, so
the invariant `HistoryInv` says what that write carries:

* sessions are created once, requests name created sessions, and an agent serves the
  session of the request that built it (`TargetsWereBorn`, `StoredWereBorn`,
  `AgentsServeOne`);
* a holder's record and agent carry what is stored, as long as anything is
  (`ReadIsStored`, `AgentHasRead`): a second writer would have to be inside the lock,
  which `LockIsKept` excludes;
* what is stored or read consists of messages past their save, and of everything
  acknowledged (`StoredAreSaved`, `ReadAreSaved`, `AckedAtEnd`, `AckedIsRead`).

From this follows `HistoriesAreOwn`, that sessions are kept apart: what is stored or read holds only
messages to its own session, each once (`ReadsAreOwn`). An agent that
was cut off half-way carries more than that, but `AgentHasRead` says that it does not when a
message runs on it; and a message is not in the record it has read (`ReadAreSaved`), so
adding it adds nothing twice.

It proves `UsageCoversHistory` under the hypothesis that there is one replica: with two, a cached
agent knows nothing of what the other replica charged, and `usage_replicas` is the counterexample.
`save_history` writes the usage of the agent and not that of the record, so the stored usage
is only as good as the cache. `UsageInv` says how good that is: a cached agent was charged for all
that is stored (`CacheCoversStored`) and for all that the message inside the lock has read, also if
the session has gone since (`CacheCoversRead`, since the save may bring it back); the record that
message read and the agent it runs on cover the history they carry (`ReadIsCovered`,
`AgentCoversRead`); and nobody replaces its agent while it runs (`RunsOnCached`). A creation installs an agent
charged for nothing: that this is right takes `FreshUntilTold`, that nobody has heard of a
session before its creation is answered.

`ConversationProofs` proves `NoExpiryDuringRun` for `SessionTtl > RequestTimeout + Slack`
(`mid_request_expiry` is what happens otherwise), with deletions at any moment. The invariant is
`RenewedInTime`: from touch to save, a session that is there has more time left than its message still needs.
A deletion in between takes the session away, and if another message's save could bring it back it
would have to hold the lock; the message's own save sets the whole TTL.
With `Deletion = {}` too it proves `ImplementsConversation`: then the record that `SaveSet`
writes over is still there (`SavesOverRecord`). With deletions the refinement does fail (`resurrect`).

`RegistryProofs` proves `RegistryIsOneScan` and `QuietMeansCurrent` for any number of
directories and edits. `QuietMeansCurrent` is not inductive: during a scan,
what was found so far is still so on disk unless a change is waiting
(`ScanIsCurrent`), and `BootIsCurrent` carries this over the time before the watcher.

`RateLimitProofs` proves `NoPhantomSlot`, `CapBeforeResponse` and `MinuteCap`. For the
slots it adds `SlotsAreCounted`, that the counter is not below the open slots until it
lapses. For the minutes: a request at its INCR has made the key of a minute that has begun
(`KeyIsMade`); the TTL of a key reaches to the end of its minute (`OutlivesItsMinute`), so a
key that has expired is that of a minute that is over (`GoneAreOver`); and as long as a key has not
expired its counter misses nobody it let through (`HitsAreCounted`). Whoever is on time was let
through before the key could expire, whatever late INCRs start it again.

`GatewayProofs` and `LifecycleProofs` prove every safety property of the run `server`, and the
refinement, for any set of requests of any kinds on the sessions of the model. Two invariants carry them.

* `SoundInv`, request by request: where the coroutine can be while its request is here
  (`Together`), that whoever is past acquire and not yet at release holds its own session's lock and nobody
  else holds it (`Locks`), that a saved message has not failed before (`Saves`), and that a
  reply on its way through the middlewares is true (`Replies`). `Only` is the frame: a step
  of one request changes nothing of another's, nor the lock it holds, so each
  lemma is about one request. A step of a sound request is then a step of
  `Exchange` or none (`RequestRefines`), which gives `ProcessImplementsExchange`.
* `AgentsInv`: an agent is closed, cached, or in the custody of the deletion that popped it
  (`Accounted`), a request that installs an agent does so for a session that has none (`Owns`;
  two creations of one session would lose the first agent), and once the shutdown has begun
  no request is under way and the cache only loses what is on the list (`Drained`). That is
  `ProcessStopsClean`: the drain before `close_all` is what makes it true.

`ProcessMetricsAreTrue` adds that a probe never leaves the way from `stack` to `respond`
(`Measured`): every step of a request enters it in the gauge, takes it out, or neither
(`Moves`). Its hypothesis is a finite set of requests. `ProcessStreamsAreWhole` adds
`Streaming`: nothing is sent before the body, then every chunk but the one at which the
run is suspended (`Due`), and an A2A stream holds at most one chunk when its body begins.

They rest on the named ASSUMEs of the modules: requests of different kinds
are different, `None` is none of the values, times and limits are natural, `Slack < LockMargin`,
and for `RateLimit` finitely many requests. Message and Session may be infinite.

`TypeOK` of `RateLimit` and of `AgentRegistry` is part of the invariants above, and a theorem of
its own (`LimitTypeCorrect`, `RegistryTypeCorrect`).

Every invariant and every action property of a passing run is thus a theorem for all values of the
constants, two of them under a hypothesis that a violation run shows to be needed (one replica;
`SESSION_TTL` long enough), and the refinement of `Conversation` under two.
Only model-checked: the liveness properties `EveryMessageAnswered`, `LocksAreFreed`,
`ReportedChangesApply` and `EverythingEnds`. They rest on fairness, and so on ENABLED, which is out
of the prover's reach.

## Where code and text disagree

Each of these is a run that TLC ends with a counterexample.

* `usage_replicas`: a cached Agent's usage is written over the stored one and is
  never refreshed from it (`services/session_manager.py:60`, `:73`), so the replicas do not
  serve one session as the README says they do.
* `resurrect`: a deletion between the GET and the SET of `save_history` is
  confirmed and undone (`services/session_manager.py:127`).
* `mid_request_expiry`: touch prevents the expiry only if `SESSION_TTL` exceeds
  the request timeout, which no setting enforces.
* `stream_cap`: the slot of a stream is returned when its response starts
  (`middleware/rate_limit.py:106`).
* `self_clean`: a death between INCR and EXPIRE leaves the counter without the
  TTL that is there for such deaths (`middleware/rate_limit.py:88`).
* `missed_change`: a change between the start-up scan and the watcher, or a
  renamed directory, waits for the next change (`main.py:46`).

Seen while modelling, part of the models, without a run of their own:

* The limit of requests per minute is one of calendar minutes. The docstring of
  `middleware/rate_limit.py:3` says "sliding window", but twice the limit gets through around a
  boundary; and `config.py:64` says "Max requests per minute per API key", but a request whose
  INCR is executed late counts for the minute in which its key was made (`:63`), or for
  nobody's when that key has expired (`MinuteCap` says what does hold).
* A REST stream of a busy session never gets the 409 of README.md:85: its
  manager is called in the body, after the 200, and the body just ends
  (`api/messages.py:61`). The A2A stream does answer 409, as a JSON-RPC error.
* The branch of `_stream_events` for domain exceptions (`a2a/routes.py:99`) is not reached:
  after its first chunk the manager raises none of them but the timeout, and
  that one cancels the handler's task and so the body, which ends without an event.
* `sessions_active` counts down only on a DELETE: a session that expires is counted
  for ever, and one created before a restart is counted down without having been counted.

## Plan, and what is not modelled

Done, in this order: sessions (the core), rate limiting, registry and hot
reload, their proofs, then the process around them (handlers, streams, lifecycle) and
its proofs, and the remaining safety properties of the sessions.
Left: what the abstract specifications imply, as theorems about them (that a message is in a
conversation once, say), and that `SessionManager` on one replica implements `Service`, of
which `LocksExpireWhenLeft` is one step.

Not modelled: agent card and views of the registry are functions of one snapshot without
state. Request logging writes a line and a header. Of telemetry only what the middleware keeps in
step with requests; durations, message counters and the span bridge are
written and never read, and the gauge of sessions drifts as said above. The comparison of
API keys, wording, formats and schemas are abstracted: of the schemas only the session record
matters. The contents of an agent's answer are sage's.
