# Bonfire API: a TLA+ model

Bonfire API is a Go server for a chat application: an HTTP API and a WebSocket
gateway in one process, any number of which share a Postgres database and a
Redis. This directory holds TLA+ modules of its stateful parts, the TLC
configurations that check them on small instances, and proofs that TLAPS checks
for every value of the constants. Paths below are relative to the repository's
root.

## 1. The system

| Component | State | Operations | Here |
|---|---|---|---|
| Outbox `internal/outbox`, `internal/db/outbox.sql.go` | the table `outbox_events`; per process a worker with a semaphore, tasks and heartbeat goroutines | create (in the request's transaction), claim under a lease, run a handler, mark processed / failed / dead, release, renew, purge; start and stop | `Outbox` |
| Sessions `internal/auth`, `internal/db/sessions.sql.go`, `internal/token` | table `sessions`; in Redis consumed token ids and a session cache that is written and never read | register, log in, refresh with rotation, revoke one / all / all but one, reset the password | `Sessions` |
| Users `internal/user`, `internal/db/users.sql.go`, `internal/redis/cache.go` | table `users`; in Redis a cache of users | read through the cache; update profile, presence, e-mail, name, password; verify, disable, schedule deletion | `Users`, one account |
| Shield `internal/shield` | in Redis failure counters and cooldowns | check, record a failure, clear | `Users`, for log-ins |
| Bootstrap `internal/bootstrap` | none | one read of the user | `Users`, a request `"get"` |
| Gateway `internal/gateway`, `internal/redis/pubsub.go` | per process a hub: map from session to connection, two queues, a subscription; in Redis a hash per user (session -> hub), tickets | print and punch a ticket, register, unregister, heartbeat, broadcast, shut down | `Gateway` |
| Process `cmd/api` | the context that a signal cancels | start everything, serve, stop | what each part sees of it |

The others (HTTP decoding, errors, validation, configuration, mail templates,
health) keep no state. `internal/channel`, `internal/relation` and most of
`internal/bootstrap` are commented out at this commit, and the generated queries
for channels, members, messages, reactions and relations have no caller.

How they interact. A request runs a service, which writes Postgres (in one
transaction where it says `ExecTx`), then invalidates Redis, then broadcasts
through the gateway; each step after the first is best effort and only logged
when it fails. Registration and the mails of auth write an outbox event in or
beside that transaction; the worker of any process claims it and calls the
mailer. A broadcast looks up the user's hash in Redis, publishes to the hubs it
names, and each hub hands the message to its connections.

What is hard. Several processes act on the same rows and keys, each at its own
pace; a process may die between any two steps; a statement may fail, or take
effect and its answer be lost; leases and deadlines run out while their holder
is at work; state is read, then used after other requests have changed it; two
channels of one loop are not ordered; buffers fill and drop. The code has no
tests of any of this. `PROJECT.json` lists each hazard at its line.

What makes each component correct:

* Outbox: a claim is acted on by one worker and once; a result is recorded only
  by the worker whose claim is the latest; ends are final; every event ends.
* Sessions: a refresh token is exchanged at most once; a revoked session never
  becomes valid again; a change of the password or the account ends the sessions
  that rest on the old one.
* Users: the cached copy is the row, unless a known cause left it behind; a
  protected change is made by someone who knew the password.
* Shield: after too many failures an identifier is refused until its cooldown is about
  to end.
* Gateway: the hubs' maps and the users' hashes agree about live connections; a
  moved session is not unregistered by its old hub; a closed client is forgotten;
  messages arrive in order and at their user, each once.

## 2. Modules

| Module | Role |
|---|---|
| `EventDelivery` | abstract: what the outbox promises of an event |
| `Outbox` | the table, the workers, their heartbeats, time and crashes; properties; `Delivery == INSTANCE EventDelivery` with the refinement mapping |
| `TokenChain` | abstract: what refresh tokens promise of a session |
| `Sessions` | the sessions of one account, and the requests that open, refresh and revoke them or change the account; properties; `Chain == INSTANCE TokenChain` with the refinement mapping |
| `Users` | one account's row, its cached copy, the shield and the requests on them; properties |
| `PeerFeeds` | abstract: what the gateway promises of broadcasts |
| `Gateway` | hubs, connections, routes in Redis and broadcasts; properties; `Feeds == INSTANCE PeerFeeds` with the refinement mapping |
| `MCOutbox`, `MCSessions`, `MCUsers`, `MCGateway` | small instances for TLC |
| `OutboxProofs`, `OutboxDeliveryProofs` | theorems about `Outbox`: its invariants; its steps and the refinement |
| `SessionsProofs`, `SessionsRacesProofs` | theorems about `Sessions`: the chain of tokens; the races of requests |
| `UsersProofs` | theorems about `Users` |
| `GatewayProofs`, `GatewayFeedsProofs` | theorems about `Gateway`: its invariants; the refinement |

### Outbox and the code

`row[e]` is a row of `outbox_events`: `attempts`, `lockedBy`, `processed`
(`processed_at IS NOT NULL`), `wait` and `lease` (seconds left until
`next_attempt_at` and `lease_expires_at`). `task[w][e]` is what `processBatch` of
worker `w` holds of the event: queued for a slot, its handler running, or over
with the statement that records its result still to be sent. `heartbeat` is the
set of goroutines of `startHeartbeat` alive. `status[w]` is the life of a process.
`starts`, `delivered` and the field `late` are history variables: no guard reads
them.

| Action | Code |
|---|---|
| `Create`, `DeleteProcessed` | `Repository.Create`, `DeleteProcessedBatch` (the query; nothing calls it yet) |
| `Start`, `Signal`, `Stop`, `StopReturns`, `Crash` | `Worker.Start`, the signal context of `main.go`, `Worker.Stop`, the end of `run`, the process dying |
| `Claim` | `processBatch` up to the answer of `OutboxEventClaimPending`, which may be lost |
| `Dispatch`, `DropQueued` | the loop over the batch; `executeEvent` up to the handler's call |
| `HandlerReturns` | `executeEvent` from the handler's return to the choice of a statement |
| `Settle`, `SettleFails` | `MarkProcessed`, `MarkFailure`, `MarkDeadLetter`, `ReleaseLease`, and each of them failing |
| `Renew`, `RenewFails`, `HeartbeatQuits` | the loop of `startHeartbeat` |
| `Tick` | a second passes |

Abstractions. Deadlines are counted down, so no clock has to be bounded. A lease
that is NULL and one that has run out answer every query alike and are both
`NoLease` (-1); at 0 the lease expires at this very instant, when it can be
neither renewed (`>`) nor taken (`<`). The code writes and compares these times with
each process's own clock, never the database's. What is left of a lease is counted by
the clock of the process that wrote it, so its own reading is exact; another's may be
ahead by up to `Skew` ticks, and finds the lease over that much earlier
(`LeaseIsOver`). The row does not say who wrote `next_attempt_at`, so any claim may come
that much early. A clock that is behind only delays a claim, which may be late
anyhow. `SKIP LOCKED` makes concurrent claims disjoint, so they act in some
order; which of the due rows are taken is left open. A statement acts when the
database executes it; a renewal, whose two times are both read when it is sent,
acts when it is sent. A handler is its outcome: nil, an error, a fatal
error (`ErrFatal`, `ErrInvalidPayload`), `context.Canceled`, or a panic. Payloads and
error texts are left out. The polling interval is left out: a claim may happen at
any time.

`Prompt` chooses between two readings of time. FALSE: any amount of time may pass
between two steps, which covers paused processes, slow statements and handlers
that ignore their deadline. TRUE: a second does not pass while something is due;
only under it can one say that handlers do not overlap.

### Sessions and the code

`session[s]` is a row of `sessions`: its life (`revoked_at`, or the row is gone),
whether `expires_at` has passed, and `hash`, the number of the token whose hash is
stored. `account` is what the requests read and write of the row of `users`.
`consumed` are the ids in Redis (`token:consumed:*`), `resets` the reset tokens sent
and consumed, `held` the refresh tokens that reached a client. `req[r]` is where a
request is between two of its accesses, with the copy of the account it read.
`heirs`, `origin`, `lost` and `failed` are history variables: no guard reads them.

| Action | Code |
|---|---|
| `Register`; `Login`, `CommitLogin` | `Register`'s transaction; `Login` up to the password's comparison, then the session's creation with or without the reactivation |
| `Refresh`, `ReadSession`, `RevokeReused`, `Rotate` | `Refresh`: `ConsumeRefresh`, `Get` and the checks, the revocation on reuse, the rotation |
| `Revoke` | `RevokeSession`, `RevokeAllSessions` |
| `Authenticate`, `CommitPassword`, `CommitDisable` | `fetchAndAuthenticate`, then the transactions of `UpdatePassword`, `Disable` and `ScheduleDelete` |
| `ForgotPassword`, `Reset`, `RevokeForReset`, `CommitReset` | `ForgotPassword`; `ResetPassword`: `ConsumePasswordReset`, the two halves of its transaction |
| `Fail` | a statement fails, a transaction is rolled back, the process dies |
| `Expire`, `Delete` | time; the queries `DeleteBatchExpired` and `DeleteBatchRevoked` (nothing calls them yet) |
| `Forget`, `ForgetReset` | Redis loses its last writes (its log is written once a second) |

Abstractions. Every statement names one `user_id`, so one account is modelled; an id
of a session, a token or a reset is used once. The rotation compares `expires_at`
with the time at which the session was read, so it never fails on expiry.
Transactions: Postgres is at READ COMMITTED. A single statement, and a transaction
that updates the account first, act as if alone: the account's row lock orders them
and the sessions are read after it is held. `ResetPassword` revokes first and locks
the account after, so sessions created in between escape it; it is two steps,
`found` being what the first statement revokes. The opposite lock orders can
deadlock; Postgres aborts one of the two, which is `Fail`. The session cache is
written and never read (`CachedSessionRepository` is constructed nowhere); broadcasts and
mails are best effort and have no effect on this state.

### Users and the code

`row` is the account in Postgres: the text columns a request writes one at a time
(`text`, one field for each kind of request), the password, `disabled_at`,
`delete_scheduled_at`. `cached` is the value of its key in Redis (`CacheDTO`, which has
no password). A request `r` has a `kind` and is at `pc[r]` between two of its
calls, with the user it read in `copy[r]`. `failures` and `cooling` are the shield's
two keys for an e-mail; `ending` are the e-mails whose cooldown has less than half a second left. `causes`, `raced`, `knew`, `guesses` and `blind` are history
variables: no guard reads them.

| Action | Code |
|---|---|
| `Begin`, `AskShield` | the start of a service call; `CheckCooldown` of `Login` |
| `ReadCache`, `ReadMissing`, `Fill` | `CachedRepository.Get`: the key, the row, the key set |
| `Authenticate` | `fetchAndAuthenticate` and the comparison with the present value |
| `CheckLogin`, `RecordFailure` | `Login`: `GetByEmail`, the password's comparison, `recordFailureScript`, which the Redis client sends again when its reply is lost |
| `ReadForReset` | `ResetPassword`: its read of the user |
| `UpdateProfile`, `UpdatePreferredPresence`, `UpdateEmail`, `UpdateUsername`, `VerifyEmail` | the statements of those services |
| `UpdatePassword`, `Disable`, `ScheduleDelete` | their transactions |
| `WriteLogin`, `WriteReset` | the transactions of `Login` and `ResetPassword`, as far as they touch the account |
| `Drop`, `CommitSession` | `cacheDelete` and `cacheDeleteAndRevokeSessions`; the pipeline of `commitSession`, which also clears the shield |
| `CopyExpires`, `ShieldExpires` | the keys' time to live |
| `CooldownEnds` | 19.5 s of the cooldown's 20 have passed |
| `Fail` | a statement fails or a transaction is rolled back |

Abstractions. A transaction is one step and may lose its answer. The sessions that it
revokes are those of `Sessions`: here it finds some or none, which matters because
`cacheDeleteAndRevokeSessions` returns before it deletes the copy when there was
none. An update refused by a uniqueness constraint is `Fail`. The service accepts
the preferred presence IDLE, which the table's CHECK does not (`Unstorable`). A Redis
call has its effect or is lost; one that takes effect after its caller gave up is left
out. Of the calls that the client sends again after a lost reply only `recordFailureScript` does
not have the effect of its last run. A request may begin with any password as the one given, 0
standing for a wrong one.

One fact of the code shapes the shield. `GetCooldown` asks Redis for the key's TTL, which
Redis rounds to whole seconds, and takes 0 for no cooldown (`shield.go:40`). So the cooldown lets go of an
e-mail half a second before its key expires, while the counter, whose 20 s began at the same time,
is still at the limit; a failure then counts from there and sets both keys again. Over any time
longer than a cooldown the guesses at one e-mail therefore have no bound in `MaxAttempts`, and
`GuessesAreBounded` counts those between two moments at which the shield lets go.

### Gateway and the code

A hub id stands for one life of a process. `clients[h]` is the hub's map,
`registerQ` and `unregisterQ` its two channels, `busy[h]` the Redis call its loop
waits for, `sub` and `inbox` its subscription. A connection `c` carries the name of
its ticket and goes through `phase[c]`; `closed` and `closing` tell whether `Close`
was called or a goroutine is about to. `owner[u]` and `present` are the hash of user
`u`, `late` the scripts that Redis may still run though their callers gave up.
`log` tells for whom each message published was; a message carries its place in it. An event
has an entry for each target of its list, which keeps the user whose hash named it, so that
a session named by two hashes has two entries; `writing` are the hubs part way through their first
event's entries.
`cutOff`, `leaked`, `early` and `again` are history variables: no guard reads them.

| Action | Code |
|---|---|
| `Start`, `Subscribe` | `NewHub` and `Run`; `subscribe`, which may fail and then is not tried again |
| `TakeRegister`, `FinishRegister` | the case `register` of `Run`: `setClient`, then `registerClientScript` |
| `TakeUnregister`, `FinishUnregister` | the case `unregister`: `unsetClient`, then `unregisterClientScript` and `Close` |
| `BeginStop`, `EndStop` | `shutdown`: the subscription, and `clearCache`, which fails; `closeAllClients` |
| `Die` | the process dies, or `main` returns: it does not wait for `Run` |
| `PrintTicket`, `Accept`, `Open` | `PrintTicket`; `ServeWS` with `PunchTicket` (one GETDEL); `RegisterClient` and `StartPumps` |
| `ReaderEnds`, `Leave` | `readPump`'s loop and its deferred calls |
| `WriterFails`, `Flush`, `Close` | `writePump`; `flushMessageBatch`; `go client.Close()` |
| `Expire`, `LateRuns` | the hash's 90 s; a script run after its caller's 3 s |
| `ReadTargets`, `PublishBatch`, `WriteEvent` | `publish` up to its `hubEvents`; the pipeline, which may reach some of the hubs, and be sent again; one turn of the loop of `writeEvent` |

Abstractions. A Redis script is one step, and may be lost, or be run
late. A pipeline is one step; the one that publishes may reach some hubs only, and the Redis client, whose
retries are left at their default, may then send all of it again, also after later messages. The other
calls that are sent again have the effect of their last run, which is the call itself or one that is
late. The order of a list of targets is left open. The session's entry in the
hash holds the hub only: the presence it also records is read by nobody
(`SetPresence`, `GetPresence` and `GetBatchPresence` have no callers). No handler for incoming messages is registered, so a message a client sends
changes nothing. `StartPumps` goes with the send to `register`, whose order with it
nothing depends on. A flush writes what it drains at one instant. A session is
of one user, except the nil one. Sessions and users are not created or deleted.

Three facts of the code shape the model. `handler.go:53` prints a ticket without a
session id, so every WebSocket client of the API registers under the nil session:
two users on one hub displace each other in its map, the route of the first then
leads to the second, and a broadcast to the first reaches the second. The set of
sessions that tickets carry is therefore a constant, `TicketSessions`: the runs and
theorems cover tickets with the sessions the service takes and those of the handler.
And `publish` strikes the nil id from the sessions it is to reach, so
what the user service addresses to particular sessions (`ToUserSessions`, with real
ids) meets no client that the handler's tickets registered. The third is that shutdown removes no
route. `RemoveBatchClients` calls `removeBatchClientsScript.Run` on a pipeline (`cache.go:267`), where the
client library queues an EVALSHA and has no answer yet from which to fall back to EVAL; no other code
loads the script; so Redis answers NOSCRIPT, `hub.go:231` logs it, and the routes of the hub
stay until their hashes expire. The script itself is not modelled, since it never runs.

## 3. Runs

| Run | Bounds | Shows |
|---|---|---|
| `outbox_safety` | 2 processes with clocks 1 s apart, 1 event, 3 attempts, lease 3 s, all outcomes, `Prompt` FALSE | the invariants, the two action properties and the refinement of `EventDelivery` |
| `outbox_prompt` | 2 processes with clocks 1 s apart, 2 events, batch 2, 1 slot, 2 attempts, lease 5 s (handler 4 s, heartbeat 2 s), `Prompt` TRUE | `HandlersOverlapOnlyIfLate` |
| `outbox_liveness` | 2 processes with clocks 1 s apart, 1 event, 3 attempts, lease 2 s, outcomes nil and error, `FairSpec` | `EventsEnd` |
| `outbox_renewal_leak`, `outbox_stop`, `outbox_backoff` | as `outbox_safety`, with one clock | three comments of the code that the code does not keep, see PROJECT.json "findings" |
| `sessions_tokens` | 1 session, 3 requests, 4 tokens; refresh and revoke | `ExchangedOnce`, `ReuseSeenOnlyAfterLoss`, `StrandedOnlyByFailure`, the refinement of `TokenChain` |
| `sessions_account` | 2 sessions, 2 requests, 3 passwords, 1 reset; all but refresh | `SessionsFollowThePassword`, `InactiveHasNoSessions` |
| `sessions_resets` | 3 sessions, 2 requests, 3 passwords, 2 resets; login and reset | `SessionsFollowThePassword` beside two resets |
| `users_account` | 2 requests at a time and 3 in all, of every kind; 2 values, 2 passwords, 2 failed log-ins to a cooldown, of which one may have been counted before, 2 faults | `StaleCopyHasACause`, `ScheduledIsDisabled`, `CheckedChangesWereAuthorised`, `GuessesAreBounded` |
| `gateway_routes` | 2 hubs, 2 connections of 2 users, the nil session and one more, 1 message for one user, 1 fault | `LiveIsMapped`, `PresentWithASession`, `UnreachableHasACause`, `StrayRouteHasACause`, `DeadClientIsEarly`, `OtherUsersOnlyByTheNilSession`; `DeliveredInOrder` and the refinement of `PeerFeeds` under sessions of their own and a publication sent twice |
| `gateway_delivery` | 1 hub, 2 connections of 2 users under the handler's nil session, 2 messages for both users, buffers of 1, no fault, `FairSpec` | `DeliveredInOrder`, `ClosedIsForgotten`, `ReadersEnd`, the refinement of `PeerFeeds` |

### Why the bounds are enough

Outbox. A restarted process is a new worker id in the code, so the second process is
also the restart of the first. The safety properties are of one row at a time and
rows interact only through slots and batches, so one event suffices and two
workers contend for it; three attempts let a worker lose its lease, the other
finish, and the first claim again with its old task still open. A lease of 3
ticks gives the lease, the handler's deadline (2) and the heartbeat (2) different
lengths. One tick of skew separates the two readings of a lease, and is all
that the handler's deadline leaves of the lease of 5. `outbox_prompt` needs a batch larger than the slots, for the event that
waits its turn while its lease runs: that is the case in which handlers do
overlap, and the property says it is the only one. The workers (and, there, the
events) are symmetric; the liveness run uses no symmetry.

Sessions. Tokens of different sessions meet only in the revocation of all sessions,
so the chain is checked on one session with three requests at once, enough for two
to race and a third to bring an older token, and four tokens, enough for a token to
be presented after it was exchanged twice. The account runs need a session to
survive, one to be revoked and one opened by the racing request; each race is of two
requests. Ids, passwords and resets are bounded and run out, which is why those runs
do not check deadlock.

Users. A race on the cached copy or the row is of two requests; a third, begun after
one of them, meets what they left. The account may start
disabled or scheduled, with or without a copy, and with one failure less than starts a
cooldown, so that longer histories are reached from the start: four wrong passwords, one more
than the limit and the two requests allow, are within the run's three requests. Two passwords let a request prove
itself with one that was replaced meanwhile. What is begun is bounded, so the run
stops and deadlock is not checked.

Gateway. One user's session that moves needs two hubs and two connections; the nil
session shared by two users needs two users and one hub. A queue of one makes the
registration wait, and one fault loses, delays, half-publishes or repeats any one call. Order
needs two messages and buffers of one that overflow, and doubled targets two users under one nil
session on one hub. The liveness run has no faults: one that Redis or the process adds only ends a
call in the other of two ways, after which the loop goes on the same; the routes run has them. Tickets and messages run out, so
deadlock is not checked; `ClosedIsForgotten` and `ReadersEnd` say that no connection waits
for good. The symmetric sets are hubs, connections and users; the liveness run uses
no symmetry. The theorems of section 4 hold the same properties for any bounds.

### What the properties say

`LockNamesTheLatestClaim` is the reason the outbox's statements
need no fencing token: they compare `locked_by` only, and a worker ends its batch
before it claims again. `EachClaimRunsOnce` and `AttemptsCountClaims` bound the
deliveries. `FinalRowsStay` and `LiveLeaseIsKept` say what late workers cannot do.
`EventsEnd` covers lost answers, failed statements, backoff and crashes.
`HandlersOverlapOnlyIfLate` holds for clocks that differ: a dispatch is late if the lease
leaves less than the handler's time and the skew.
An event ended by attempts alone may never be recorded as dead nor
have its last try run: a crash during the last attempt leaves it so, and
`Ended` admits it.

`ExchangedOnce` and the refinement of `TokenChain` hold whatever Redis loses: the hash in Postgres
alone protects the chain, and the consumed ids only refuse earlier.
`ReuseSeenOnlyAfterLoss` says what follows for reuse detection: a token
presented twice is refused by its consumed id and revokes nothing, so that the
branch that revokes every session runs only after Redis lost the id.
`StrandedOnlyByFailure` bounds the price of consuming first: a client is locked
out of a live session only by a failed refresh or a lost answer.
`SessionsFollowThePassword` and `InactiveHasNoSessions` name the races that are
left, in `origin.unchecked`: a log-in checks a copy of the account that another
request changes, a reset revokes before it locks, a reset does not ask whether
the account is active. Each exception is needed: TLC violates the property without it.

`StaleCopyHasACause` is the whole list of ways in which the cached user differs from
the row once every writer is done: a lost invalidation, one that was skipped because
no session was revoked (`service.go:510`), and a fill with a user read before another write
(`repository_cache.go:41`, and `commitSession`, which stores the user the log-in read).
`ScheduledIsDisabled` has one exception, a log-in that decided on a copy.
`CheckedChangesWereAuthorised` is weaker than one may wish: `UpdatePassword` checks the
current password before its transaction, so what a caller proves is a password
that was valid at some time since the request began. `GuessesAreBounded` is of the stretches between two moments
at which the shield lets go of an e-mail: a log-in, the keys' end, and the last half second of a
cooldown, in which the counter stays. In each, concurrent attempts exceed the shield's limit by their
number less one, and in such a half second each request has one attempt.

`LiveIsMapped` and `DeadClientIsEarly` relate connections to the maps: none that can be
used is missing, and one that is over is there for good only if its unregister was
taken before its register, the two channels being unordered (`hub.go:92`).
`UnreachableHasACause` and `StrayRouteHasACause` relate the maps to the hashes in both
directions and list every cause of a difference: the end of a hub, graceful or not, is one, as
no route is removed then; `FaultlessRoutes` (section 4) says which of
them are left when Redis answers. `OtherUsersOnlyByTheNilSession` is
"ToUser broadcasts an event to a single target user" (`broadcaster.go:22`) with the
one exception the code has.
`DeliveredInOrder` has two exceptions: a message whose pipeline was sent again
may come late and once more, and one for several users comes to a connection under the nil session once for
each of them that its hub is named for (`broadcaster.go:169`; the services at this commit
broadcast to one user at a time). TLC violates the property without either.
`ImplementsPeerFeeds` says what is left of a broadcast once routes, hubs and buffers are
forgotten: a peer may miss any message, and reads some of those published for its user, in order
and each once but for the same two exceptions, and none after its end; under the nil session,
of those for anybody. The delivery run checks it on buffers that overflow, with every peer under
the nil session; the routes run on peers with sessions of their own, which may only be written
their user's message.

### Fairness

Outbox: goroutines are scheduled, so a batch is dispatched or
dropped; a handler returns, since its context has a deadline and the mailer's
client a timeout; each statement ends, in success or failure, since it carries a
timeout; a running worker polls, so a claim that stays possible is made; time
passes. Nothing is assumed of starts, signals, crashes, renewals or of which
way a statement ends. `EventsEnd` is conditional on some worker running from some
point on.

Gateway: the loop of `Run` takes what is in its channels, its Redis calls end within
their 3 s, the subscription's goroutine writes what waits; a goroutine that can send
or close does; a read on a closed connection fails. Weak fairness on `TakeRegister`
and `TakeUnregister` each assumes less than Go's `select` gives, which chooses at random
among the cases that are ready: here one of two ready cases may be passed over as often as the
other has an element. Nothing is assumed of
starts, signals, crashes, tickets, peers or Redis faults. Both liveness properties are
of a hub that runs: after shutdown nobody takes from `unregister` and a reader may
wait there for good (`client.go:255`), which `ReadersEnd` excludes by name.

The other modules are safety only.

## 4. Proofs

Every invariant and every action property that the passing runs check, and the three
refinements, are proved for every value of the constants that satisfies the
modules' assumptions. Liveness is model-checked only: fairness and ENABLED are beyond
the prover (`EventsEnd`, `ClosedIsForgotten`, `ReadersEnd`).

Many properties name exceptions: a race, a fault, a late dispatch. For each component a
theorem says what is left of them when their occasion is excluded by a constant:
`RoomyHandlersExclude`, `OneRequestAtATime` (of `Users` and of `Sessions`),
`OneRequestWithoutResets`, `WithoutFaults`, `OneRequestWithoutFaults`, `FaultlessRoutes` and
`FaultlessDelivery`. They show
that the exceptions are what their names say, and nothing more.

### Outbox

For any sets of events and workers and any positive bounds, with `EventsAssumption`,
`WorkersAssumption`, `OutcomesAssumption`, `BoundsAssumption` and `BackoffAssumption` (that
`2^n` is a natural number, which the SMT backend does not know of the standard
module's exponentiation; TLC evaluates it in every run).

`OutboxProofs`: `TypeCorrect`, `Invariance` (`Spec => []IInv`), and from it `LockIsToken`,
`BoundedDelivery`, `AttemptsStayCounted` and `NoFalseSuccess`. These properties are not
inductive: a worker with a task of a claim the row has not counted, or a row
not yet created that already has a lock, would break each. `IInv` adds
`TasksAreCounted` (the claim of a task lies in `1..attempts`, and a task about to record
success has been delivered) and `UnbornIsUntouched`. Then a new claim has a number
above all tasks' and all starts', which keeps claims distinct; a worker that claims
holds no task (`BatchDone`), which keeps `locked_by` a token; and the statements'
`WHERE locked_by` with the token keeps `attempts` at or above every claim. Actions that
touch neither row locks nor claims share `QuietStep`; `Claim`, `Dispatch` and `Settle`
have a lemma each.

`OverlapIsByLateDispatch` assumes `Prompt`. Its invariant, `HandlersHoldTheirLease`, says
that a handler dispatched in time owns its row and that what is left of its deadline
and the skew together are no more than what is left of the row's lease. Time takes one from both and does not
pass while a deadline is due; so the handler is over before anyone can claim the row.
Heartbeats only lengthen the lease: the property does not rest on them.

`RoomyHandlersExclude` has no exception: if moreover `BatchSize <= Slots` and
`HandlerTicks + Skew <= LeaseTicks` (`Roomy`), no two handlers of an event run at once. Its
invariant, `InTime`, says that a worker's tasks never exceed a batch (`BatchFits`),
that a task waiting for its turn still has its whole lease, since a free slot is due at once,
and so that none is late. The fifth of the lease that the handler's timeout keeps back
(`worker.go:374`) is therefore the skew the design tolerates. The defaults of
`config.go:61`, a batch of 100 on 10 slots, are not roomy: there the exception is real.

`OutboxDeliveryProofs`: `EndsAreFinal` and `LiveLeases` from a classification of what a
step does to a row (`RowCases`: it stays but for its times, is created or purged, is claimed, or is
unlocked by its owner); `Refinement` (`Spec => ImplementsEventDelivery`), which needs one
more invariant, `HandlersWereStarted`: the claim of a handler that runs is among the
starts, so that its success is a delivery of a try that was made.

### Sessions

For any sets of sessions, requests and kinds and any bounds, with `SessionsAssumption`,
`KindsAssumption` and `LimitsAssumption`.

`SessionsProofs`: `Invariance`, and from it `TypeCorrect` and `SingleExchange`; and
`Refinement` (`Spec => ImplementsTokenChain`). `ExchangedOnce` is not inductive: a token
exchanged before could become current again. `TokensInOrder` says that exchanged
tokens are older than the current one; `RefreshesNameSessions` that a request past
`ConsumeRefresh` knows its session. `Effects` classifies every step by what it does to
lives, hashes and exchanges: it closes some sessions (or none), opens one and closes
some, or exchanges a token. `OrderStep` and the step of the refinement then have
three cases instead of twenty.

`SessionsRacesProofs`: `RacesInvariance` adds two groups to it. `AccountInv` holds the two
properties of the account with `ResetsFoundTheSessions` (a reset between its two
steps has found every live session but those opened since, which are `unchecked`) and
`NothingBeforeRegister`. `TokensInv` holds the two of the tokens with
what consumption guarantees: a token below the current one was presented
(`OldTokensWerePresented`); a request past consumption presented the current token or
an older one; and unless Redis lost an id, only one request has it (`OneFlight`). From these follow
`ReuseMeansLoss`, `StrandedMeansFailure`, `PasswordChangeEndsSessions`,
`DisablingEndsSessions`.

If there is one request at a time (`OneRequest`), what it has read of the account is still
so (`CopiesAreCurrent`) and a reset revokes every session (`ResetsFoundAll`): every live
session rests on the present password (`OneRequestAtATime`). That an inactive account has no
session needs one more assumption, that nobody resets the password
(`OneRequestWithoutResets`): a reset opens a session without asking whether the
account is active, and no race is needed for it.

### Users

For any finite non-empty set of requests, any kinds, values and bounds, with
`KindsAssumption`, `ValuesAssumption`, `BoundsAssumption` and `NoCopyAssumption`.
`UsersProofs`: `Invariance`, and from it `TypeCorrect`, `StaleCopies`, `ScheduledAccounts`,
`AuthorisedChanges`, `BoundedGuesses`. `IInv` has, beside the first two properties,
`Shape` (which requests are at which steps and what they hold), `Knows` and
`Authorised` (whoever gave the row's password is known to have known it, and a
checked change is authorised from its check on), and `Counted`: a counter at the limit
has its cooldown, and no other has; and unless the shield missed a call, the wrong guesses at an e-mail
are no more than its counter and the requests about to record one, and together with the
attempts under way they stay below the limit plus the number of requests, while in the last half
second of a cooldown they are no more than the requests about to record one. An attempt that
begins found no cooldown, hence a counter below the limit, or a cooldown that is ending; every other
guess or attempt in the sum is a request of its own: the proof compares cardinalities of these
disjoint sets of requests.

`WithoutFaults` (`MaxFaults = 0`; invariant `Told`): the cause "lost" never occurs and the
bound on guesses has no exception. `OneRequestAtATime` (`OneRequest`; invariant `Alone`, that a
request about to fill the cache or to log in holds the row as it is): the cause
"raced" never occurs, `ScheduledIsDisabled` has no exception and the shield's limit is exact between two moments at
which it lets go: `MaxAttempts` guesses, and one in the last half second of a cooldown. Of
the causes of a stale copy only "early" survives both, and it is no race and no fault:
`OneRequestWithoutFaults` says that then the account was disabled, or its deletion
scheduled, while it had no session to revoke (`service.go:510`), and that only its state
is behind. So an account that its owner disabled may be read as active, for a day or until
the next change. Its invariant, `OnlyTheStateIsBehind`, holds as long as no request is settling.

### Gateway

For any sets of hubs, connections and users, any finite set of sessions and any
bounds, with `NamesAssumption`, `SessionsAssumption`, `AudiencesAssumption`,
`EventAssumption` and `BoundsAssumption`. `GatewayProofs`: `Invariance`, and from it
`TypeCorrect`, `LiveConnections`, `DeadConnections`, `PresenceFollowsRoutes`,
`ServedIsReachable`, `RoutesLeadHome`, `OwnMessages`, `OrderedDelivery`. The parts of
`IInv`, each preserved under those before it:

* `Wiring`: where a connection may be named. It is in a queue or in the map only of its hub
  and after it was sent there, at most once in each queue (`Entered`, `Queued`,
  `Placed`, `Worked`, `Once`). Everything else rests on it.
* `LiveIsMapped`, `DeadWaits` (which gives `DeadClientIsEarly`).
* `PresentWithASession`: the two scripts count the fields of the hash; this is where the
  sessions must be finite.
* `UnreachableHasACause` and `StrayRouteHasACause`.
* `OneUser`, `RoutesHeld`, `Addressed`, `Written`: a session other than the nil one belongs
  to one user, hence a route, a target read from it and an event on its way name
  sessions of a user the message is for, however old they are by the time they are used.
* `Blank`, `Recorded`: every message under way has a number, and `log` says of it for whom it is. This is
  what tells a publication sent again from another message of its number.
* `InOrder`: what a connection has got and is to send is in the order `DeliveredInOrder` asks for
  (`ConnInOrder`), each event that waits at its hub comes after it, and the events of a hub come one
  after the other (`HubInOrder`), in each case but for those published again. The event that is being
  written is the hard case: a connection may have its message already (`Awaits`), and then the entry
  that gave it is no longer among those still to be written. A session other than the nil one is in one
  entry only, by `Addressed` and `OneUser`; the nil one in at most one for each user.

`GatewayFeedsProofs`: `ImplementsFeeds` (`Spec => ImplementsPeerFeeds`). A step of the gateway is one of
`PeerFeeds` or a stutter (`Noticed` lists those that a peer or a publisher can tell). It needs one more
invariant, `Buffers`: a flush drains no more than a buffer, which is how many `PeerFeeds` lets a peer
read at once, and of a connection that is over nothing is kept.

`FaultlessRoutes` and `FaultlessDelivery` (`MaxFaults = 0`: Redis answers, and no hash of a connected user
expires), with the invariant `Faultless`: no script is late and nothing is published again; a route is
cut off only from a connection that is over or
has a rival, which is one of its user and session on another hub; and one is leaked only under
the nil session or to a hub that has stopped or died. So a served connection that has no rival is
reachable; a route of a session of its own leads to a connection of its user, is about
to go, or names a hub that has ended, gracefully or not: the 90 s of the hash are all that removes it;
and a peer reads each message once and in order, but for the doubled targets of the nil session.

## 5. Plan

Done: the outbox, sessions, users with the shield, and the gateway, modelled, checked
and proved as above. What is left, in order of use:

1. A composition of `Sessions` and `Users`. Each abstracts what it needs of the other (a
   revocation finds some sessions or none; the account is a record), so that whether a
   revocation finds none, which is what leaves a stale copy behind, is open in `Users`.
2. Whether an address is verified: `UserUpdateEmail` leaves `verified_at` and a
   verification token names the user only, so an address may count as verified that
   nobody verified. `Users` has both columns and no relation between them.
3. The packages that are commented out, once they run.

## 6. Not modelled

* `internal/channel`, `internal/relation` and most of `internal/bootstrap`: commented
  out as a whole. The generated queries `channels`, `members`, `messages`, `reactions` and
  `relations` in `internal/db` have no caller. These are most of the lines no module
  stands for.
* Operations that nothing calls: the anonymisation of users (`AnonymizeBatch`;
  it sets `password_hash` to the empty string, which the table's CHECK on its
  length refuses, and `ListDeleteScheduled` selects FOR UPDATE outside a
  transaction), the batch reads of users and the helpers of `internal/redis/cache.go` for
  batches, sets and hashes.
* The cooldowns of the mails for password resets and verifications, which only delay a
  mail; rate limiting, a library call that fails open; the uniqueness of names and
  addresses between accounts, which makes an update fail.
* Wiring of the process and the HTTP server: a module sees a process start, be
  signalled, stop and die.
* HTTP decoding, validation, formatting, hashing, signing, e-mail templates,
  configuration, health checks: no state or pure conversions. Connection pools and
  the drivers are external. The Postgres isolation level is the default;
  transactions are one step where the order of their row locks makes them act alone,
  and several where it does not (section 2).
