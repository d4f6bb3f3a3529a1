# Sessions, streams and transactions of the Node.js Spanner client, in TLA+

The repository is the Node.js client library for Cloud Spanner. Its own logic is in `src/src/`; `src/src/v1`
and `src/protos` are generated, and the rest is tests, samples and build files. This project models the parts
whose correctness depends on the order of things: who holds which session, what happens between two awaits,
what a lost reply, a timer or `close()` does to work in progress.

## 1. Inventory

Everything runs on one JavaScript event loop. Interleaving happens at `await`s, in event listeners, in timers
(`setInterval`, `setTimeout`, `setImmediate`) and when RPCs complete.

| component (source) | state | operations | talks to |
|---|---|---|---|
| SessionPool (`session-pool.ts`) | inventory stack, borrowed set, `_pending`, waiters, traces, two PQueues, two timers, `isOpen` | open, close, getSession, release; evict, ping, fill; batch create, delete | callers by promise; the waiter by events; backend by RPC |
| MultiplexedSession (`multiplexed-session.ts`) | the session, the shared promise, the refresh timer | createSession, getSession, refresh | `Database.createSession` |
| SessionFactory (`session-factory.ts`) | three flags from the environment | getSession (three kinds), release | the two above |
| Session (`session.ts`) | id, `lastUsed`, `lastError`, `txn` | create, delete, keepAlive, transaction constructors | RPC |
| Database, users of sessions (`database.ts`) | none but closures: session, transaction, stream | runStream, runTransaction(Async), getSnapshot, getTransaction, createBatchTransaction, writeAtLeastOnce, batchWriteAtLeastOnce, runPartitionedUpdate | SessionFactory, Transaction, runner |
| Snapshot, Dml, Transaction (`transaction.ts`) | id, `_inlineBeginStarted`, `_waitingRequests`, precommit token, queued mutations, `ended` | begin, read, run, batchUpdate, commit, rollback, end | RPC; 'end' event to Database |
| TransactionRunner (`transaction-runner.ts`) | attempts, transaction, previous transaction id | run with retry, backoff, deadline | Transaction, user function |
| PartialResultStream (`partial-result-stream.ts`) | pending value, half row, last token, chunks since it, queue | chunk, resume, pause, retry, end | request stream, user's stream |
| BatchTransaction, MutationSet/Group | what the user put in | partitions, mutations | Transaction |
| Spanner, Instance (`index.ts`, `instance.ts`) | caches of clients, instances, databases | get, close, delete | Database |
| Request ids (`request_id_header.ts`) | process counters | number clients, requests, attempts | every RPC |
| codec, helper, common, common-grpc | none | conversions, error predicates | all |
| Backup, Table, InstanceConfig, database administration | none | one RPC each | backend |
| metrics, instrument | recorders | spans, latencies | never the control flow |

The hard behaviours, each listed at its line under `hazards` in `PROJECT.json`:

- *the pool*: a waiter is woken by an event and pops later; three independent sources of `_createSessions`
  under one limit; batches that are answered in part; pings that hold a session over an await while the pool
  closes; eviction with two limits; validity against a clock; a queue of concurrency one in which one waiter
  blocks all others; `close()` racing replies.
- *the multiplexed session*: many who ask at once, failures of the call all wait for, a timer that only one
  path sets, expiry.
- *result streams*: a request that breaks between any two chunks, with a value and a row half received, some
  chunks held back and some under way; a reader that is slow at the same time; a bounded queue.
- *transactions*: the first request begins the transaction as it runs and the others wait for its id; responses, and the
  tokens they carry, arrive in any order; requests break and are repeated; a commit may have to begin, or be repeated.
- *the runner*: an attempt is given up while its function still runs and its requests are still being answered; a
  commit is made and its answer lost; the deadline passes during a delay.
- *the users of sessions*: ten operations, each with its own way of giving a session back: callbacks, stream listeners, the 'end'
  event of a transaction on a later tick, `abort()`; each with its own idea of which error means "try another session".

What makes each component correct: the pool and its callers agree on who has what, nothing is lost, nothing is
shared, limits hold and requests are answered; the shared session is created once, refreshed in time and never
null; a transaction gets one id and everyone who waits for it goes on; a runner commits once or reports; a
stream delivers each row once and in order; a cache never hands out what was closed.

## 2. What is modelled

### SessionPool.tla

One action per piece of code between two awaits. The variables correspond to the code as follows.

| variable | code |
|---|---|
| `mode` | `isOpen`, with the time `close()` awaits its deletes told apart ("closing") from before `open()` and after the callback |
| `sessions`, `borrowed` | `_inventory` (the array is a stack: push and pop at its end) |
| `pending` | `_pending` |
| `creating[n]` | number of loops in `_createSessions` that await a batch and still owe n sessions |
| `arriving` | sessions in the `setImmediate` callbacks of a batch |
| `pinging`, `discarding` | sessions of the ping round: keep-alive unanswered; failed and being deleted |
| `deleting` | deletes in `_requests` |
| `phase`, `queue`, `late` | the promise of each caller: waiting in `_acquires`, running its turn, waiting for an event, woken, holding; whose `acquireTimeout` has passed in the queue |
| `held`, `traces` | the session given to the caller, `_traces` |
| `age` | `Date.now() - lastUsed` of the sessions in the inventory |
| `alive` | the sessions that exist at the backend |
| `failFast` | `options.fail`, chosen in `Init` and never changed |

`Quiet` is the event loop's order: timers, RPC replies and immediates run when no promise reaction is ready.
User code (getSession, release) may run between two reactions, since it runs in reactions itself; only the
reaction that ends `close()` goes before it.

| actions | code |
|---|---|
| `GetSession`, `GetSessionClosed`, `StartNext`, `Retry`, `Resume`, `TimeOut`, `BecomeLate` | `getSession`, `_acquire` and `_getSession`, cut at the queue and at `Promise.race` |
| `Release` | `release`: unknown session, lost session, return to the inventory |
| `BatchReply`, `BatchError`, `Arrive` | the loop of `_createSessions` and its immediates |
| `EvictIdle`; `PingIdle`, `PingOk`, `PingFail` | the two housekeeping timers; the second ends in `_fill` |
| `DeleteDone` | `_destroy` |
| `Open`, `Close`, `FinishClose` | `open`, `close` before and after `onIdle` |
| `Tick`, `Expire` | the clock and the backend |

What the model leaves out, and why nothing is lost by it: timers fire at any time, which includes their
periods; time is in ticks and only "idle" (`IdleAge`) and "expired" (`ExpiryAge`) are told apart; a new ping
round starts when the last is over (an RPC's deadline is far below the 30 minutes between rounds); deletes run
at once because `concurrency` is unbounded by default; a session deleted twice (by `close()` and by a failed
ping) is one element of `deleting`; a batch is never answered with no session at all; sessions are pushed as
used now and the array is never reordered, so the idle ones are a prefix of it, which `OldestFirst` checks.
Each caller releases what it holds once; that the users in `database.ts` do is what `SessionUse` shows, with its exceptions.

### SessionLease.tla

The promise to the callers without queue, inventory or timers: a session is leased to one caller at a time, is
alive when it is granted while the pool is open, and is not retired under its borrower while the pool is open.
`SessionPool!RefinesLease` instantiates it with `open <- mode = "open"`, `live <- alive`, `lease <- held`.

### MultiplexedSession.tla

`session` is the age in weeks of the cached session, or `NoSession`. `shared` and `inflight` are kept apart on
purpose: the first is the code's promise, the second counts RPCs, and `SingleFlight` says they agree. `upkeep`
is the fate of `_maintain()`. A week passes only between calls (a call's deadline is far below a week);
weeks beyond expiry are all alike. `misses` is a history variable.

### PartialResultStream.tla and RowStream.tla

A chunk passes `pipe` (merge-stream's `requestsStream`), `queue` (checkpoint-stream) and `inbox` (what
`PartialResultStream` was written and has not transformed). Its data are abstract: the result is the fragments
1..`Total`, `ValueEnds` says which of them end a value (`Complete`, `FirstOf` and `LastOf` count and delimit the values, `Pieces` is what a stretch of
fragments carries), and a received value is the sequence of fragments joined into
it, so that anything lost, repeated or joined wrongly shows. A resume token is the number of fragments it covers. The
server chooses the size of each chunk, where tokens are, and whether the last chunk is marked. A chunk may carry no values at all
(metadata, statistics, or a token only): `_transform` then does not call `_addChunk`, and `HasValues` guards it in `Transform` as there.
`BareTokens` says after which fragments such a chunk may carry a token.

| actions | code |
|---|---|
| `Start`, `MakeRequest` | `makeRequest`, on 'reading' and in `retry` |
| `Send`, `Break` | the server; the intercepted 'error' |
| `End` | `endListener`: the fake token `_`, then the end of all streams |
| `Checkpoint` | the checkpoint stream with `isCheckpointFn` and the 'checkpoint' listener |
| `Transform` | `_transform`, `_addChunk`, `_addValue` as one synchronous step |
| `TryResume`, `Read` | `_tryResume`'s timer; the reader |
| `Retry`, `Remake`, `Abandon`, `Report` | `retry`, cut at its `setImmediate`s; `destroy` |

`gate` says whether `next()` was called, is waiting for the timer, or never will be. `Settled` is what `setImmediate` gives:
everything the streams can move has moved, which is less than everything while the reader is slow. Three
assumptions are about libraries outside the repository: checkpoint-stream passes its queue on when it would hold
more than `maxQueued` chunks (the reading on which `withoutCheckpointCount > maxQueued` is the right test; if it did so
one chunk earlier, a retry just then would repeat rows); it passes its queue on before it reports the error it is
destroyed with, as the comments in `retry` say; and a paused stream keeps what it has. In object mode Node puts the probe `push(undefined)` of
`_tryResume` into the reader's buffer like any element, where it takes room until it is read; `Stops` therefore lets `push()` say stop before
the rows alone fill the buffer of a reader that is slow. What such a reader sees of the probes themselves is left out. A deadline may pass at any break. `merge` joins the parts of a value (strings,
lists); that numbers and nulls are never split is the server's business.

`RowStream` is what a reader is promised: the rows, each once and in order, then the end, or an error at some point.
`PartialResultStream!RefinesRowStream` instantiates it with `seen <- out`.

### Transaction.tla

One read/write transaction, its requests in flight, and the backend's side of them. Transaction ids and tokens are numbers
in the order the backend issues them. Executing a statement and hearing of it are two actions, so answers overtake each other.

| variable | code |
|---|---|
| `inRunner`, `id`, `begun`, `token`, `ended`, `retried` | `_useInRunner`, `id`, `_inlineBeginStarted`, `_latestPreCommitToken`, `ended`, `_retryCommit` |
| `phase[c]` | a `read`, `run`, `runStream` or `batchUpdate` call: opened but not read, in `_waitingRequests` ("waiting"), sent, flowing, broken, over |
| `direct[r]` | which function `_wrapWithIdWaiter()` returned when the stream was opened |
| `selector`, `ranIn`, `reply` | the transaction a request names, the one the backend ran it in, the token in the answer |
| `beginning` | who waits for a `BeginTransaction`: the user, the error listener of a stream, `commit()` |
| `commit`, `carried`, `target`, `rollback` | the commit, its token and transaction id; the rollback |
| `started`, `issued`, `committed` | the backend |
| `heard`, `hopeless` | history: the tokens received; that the beginning failed and nobody will try again |

| actions | code |
|---|---|
| `OpenStream`, `ReadStream`, `Repeat` | `createReadStream`, `runStream`; 'reading'; the repeat of `partialResultStream` |
| `BatchUpdate`, `Begin` | `batchUpdate`, `begin` |
| `Execute`, `Respond`, `Complete`, `Break`, `Fail` | the backend; the 'response' and 'error' listeners and callbacks |
| `Commit`, `BeginOk`, `BeginFail`, `CommitAsked`, `CommitOk`, `CommitFail` | `commit` before and after its `begin()`, and its callback |
| `Rollback`, `RollbackDone`, `End` | `rollback`, `end` |

A user commits, rolls back or ends when his calls have called back, and calls `begin()` before anything else or not at all:
what happens when he commits past a request in flight is his own doing. `Overlap` says whether `batchUpdate()` may run beside a call
that is beginning the transaction: it may in the code, and that is a finding; the other properties are about transactions
in which it does not. Mutations, options and statements are left out: no control depends on them.

### TransactionRunner.tla

Attempt n runs the user's function on transaction n; the function of an earlier attempt stays, as it does in callback
mode. `callback` chooses between the two runners. `loop` is where `run()` is, `attempts` and `verdict` its counter and
the promise of `_run()`; `fn`, `req` and `tx` are the functions, their requests ("cut": intercepted, the function never
hears of it) and the transactions at the backend; `lost` counts commits that were made and reported as failed.

| actions | code |
|---|---|
| `GetTransaction`, `BeginOk`, `BeginFail` | `getTransaction`, which begins from the second attempt on |
| `Settle`, `Wake` | the `try`/`catch` of `run`; the delay and the loop's condition |
| `Issue`, `Answer`, `Throw` | requests, `_interceptErrors`, the rejection in promise mode |
| `Commit`, `CommitBegun`, `CommitUnbegun` | `commit()`, which has to begin the transaction itself if no request of the first attempt brought its id (`MayHaveId`, `MayLackId`), and that begin's success and failure |
| `Committed`, `CommitFail`, `Finish` | how a function ends |

`CommitUnbegun` is where the two modes differ: an error that is not intercepted goes to the callback of `commit()`, and `end()`, which
`_run()` waits for in callback mode, is not called (`transaction.ts:2423-2427`, `transaction-runner.ts:353-357`). The function is then "unended" and
`run()` waits for ever; in promise mode `commit()` rejects and so does `_run()`.

What is assumed of the function: it goes on when its requests have called back, does not swallow the error of its commit, and
ends by `commit()`, `end()` or a `rollback()` that has an id (one without an id never emits 'end', which is among the
leaks below). It may swallow the error of a request. Left out is the `begin()` that a stream's error sets off and nobody
awaits (`transaction.ts:952`, `:1572`): it is taken to succeed, or to fail with an error the runner does not intercept. Time is the choice in `Wake`: the deadline has passed or not.

### SessionUse.tla

The ten operations of `database.ts` that take a session from `SessionFactory`, over a pool reduced to what `SessionLease`
promises. What one operation does differently from another is in a few tables (`Listens`, `Begins`, `Restarts`, `Registers`,
`Releases`); `mux` is `isMultiplexedEnabled()`. With the defaults of the three environment variables, and with any values of the
other two, the three getSession methods all go the same way, so one flag is enough.

| variable | code |
|---|---|
| `op`, `at`, `session` | a call, where it is, the `session` of its closure |
| `nested` | its stream is `dataStream = this.runStream(...)` piped into the user's |
| `free`, `noted` | the pool, `session.lastError` |
| `ticks` | sessions whose 'end' event is due on the next tick (`_releaseOnEnd`) |
| `dead`, `twice`, `known`, `by` | the backend; history: a double release, lost sessions known to be lost, who had a session last or how it was abandoned |

The actions are the steps every operation is made of: `Start`, `GetSession`, `Begun`, `Flow` (first data), `BeginAgain` (aborted),
`Restart` ('Session not found'), `Complete`; what its user does (`UserEnds`, `RollbackUnbegun`, `StopEarly`, `Abort`); and `EmitEnd`, `Lose`,
`Refresh`. A `TransactionRunner` inside `runTransaction` is reduced to what `TransactionRunner` shows of it: it begins again after
an abort and settles, unless its function is still "fresh" (nothing has begun its transaction) and its `commit()` cannot begin it
(`CommitUnbegun`) or its `rollback()` finds no id (`RollbackUnbegun`): then the user hears of it from the callback of these, and the session is not released. A request on a lost session fails with 'Session not found', and no other does. Releasing a
marked session replaces it, as `SessionPool!ReleaseLost` does; the name then stands for another session.

## 3. What is checked

Sessions and callers are model values; no action names one of them, and `MCSessionPool` adds the symmetry set, which
only its safety run uses.

| run | instance | shows |
|---|---|---|
| `pool_safety` | 3 callers, 4 sessions, min 1, max 3, incStep 2, maxIdle 1, timeouts | bookkeeping: `WithinMax`, `PendingExact`, `NoSharing`, `LeaksExact`, `WokenFindsSession`, `OldestFirst`, `InUseNotDeleted`, `EvictionBounded`, `NothingOrphaned`; the pool implements `SessionLease` |
| `pool_liveness` | 2 callers, 3 sessions, min 1, max 2, no timeout, with and without `fail` | requests are answered, with `fail` although nobody needs to release; `close()` calls back |
| `pool_shortage` | 2 callers, max 1, min 0 | finding: `ShortageFilled` fails |
| `mux_session` | 3 callers, expiry after 5 weeks | `SingleFlight`, `NeverNull`, `FourChances`, `Answered` |
| `stream_resume` | 2 rows of 2 values in 5 fragments, one chunk without values, 2 breaks of either kind, deadline, queue of 2; a reader's buffer of 1, never repeated while it is full, or larger than the result | the stream implements `RowStream`; `ResumesWhereItStopped`; `Settles` |
| `stream_paused_resume` | 2 rows in 5 fragments, reader's buffer of 1, one retryable break | finding: `NothingTwice` fails |
| `stream_bare_token` | 2 rows in 5 fragments, a reader that keeps up, one chunk with a token and no values, one retryable break | finding: `RowsProper` fails |
| `transaction` | 2 streams, 1 batch, 1 break, 1 request to repeat the commit, in a runner or not | `BeginsOnce`, `NothingLost`, `SendsNewest`, `IdArrives`, `CommitAnswered` |
| `tx_overlap` | the same, `Overlap` | finding: `BeginsOnce` fails |
| `tx_queue` | 2 streams | finding: `QueueServed` fails |
| `transaction_runner` | 3 attempts, 2 requests each, both modes | `StaleNeverCommits`, `AppliedOnce`, `FailedMeansNothing`, `RunSettles` |
| `session_use` | 2 calls, 2 sessions, 2 losses, all 10 operations, pool or multiplexed | `InOnePlace`, `ReleasedOnce`, `NoOtherLeak`, `RetriedElsewhere`, `CallsSettle` |

The bounds are enough for the cases that matter. Three callers are the least for one that waits, one behind it
in the queue and one that holds and releases. Four sessions and max 3 leave room for one to be lost or evicted
and replaced while others are pending; incStep 2 makes partial batches; two idle sessions with maxIdle 1 and min 1 make
both limits of eviction bite; IdleAge 1 and ExpiryAge 2 separate fresh, idle and expired. Model values are
never renewed: once a session is gone from the backend and from the books it is fresh again, which stands for
one never seen. `creating` has entries for batches up to `MaxSize`, which no request exceeds.

For the stream: one value is split, so breaks fall inside a value,
between values and between rows; a queue of 2 is overrun by chunks without a token; two breaks
are the least that a count kept over a retry can matter. A buffer larger than the result is a reader that keeps up; one of
size 1 is full after every row. In `stream_resume` a request is not repeated while the second kind of reader is slow
(`RepeatPaused = FALSE`, `KeepsUp`): both at once is the finding. Its one chunk without values may come anywhere, with a token only
before the value that is split (`BareTokens = {0, 1}`): later ones are the other finding.

For the transaction: one stream that begins, one that waits, and a batch that does neither are the three kinds of calls, so
each order of opening, sending, executing and answering two kinds against the third occurs; one break is enough for a
stream that has begun to begin again; the backend asks for a commit to be repeated once, as its protocol says. For the
runner: attempts 1, 2 and 3 are the first (no begin), one that begins and is given up, and one that begins after two
functions were left behind; two requests are one that fails while the other is in flight. For the users: two calls
and two sessions are enough for a session that is given back to be lent to the other while its first user goes on, and two
losses for a retry that is lost again; an operation knows nothing of others but through the pool.

Deadlock checking is off where things end: a stream, a transaction, a run, or a set of calls that are all done. A closed pool
goes on refusing requests, and the multiplexed session goes on, so there it is on.

**Fairness.** `LoopFairness` is weak fairness of promise reactions and immediates (the event loop runs them),
of every RPC (gRPC calls carry a deadline, so there is an answer or an error), and of the ping timer
(`setInterval`). It does not include eviction, `Tick`, timeouts or new requests. `ReleaseFairness` says that
callers give back what they borrow; with `failFast` it assumes nothing of them. The multiplexed session assumes only
that a call is answered. The stream assumes that the server answers or the request fails, that streams move, timers fire
and immediates run; it does not assume that the reader reads, so `Settles` rests on the limit of `_tryResume`.
With `MinSize = 0` the pool does not answer everyone even under this fairness:
that is the finding of `pool_shortage`, and `pool_liveness` has `MinSize = 1`, where the ping timer's fill helps out.

The transaction assumes that RPCs are answered (gRPC deadlines) and broken requests repeated (`partialResultStream`'s `setImmediate`);
nothing makes the user call, read or finish, which is why `IdArrives` excepts a stream that is to begin and is never read.
The runner assumes that timers fire, requests are answered and the function comes to an end. The users of sessions assume
strong fairness of `GetSession`, because the pool serves its queue in order, and of an operation's completion, because the
backend does not abort or lose the same operation for ever (losses are bounded too); that events are emitted; that the lost multiplexed
session is refreshed; and that users end what they were given.

## 4. Findings

1. *Waiter forgotten.* `release()` of a session the backend has lost frees a place without an event, and a
   waiter asks for sessions only once, before it waits. With `min` 0 it waits until somebody releases; with a
   larger `min`, up to 30 minutes for the next ping round. (`session-pool.ts:540`, `:895`)
2. *Rows corrupted by a retry under back-pressure* (`stream_paused_resume`). When the reader is slow, chunks wait behind
   `_tryResume`'s timer and in the paused `requestsStream`. A retryable error at that moment restores the half value of an
   earlier token and repeats the request at once, although `retry` means to wait for them: a stale half value is joined to
   the next chunk, or chunks are processed twice. (`partial-result-stream.ts:583-593`, `:294`, `:617`)
3. *Rows corrupted after a token without values* (`stream_bare_token`). `_transform` skips `_addChunk` for a chunk without values, but the
   'checkpoint' listener still takes its token. Let a chunk with a token bring half a value, one without a token complete it, and one with
   a token carry nothing: what is kept for resuming is still the half value of the first token. A retryable break now resumes after the
   last one with that half put in front, and the rows from there on are wrong, however fast the reader is. Findings 2 and 3 are the only
   ways (`RowStreamIfDrained`). (`partial-result-stream.ts:244`, `:294-300`, `:328-335`, `:613`)
4. *Two transactions* (`tx_overlap`). `batchUpdate()` neither takes nor respects the lock of the inline begin: beside a stream whose answer
   is outstanding it begins a transaction of its own. The second answer is ignored and its statement, reported
   as done, is not part of what is committed. It is the only way (`BeginOnceIfApart`). (`transaction.ts:2181`)
5. *Waiting for what has come* (`tx_queue`). Whether a stream's requests queue for the id is decided when it is opened. If it is first read,
   or breaks and is repeated, after the id arrived, its request is put in a queue that nobody empties again, and the stream hangs.
   (`transaction.ts:1822-1836`)

The first is `pool_shortage`. Modelling also showed the following. Those about sessions that leak, runs that hang and errors nobody hears
are exceptions written into `NoOtherLeak`, `CallsSettle` and `RunSettles`, so that the runs show there are no others; the rest no run is about.

- *A run that hangs.* A first attempt in callback mode that only queues mutations begins its transaction in `commit()`. If that `begin()` fails,
  `commit()` calls back without `end()`, and `_run()` never settles: `run()` hangs and the session is not released
  (`transaction.ts:2423-2427`, `transaction-runner.ts:353-357`). `RunSettles` excepts it (`Unended`), and `OnlyUnbegunWaits` proves that it is the only case.
- *Leaks.* `createBatchTransaction` does not release after a failed `begin()` (`database.ts:919-929`); `batchWriteAtLeastOnce` does not
  after any error, nor when it restarts (`:3647-3677`); `rollback()` of a transaction without an id, and `commit()`
  whose own `begin()` failed, call back without `end()` (`transaction.ts:2803`, `:2423`); a user who ends the stream of
  `runStream` early, as its documentation suggests, keeps the snapshot from ending (`database.ts:3137-3145`).
- *Errors nobody hears.* `runStream` and `batchWriteAtLeastOnce` pipe the stream of their retry into the user's; an error of it is
  uncaught and the user's stream neither ends nor fails (`database.ts:3207`, `:3668`). The `begin()` that an 'error' listener starts for
  the waiting requests is not awaited (`transaction.ts:952`); if it fails with an error the runner intercepts, the attempt is given up
  while its function goes on, and may still commit. No module models that last step.
- *A commit that was not made.* Asked a second time to repeat a commit, the client reports success (`transaction.ts:2476-2507`); the backend's
  protocol asks once.
- *A retry's begin.* The runner begins a retry's transaction outside its `try`: the error is not looked at for a retry and leaves no
  `lastError`, so a lost session returns to the pool as good (`transaction-runner.ts:244`). A commit whose answer was lost by an
  INTERNAL error is repeated (`:258`): `AppliedOnce` counts these.
- *The pool.* Sessions under creation when the pool closes outlive it (`session-pool.ts:721`, `:426`); requests queued when it closes
  may be handed a session that is being deleted (`:568`, `:580`).
- *The multiplexed session.* If the start-up call fails the refresh timer is never set (`multiplexed-session.ts:95`); the cached session
  is returned whatever its age (`:228`). Operations that meet it lost start over on the same one without delay (`database.ts:3352`, `:3533`, `:3652`).
- *Caches.* `Database.close()` removes its bare name from the instance's cache, whatever key it is kept under and whichever object is there
  (`database.ts:864-866`, `instance.ts:973-980`): a database opened with pool or query options is handed out again after it was closed, and
  closing it, or closing an old object twice, makes the instance forget an open namesake, which `Instance.delete()` then does not close. The role
  is no part of the key, so that a second caller gets the first one's. `Instance.delete()` removes the name as it was given, the cache has its last part (`instance.ts:1078`, `index.ts:1588`).
- *Request ids.* Requests made on a session carry client id 1 whichever client they are of, because the header is made from `_nthClientId`
  of the database, which has a `_clientId` (`request_id_header.ts:168`, `database.ts:488`); two databases of a client count from 1 each.

## 5. What is proved

The theorems of the eight proof modules hold for every value of the constants, from the assumptions
named in the modules: `OptionsAssumption` (min at most max, incStep positive: the constructor sees to the first,
the default to the second), `AgeAssumption` (a session is idle before it expires) and `SessionsAssumption` (the sessions are
finitely many, so that the cardinality in `Size` means something); `ExpiryAssumption` for the multiplexed session; `ResultAssumption`
and `StreamAssumption` for the stream (a result of whole values that fill whole rows); `CallAssumption`, `FaultAssumption` and
`UseAssumption`, which type the constants of the other modules. Every invariant, action property and refinement of the passing runs is
proved. Four of them (`RefinesRowStream`, `ResumesWhereItStopped`, `BeginsOnce`, `NothingLost`) fail in some behaviours of the code, which are the findings; their theorems name the exact condition as a hypothesis on the
behaviour (`RetriesDrained` and `TokensKeepHalf`, `BatchesApart`, `[](asks <= 1)`), so that nothing else can break them, and a second theorem derives the
condition from the value of a constant that the run uses.

### The pool

The properties are not inductive by themselves. `IInv` is `TypeOK /\ WithinMax /\ Places /\ Holders /\ UsedIsKept`:

- `WithinMax` needs to know that borrowing and returning move exactly one session, so that `Size` is unchanged: a
  session released was in `borrowed` and not in the inventory.
- `Places` gives that: inventory, borrowed and arriving are disjoint, the inventory has no duplicate, and what a
  ping uses is nobody else's. It rests on a created session being new to the pool.
- `Holders` ties `held` to `phase` and to `borrowed`, and makes holders distinct.
- `UsedIsKept` keeps deletes away from sessions in use until `close()` (which may delete what a keep-alive has borrowed; see `CloseAwaitsLess`); it includes arriving sessions and the
  pool before `open()`, without which it is not inductive.

The lemmas `PushElems`, `PartElems`, `CutElems` and `StretchCard` say what push, pop, slice and splice do to the elements of
a sequence without repetition; `Numbers` types what the actions count; each action then has one lemma, and
`NextKeeps` puts them together. `Inductive` follows with PTL, and from it `TypeCorrect`, `SizeBounded`,
`NotShared`, `UsedNotDeleted`. TLC checked `IInv` as an invariant first.

`PendingCounted` says that `_pending` is what the backend owes. The debt of several calls is a sum, which TLA+ would define by recursion;
`Owed` is instead a set with one element for each session of each outstanding call, so that a reply, an error or a new call adds or removes
a block of known size. From it `SizeCounts`: the size the pool decides by is never negative; and `AsksWithinRoom`: a caller who finds room
asks for at least one session and no more than fit.

`SessionPoolOrderProofs` builds on it. `OInv` is `OldestFirst /\ LeaksExact /\ Existing /\ Awake`:

- `Existing`: what expired on offer is gone at the backend, and while the pool serves, everything else on offer or in use exists
  there. It needs `OldestFirst`: a ping round skips the first `ExpiredCount` sessions and borrows the rest of the idle ones, which
  are the valid ones only because the expired come first (`OldPrefix`).
- `Awake`: the queue runs one task at a time, and between the event and the pop of the woken waiter the newest session is
  there and valid and `close()` is not over. Timers and replies wait (`Quiet`); a `Close` in between starts deletes, whose
  answers wait too.

`Moves` sorts the steps by what they do to the books, once for all the proofs that follow. `SessionPoolLeaseProofs` takes from both invariants the
action properties (`NotOrphaned`, `EvictsWithinLimits`) and the refinement `ImplementsLease`: a pop of a valid session is a `Grant` of
one that exists (`Existing`) and that nobody holds (`Places`), a tick, an expiry or an answered delete is a `Retire`, which spares
borrowers because of `UsedIsKept`. All the pool's safety properties are thus proved.

### The multiplexed session

`AgeIsMissed` strengthens `FourChances`: under a running timer the session's age is at most the
misses plus the call in flight. A week adds one to the age and starts a call; a failure turns the call into a
miss. `Inductive` gives `OneCall`, `NobodyForgotten`, `RefreshedInTime`. Its types are part of the invariant and of no run.

### The stream

The properties hold under two conditions on the behaviour, one for each of the findings 2 and 3:

- `RetriesDrained`: every step that repeats a request (`DrainedRetry`) does so only when nothing of the last one is in `inbox` or `pipe`, which is what
  the comments in `retry` intend ("after all pending data has been processed"), or when the last chunk has been transformed.
- `TokensKeepHalf`: a token on a chunk without values comes only where as much of a value is unfinished as at the token before it, so
  that what is kept for resuming, which such a chunk does not touch, is right for it too.

`RowStreamIfDrained` (the stream implements `RowStream`), `ResumesIfDrained` and `RowsInOrder` (no row twice or out of order, and at the end
all of them) hold under these for every result, however it is cut into values and into chunks with and without values, for every `maxQueued`, retry limit,
number of breaks and reader. So an early retry and a token that leaves a half value behind are the only things that corrupt rows. `Drains` shows that
neither can happen when `RepeatPaused = FALSE` and tokens without values come only before the first value that is split
(`HarmlessTokens`, a condition on the constant `BareTokens`); that gives `Resumes` and `ImplementsRowStream`. The invariant `SInv` is
`TypeOK /\ Control` and the existence of three positions in the result, `d <= p <= q`:

- `InLine`: the chunks in `inbox` carry the fragments from `d` to `p`, those in `queue` on to `q`, those in `pipe` on to `sent`, each
  starting where the one before it stopped.
- `Assembled(d)`: `out` is the first rows of the result, `values` the values that follow, `pendingValue` what `d` left unfinished. That a
  chunk takes it from `d` to the chunk's end is `AddChunkKeeps`, which rests on the lemmas of the first half of the module: which
  values are complete at a fragment, what a stretch of fragments carries of each, how joining and cutting them gives whole rows.
- `Resumable(p)`: unless too many chunks came without a token, `p` is the last token, and once the inbox is empty `pendingForResume` is
  what that token left unfinished. Without it `Remake` could restore a half value of another place: this is where `TokensKeepHalf` is needed.
- `ShutAtEnd(d)`: the transform stops only at the end of the result or by giving up.

`Control` ties `request`, `gate` and the reader: a reader that keeps up never pauses the stream, so that what `Settled` waits for is everything.
`TransformReads` then maps a transformed chunk to rows handed to the reader, and every other step to a stutter, an end or a failure.

What does not depend on when requests are repeated has an invariant of its own, `TInv`: `StreamTypes` (queues and retry counts stay within their limits),
`RowsStayWhole` (every row has its width) and `NeverStuck`.

### Transactions

The token is the greatest heard (`NewestSent` is that fact at the two places where a Commit is sent).

`BeginOnceIfApart`: the strengthening says that the right to begin is held by one call, whose stream took the lock when it was opened
or whose batch ran when all was quiet, and that while the id is unknown all other streams are the queued kind. `BatchesApart` is the
condition that no `batchUpdate()` starts beside a beginning, nor a stream is first read beside a batch that begins: finding 4 is the only way to two transactions.

`NoneLostIfApart`: until the commit, what was reported as done ran in the transaction the object stands for; requests in flight name it
or are the one that begins it; while a `begin()` is due nothing runs and nothing has run. A second request to repeat
the commit breaks it, hence `[](asks <= 1)`. `BeginOnce` and `NoneLost` are the two for a user with `Overlap = FALSE` and a backend with `MaxAsks <= 1`.

### The runner and the users of sessions

In the runner, `Control` ties the functions to the loop: at most the current attempt's function can still commit, because the earlier ones are
over or wait for a request that was cut; the attempts to come are untouched. `CommitsCounted` relates the number
of committed transactions to `lost` and `verdict`. From it `StaleIsHarmless`, `OnceApplied` and `FailureIsClean`.

In `SessionUse`, `IInv` adds to the properties who holds what (`Holds`), that what is due to be released is with nobody (`Apart`) and that
sessions known to be lost carry their mark until they are replaced (`Marked`). One lemma per action; `OnePlace`, `OneRelease`, `LeaksNamed`
and `LostNotLent` follow, and with `PoolUntouched`, that multiplexed sessions never take from the pool, give to it or mark in it (`MuxLeavesPool`).

### What liveness rests on

The liveness properties themselves are out of this prover's reach: they need fairness, hence ENABLED. What can be proved is the safety fact each of
them rests on: that nothing waits for what does not come. TLC then shows, on the instances, that fairness turns it into progress.

| property (checked) | theorem (proved) |
|---|---|
| `AcquireAnswered` | `NobodyForgotten`: the queue holds exactly those who queue. `NoLostWakeup`: who waits waits on an empty inventory, with sessions in use or under creation, or none at all, which is where finding 1 lives |
| `CloseCompletes` | `CloseAwaitsLess`: the deletes that start while `close()` waits are those of failing keep-alives, of which there are no new ones |
| `Answered` | `NobodyForgotten`: a caller waits only while a call is in flight |
| `Settles` | `NeverStuck`: until the reader is told of the end or an error a timer, a chunk, the server or an immediate can move |
| `IdArrives` | `SomebodyBegins`: while a request waits for the id it is being asked for, or a stream is left to ask for it, unless the beginning failed for good |
| `RunSettles` | `OnlyAwaitedMoves`: the attempt `run()` waits for is not stuck on a request cut off, and every other is still; `OnlyUnbegunWaits`: it is over without an end only if a first commit could not begin |

`CommitAnswered` and `CallsSettle` have none of interest: a commit waits for one answer, and a call for a session that, by the definition of
`Leaked`, is in the pool, due there or in use.

**Only model-checked**: the eight liveness properties, on the instances of section 3; and the findings, which are counterexamples.

## 6. What is left

**Not modelled, and could be.** The caches of Spanner, Instance and Database with `close()` and `delete()`, and the request ids: maps and
counters changed in single synchronous steps, with little for an interleaving to disturb; section 4 says what reading them
showed. What remains of transactions is the building of requests from keys, queries and mutations, which decides nothing.

**Not modelled, and not planned.** The codec and common-grpc (conversions over unbounded data), administrative calls (one RPC,
no state), metrics and tracing (no effect on control), generated code.
