# Verification of agency-dark

TLA+ modules, TLC runs and TLAPS proofs for the agency management platform in
`src/`: a FastAPI backend (Python, asyncio), a React web client and a React
Native mobile client.  The modules model the parts of the program that decide
*when* something happens: schedulers, worker pools, breakers, queues and their
retries.  CRUD endpoints, database schemas, views and statistics are left aside.

## 1. Inventory

Everything in the backend that is concurrent is concurrent on one asyncio event
loop, so a step of a model is what one coroutine does between two `await`s that
really suspend.  The clients are JavaScript, with the same granularity.

| Component | State | Operations | Interacts with | Hard behaviour |
|---|---|---|---|---|
| **Sync scheduler** `backend/services/sync_scheduler.py`, `api/v1/endpoints/sync_scheduler.py` | `_jobs` (status of each job), `_job_queue`, `_active_syncs`, `_running` | schedule, cancel, worker loop, executor task, per-minute loop, stop | endpoints, provider API, database session | two-step cancellation, `break` in `finally`, jobs shared by clients, workers, loop and stop |
| **Circuit breaker** `backend/core/resilience/circuit_breaker.py` | state, two counters, two timestamps | call, state read, reset | every client of an external API | results that arrive in a later state; two timeouts |
| Distributed circuit breaker (same file, 308-419) | the same in Redis keys | call | Redis, other processes | state read before an `await` and used after it; two-write transitions |
| **Endpoint failover** `backend/core/resilience/failover.py` | per endpoint: health, failure counts, connections | execute_with_failover, health-check loop, five selection strategies | external endpoints | in-flight results against health checks, connections held across back-off |
| Retry, degradation, recovery (same package) | attempt counters | call wrappers | the two above | composition of retries |
| Mass messages `backend/modules/api_orchestration/application/mass_message_service.py` | per campaign: queue, counters, status, workers; a snapshot in Redis | send, worker loop, complete, cancel, status | orchestrator, Redis, analytics | workers racing to complete, cancel against workers, counters against queue |
| API orchestrator `orchestrator_v2.py`, `routing_service.py` | source choice, rate usage | send with failover | provider APIs | duplicate delivery on failover |
| **Incoming webhooks** `backend/core/external_api/webhooks.py`, `modules/{inflow,onlyfans}_wrapper/api/webhooks.py` | an `asyncio.Queue` with its count of unfinished tasks, a pool of worker tasks, `running` | add_webhook, worker loop, start, stop | endpoints, application startup and shutdown, handlers writing to the database | join against workers that leave, cancellation against an event just taken |
| **Cache manager** `backend/core/cache_manager.py`, `core/cache_decorators.py` | a dictionary per process, keys, tag sets and locks in Redis | get, set, delete, invalidate by tag or pattern, get_or_set, decorators | every service with a cached read, Celery tasks, Redis | two levels changed one after the other, reads in two commands, locks that expire |
| Webhook queue `backend/services/webhook_queue.py` | three priority queues, `_processing`, delivery rows | put, get, deliver, retry checker, replay | HTTP targets, database | racing getters, orphaned getters, retry without delay |
| Email queue `backend/services/email_queue.py` | rows with a status | enqueue, process, retry, cancel | SMTP, database | two runners select the same row, cancel while processing |
| Chat claims and chat message queue `backend/modules/chat/application/` | claim rows, Redis claim keys, Redis lists | claim, release, queue, deliver pending | database, Redis, websockets | check-then-insert, database and Redis updated one after the other |
| Bulk operations `backend/core/bulk_operations/bulk_processor.py` | operation row, cancel flag in Redis | submit, process in batches, cancel | database, Redis | cancel against the last batch, expiring flag |
| Sessions and rate limits `core/security_v2/authentication/session_manager.py`, `core/rate_limit/` | Redis keys | create, touch, expire, consume | Redis | limit check then create; read then write back |
| Web realtime client `frontend/src/services/realtimeService.ts` | socket, outgoing queue, rooms, heartbeat | emit, queue, flush, join, reconnect | socket.io server, chat service | concurrent flushes, ack timeouts, drops, reconnects |
| Mobile offline sync `mobile/src/services/offlineSync.ts` | queue, failed items, status, all persisted | add, sync, retry, resolve, load | AsyncStorage, backend API | crash between delivery and removal, persisted flags, overlapping syncs |
| WebSocket rooms `backend/core/websocket.py`, `api/v1/endpoints/websocket.py` | sockets per user, metadata, rooms both ways, presence in Redis | connect, disconnect, join, leave, send | handlers of all sockets, Redis | iterations over live sets across sends, disconnect against reconnect, nested disconnects |
| Payouts `backend/api/v1/endpoints/payouts.py` | payout and earning rows | create, update, approve, bulk actions | database, email | requests that read, decide and write back without locks |
| Optimistic updates `frontend/src/services/optimisticUpdateService.ts` | query cache, rollback handlers | mutate, batch, delete and undo | API, query client | snapshots restored over later results |
| Commissions, messaging campaigns, other caches, uploads, A/B tests, ML analytics, dashboards | various | various | various | not surveyed in depth yet |
| `backend/archive`, seeds, fix scripts, infrastructure, generated code | none | none | none | not the program's logic |

What makes each component correct, in one line:

- *Sync scheduler*: a job has one owner, a verdict reported to a client says what
  happened and is never rewritten, a key is not synced twice at once, the pool
  survives failures, a queued job is taken, stop drains the pool, a cancelled job
  never starts, failures are recorded, what was scheduled with a delay runs.
- *Circuit breaker*: an open circuit fails fast for exactly the recovery time, no
  threshold is passed unnoticed, no state is a trap.
- *Failover*: an unhealthy endpoint is not chosen while a healthy one exists, a
  failing endpoint becomes unhealthy and a recovered one healthy again,
  connection counts return to zero.
- *Incoming webhooks*: an accepted event is handled once, whatever is stopped when;
  a stop interrupts no handler and leaves nothing it found unhandled.
- *Cache manager*: what was removed is not served afterwards, a missing value is
  computed by one caller at a time, nobody waits for a dead one, entries expire.
- *Mass messages*: counters agree with the queue, a campaign completes only when
  every fan was served or given up, a cancelled campaign stays cancelled.
- *Webhook and email queues*: nothing is lost or delivered twice without an
  attempt on record, retries wait.
- *Realtime client*: messages to the server are dropped only after the attempts
  allowed and are eventually flushed when online; no order is promised.
- *Offline sync*: no item is lost across crashes, one sync at a time, an item
  once delivered leaves the queue.
- *WebSocket rooms*: a user is online exactly while a socket is registered, both
  directions of membership agree, a user without socket is in no room.
- *Payouts*: an earning is in one payout, a finished payout stays as it is.
- *Optimistic updates*: when nothing is in flight the cache shows what the server has.
- *Claims*: one claimant per fan, and the cache agrees with the database.

`PROJECT.json` lists the components with their status, and the hazards with the
line where each bites.

## 2. Modules

| Module | Models | Runs |
|---|---|---|
| `SyncScheduler` | the sync scheduler with its endpoints | via `MCSyncScheduler` |
| `MCSyncScheduler` | symmetry sets for TLC | `sync_*` |
| `SyncSchedulerProofs` | inductive invariant and theorems | tlapm |
| `BreakerPolicy` | what a circuit breaker promises | as a property of `breaker` |
| `CircuitBreaker` | the in-process breaker with concurrent callers | `breaker` |
| `CircuitBreakerProofs` | inductive invariant, refinement proof | tlapm |
| `Failover` | endpoints, executions with failover, the health-check loop | via `MCFailover` |
| `MCFailover` | priorities, hash ring and strategies for TLC | `failover*` |
| `FailoverProofs` | inductive invariant and theorems | tlapm |
| `AckedChannel` | what a queue of acknowledged messages promises | as a property of `outbox` |
| `AckedChannelProofs` | what its users rely on follows from the promise | tlapm |
| `RealtimeOutbox` | the outgoing queue of the web client | `outbox*` |
| `RealtimeOutboxProofs` | inductive invariant, refinement proof, theorems | tlapm |
| `WebhookIntake` | the queue and workers of incoming webhooks | `intake` |
| `WebhookIntakeProofs` | inductive invariant and theorems | tlapm |
| `CacheManager` | one key of the two-level cache, with its tag and lock | `cache`, `cache_removal` |
| `CacheManagerProofs` | inductive invariant and theorems | tlapm |

In this commit `api/v1/api.py` mounts the `auth` router only; the others are
commented out "temporarily", and the modules take them as mounted.  The lifespan
in `main.py` starts the cache manager and the scheduler's neighbours.

### SyncScheduler

`status`, `key`, `delayed` are `_jobs`; `queue` is `_job_queue`; `active` the keys
of `_active_syncs`; `pc` and `job` the frame of each `_sync_worker`; `task` the
frame of each `_execute_sync` (`created`, `syncing` inside the inner `try`,
`closing` at `await db.close()`, `done`, `cancelled`); `stopping` and `awaited`
the frame of `stop()`.  `byLoop`, `withdrawn` and `committed` are history.

- `task.cancel()` only adds to `cancelling`; `CancelDelivered` raises
  `CancelledError` where the task is suspended.  Inside the inner `try` the
  `break` of the `finally` clause discards it, as it discards every exception
  (`SyncRaises`); before the first step and at `db.close()` it ends the task, and
  the worker that awaits it leaves its loop (`Breaks`).
- `asyncio.wait_for(queue.get(), 5)` is `Take` or `WaitTimeout`.  The getter takes
  the item one step before the worker resumes (`BeginJob`), which is what lets
  `stop()` and `cancel_sync` slip in between.  Python 3.11, as the Dockerfile
  installs, is assumed.
- `LoopCheck` lets any key be due.  In this commit the interval is indeed never
  enforced: the loop loads the state `<provider>_sync_<id>`, the sync service
  saves `onlyfans_sync`.
- The sync body both commits and raises in the model.  In this commit every body
  raises, for `APIKeyService` has neither `get_by_id` nor `decrypt_key`, and the
  loop's query raises, for `APIKey` has no `sync_enabled`; the model keeps the
  behaviours the code is written for as well as those it has.
- `committed` is set when `db.commit()` returns.  A cancellation at that `await`
  may leave a durable commit behind; this code cannot tell, nor does the model.

### CircuitBreaker

`call()` is `BeginCall` and, after the `await`, `CallSucceeds`, `CallFails` or
`CallEscapes` (an exception that is not `expected_exception`, or cancellation).
The handlers read the state the breaker has when they run.  Timestamps are ages:
`Tick` makes them older, and an age stops at the limit it is compared with, which
keeps the state space finite and loses nothing, since `>=` is the only comparison.
`openedAge` is history.  `_record_state_change` (which logs the new state as the
old one, being called after the assignment) and the call history are left out.
HALF_OPEN admits any number of callers, as in the code.

`BreakerPolicy` is the promise: `open` lets nobody through while `cooling`, it is
left only for a trial or by `Reset`, and a trial ends by passing or tripping.
`ImplementsPolicy` is the refinement, with `cooling` mapped to an open state whose
age has not reached `RecoveryTimeout`.

### Failover

`healthy`, `failures`, `connections` are the fields of each `Endpoint`; `strategy`
and `index` those of the manager; `pc`, `ep`, `attempt` the frame of each
`execute_with_failover`; `loop` and `checking` the health-check loop and the
`check_health` coroutines it gathers.

- An execution suspends in two places: at the call (`calling`) and at the brief
  delay before the next attempt (`sleeping`).  The delay lies inside the `try`, so
  its connection is released only when it is over: `Retry` releases, selects and
  connects in one step, and `Cancelled` at either place runs the `finally` clause.
- `Select` is the set of endpoints `get_endpoint` may return.  `round_robin` is the
  counter over the healthy endpoints and `priority` the same counter over the
  healthy ones of the highest priority; the runs exercise it through `priority`.
  `random` and `weighted` may return any healthy endpoint.  The hash ring is reduced to the
  distance of every endpoint from the caller's key.
- `failures` stops at `MaxFailures`, since it is only compared with it, and
  `index` is kept modulo a common multiple of the numbers it is divided by
  (`PeriodAssumption`); neither loses a behaviour.
- The skip of endpoints checked less than half an interval ago never applies, for
  a round begins a whole interval after the last check ended.
- An endpoint without a `health_check` that goes out never comes back: its check
  returns early.  The code intends no more, and `SoundComesBack` speaks of checked
  endpoints only.
- `tests/backend/unit/test_resilience.py` takes the lower number as the higher
  priority; the code takes the maximum.  The model follows the code.

### RealtimeOutbox

`queue` is `messageQueue`; `flights` holds, for each `flushMessageQueue` under way,
the part of its copy of the queue it has not settled, whose first message waits in
`emitWithAck`; `attempts` is `message.attempts`; `delivered` and `failed` are the
events emitted.  `link` is `this.socket`, `online` is whether `connectionState` is
CONNECTED.  The network is `air` (emitted, not yet at the server) and `live`
(awaited on a connection that still stands); `received` is history.

- `Settle` is everything between two suspensions of a flush: the outcome of one
  message, and either the emission of the next or, when the socket is not
  connected, a throw for each message left, every one counted as an attempt.
- `QueueMessage` flushes the whole queue, so several flushes run at once;
  the server may receive messages out of the order they were queued in, and the
  code promises no order.
- `AckTimeout` leaves the emission in the air: a message reported as failed may
  still be received, or be received twice.
- `connect()` while the old socket is reconnecting replaces `this.socket` and
  leaves the old one with its handlers.  This `stray` socket announces CONNECTED
  although `this.socket` is down, and the announcement of the real one is then no
  change of state and flushes nothing.  `NothingWaitsUntried` and `EveryoneIsTold`
  therefore speak of runs without a stray; `OnePlace` and the refinement hold with one.
- `Requeued` is the order in which the catch clause pushes messages back, spelt out as
  a recursive function over the messages that failed, so that it can be reasoned about.
- Not modelled: rooms, the heartbeat with its ping and pong timers, presence,
  metrics, and `emit` without acknowledgement.

`AckedChannel` is the promise: reports are final, `delivered` only after the other
side received, `failed` only after `MaxAttempts` failed attempts.  The outbox
implements it with `fate` read off `next`, `delivered` and `failed`.

### WebhookIntake

`queue` and `unfinished` are the `asyncio.Queue`, `running` and `pool` are
`self.running` and `self.workers`; `pc` and `item` the frame of each `_worker`:
`created`, `waiting` in `wait_for(queue.get(), 1.0)`, `holding` an event the getter has
taken while the worker has not resumed, `handling`, and `gone` before and after its
life.  `stop` and `awaited` are the frames of the calls of `stop()`: `joining`, `joined`
once the join is woken, `gathering`.  `cancelling` are cancellations asked for and not
delivered; `owed` and `handled` are history.

- `start()` and `stop()` ask nothing, in the code as in the model: `Start` may come at
  any time and adds its batch to the pool, also while a `stop()` joins, which it revives;
  a second `stop()` joins the same queue.  What comes of it is the code's:
  `workers.clear()` of a `stop()` forgets workers that were started while it gathered,
  which go on without being in the pool.
- Python 3.11: a cancellation that finds the getter done is swallowed by `wait_for`
  (`Resume`); anywhere else it ends the worker (`CancelArrives`).
- The `task_done()` that empties the count wakes every `stop()` that joins.  Such a
  `stop()` goes on (`StopResumes`) before a worker can begin the handler of an event put
  since, because the event loop runs what is ready in the order it became so: the
  getter of that event is woken after the `stop()` is.  `Resume` waits for it.
- A timeout while the processor runs changes nothing and is left out; when it does not,
  `WaitTimeout` leaves, whatever is in the queue.
- `JoinEnds` leaves out a `stop()` that is stranded: all workers have left and a backlog
  is queued (section 4).  `StrandedOverBacklog` says that it is never stranded otherwise.
- `EventsAreHandled` has a processor that runs with a pool for good as its premise: a
  `stop()` still under way when `start()` is called takes the new workers with it.

### CacheManager

`mem` is `_memory_cache` of each process, `redis` the key in Redis, `tagged` its
membership in the set of its tag, `known` the processes whose `_cache_tags` has it,
`lock` the key of `RedisLock` with the token of its owner.  `home`, `op`, `pc`, `val`
are the frame of each caller.

- A Redis command takes effect in one step and its reply is used in a later one, for
  the commands of two callers travel on different connections.  Where only
  `_cache_tags` is written after the reply, the two are one step.
- A value is known by its standing.  A removal marks what it finds stored `due` if it
  begins undisturbed (no other removal, nobody between the commands of a `set`, the key
  in the tag's set); a value that was `due` when a read took it out of Redis is `back`.
  All other values are `free`: nothing is owed for them.  `null` is a result that is None.
- `RemovalSticks` is about what stays in place: nothing `due` is left in Redis or in the
  memory of the process when the removal is over, and Redis never gets it `back`.  It
  does not say that nobody sees the old value afterwards, which is false:
  `delete()` and `invalidate_pattern()` empty memory before Redis, and a read in between,
  or one under way during any removal, puts the old value back in memory.  That no such
  value is in memory once the removal is over is `NothingBroughtBack`, which
  `cache_removal` finds violated.
- A None is stored like any other result and taken for a miss by every reader, so the
  factory runs again, under the lock, with nothing lost; and in the memory of a process
  it hides what Redis has.  `FactoryRunsOnce` names both as exceptions.
- `plain` are the operations without a lock (`cache_aside` and the writes); a caller of
  `get_or_set` is `single`, and `locked` while it has the lock.
- `ttl` of a key that is gone is -2 and in its last half second 0; `get()` takes both
  for "no expiry" (`fillForever`).  Such an entry leaves memory only by a removal, a
  `set` or a restart in that process.
- Any command may raise, before or after it took effect: `get()` is then a miss, `set()`
  and the removals return early, the lock's two commands propagate.  `Crash` ends a
  process with its callers and leaves its lock behind.
- A removal empties the memory of its own process only; the memory of the others
  keeps its entries until they expire.  This is how the code is meant to work, and
  `RemovalSticks` asks for no more.
- Nothing in this commit calls `get_or_set`, which is modelled as written;
  `cache_aside` stands for the decorators and for `analytics_service`.

## 3. Runs

| Run | Bounds | Shows |
|---|---|---|
| `sync_safety` | 2 workers, 2 keys, 3 jobs | ownership, verdicts, single flight, pool |
| `sync_liveness` | 2 workers, 1 key, 2 jobs | queued jobs are taken, stop drains the pool |
| `sync_cancelled` | 2, 1, 2 | **violated**: a cancelled job still starts |
| `sync_failed` | 2, 1, 2 | **violated**: a failed sync stays RUNNING |
| `breaker` | 3 callers, thresholds 3 and 2, timeouts 4 and 3 | all breaker properties and the refinement |
| `failover` | 3 endpoints (one without check), 2 callers, 2 failures, 2 retries, 4 strategies | connection accounting, failed endpoints are out, no early return, liveness |
| `failover_next` | `priority`, 3 failures, 3 retries | **violated**: a retry goes to the endpoint that just failed |
| `outbox` | 3 messages, 3 attempts, 1 stray | one place per message, nothing waits untried, everyone is told, the refinement |
| `intake` | 2 workers, each started on its own, 3 events, 2 calls of `stop()` at a time | no event lost or handled twice, stop leaves nothing it found, only a backlog strands it, liveness |
| `cache` | 2 callers in 1 process | lock, removals, endless entries, waiters |
| `cache_removal` | the same | **violated**: a read during `delete()` brings the old value back |
| `outbox_retry` | 2 messages | **violated**: a re-queued message waits while the connection lasts |

*Why these bounds.* Three jobs and two workers put one job in the queue while both
workers are busy, or two jobs of one key, one of them a retry, beside a job of the
other key; the bound `Jobs` is the only cap and stands for the uuids a run draws.
Three callers and a failure threshold of three let all failures of a window arrive
together and let one caller stay in flight over a whole open and half-open period;
the timeouts differ so that either can end first.
For failover, two callers fail one endpoint together, or one calls while the other
holds its connection through the delay; three endpoints leave a choice after one is
out, and the third has no health check and a lower priority.  For the outbox,
three messages give a flush with a message in the middle beside a second flush.
`M` bounds a run and `connect()` abandons at most one socket.
For the intake, three events and two workers leave a backlog behind two busy workers,
or an event that comes while `stop()` joins or cancels; two starts and two stops overlap
in any way a pair can.  Workers return as new ones, so nothing bounds the calls of
`start()` and `stop()`.  For the cache, two callers are
what a race needs, one of them between any two commands of the other; nothing bounds
the number of operations.  With two processes the safety part has some millions of
states, takes some four minutes and finds nothing else; the proofs cover any number.

*Fairness.* `SyncScheduler!Fairness`: every worker, every executor task and
`stop()` go on when they can, since the event loop runs what is ready and the
sync's HTTP requests have timeouts.  Clients and the loop owe nothing.
`CircuitBreaker!Fairness`: time passes, callers keep calling and calls end.
`Failover!Fairness`: calls, delays and checks end, and the loop goes on until it is
stopped; nobody has to call or cancel.  `SoundComesBack` and `BrokenIsLeft` state what
the endpoint does as a premise.  `RealtimeOutbox!Fairness`: the timer of an awaited
message fires.  Users and the network owe nothing; `EveryoneIsTold` has the
connection coming back as its premise.

`WebhookIntake!Fairness`: workers go on and handlers end; nobody has to send, start or
stop.  `CacheManager!Fairness`: Redis answers, computations end and
the lock expires; nobody has to call, no entry has to expire, nothing has to fail.

*Deadlock* is not checked for the scheduler: once stopped, and with all `Jobs`
drawn, it has nothing to do.  Nor for the intake, which may be stopped with all
events handled, or stranded; nor for the cache, which is never asked to go on.

## 4. What the runs found

1. *A cancelled job is executed* (`sync_cancelled`): neither the worker nor
   `_execute_sync` (line 250) looks at the status.
2. *A failed sync is never recorded* (`sync_failed`): the `break` in `finally`
   (line 301) discards the exception; the job stays RUNNING, is never retried, and
   blocks its key for the loop.  Only a failing `db.close()` reaches the handler.
3. *A deleted value comes back* (`cache_removal`): `delete()` empties memory (line 221),
   awaits Redis (line 226), and a `get()` of the same process in between takes the old
   value out of Redis and puts it in memory, where it is served until it expires.
4. *A retry does not move on* (`failover_next`): "Try next endpoint" says the
   comment, but the failed endpoint stays healthy until its third failure, and
   every strategy may return it again; with a single top-priority endpoint, all
   attempts go to it although others are healthy.
5. *A re-queued message is not retried* (`outbox_retry`): the catch clause puts it
   back ("Re-queue for retry"), but nothing flushes the queue until another
   message is queued or the connection is made anew.  `OnlyFlushesEmptyQueue`, which
   is proved, says that there is no third way.

Seen while modelling, without a run of their own:

- *A delayed job never runs*: only jobs without delay are queued (`sync_scheduler.py:116`),
  although "Check for scheduled jobs every minute" stands at line 154, so no retry would
  run either.  This is so in every behaviour: `DelayedNeverRuns` and `DelayBlocksKey` (the
  loop never syncs that key again) are proved.
- `stop()` of the incoming webhooks hangs when it finds a backlog behind busy workers
  ("Wait for queue to be empty", `webhooks.py:213`): each worker leaves its loop after the
  event in hand, for `running` is False, the rest is taken by nobody, and the
  application's shutdown waits in `queue.join()`.  Another `start()` would revive the pool
  and end the join, but nothing calls it during a shutdown.  `Stranded` is that state,
  reached in `intake`: put two events, take one with the only worker, stop, let the
  handler end.  `StrandedOverBacklog`, checked there and proved, says that it takes a backlog.
- A factory that returns None is called by everyone who waits for the lock, one after the
  other: what "Acquire lock to prevent cache stampede" (`cache_manager.py:312`) prevents
  for other results it does not for this one.
- A value deleted between the two commands of a read stays in the memory of that
  process without expiry although its caller gave a ttl ("Time to live in seconds",
  `cache_decorators.py:24`); `ForeverOnlyIfTorn` says when this happens and when not.
- Webhook handlers are bound to the database session of the request that queued them,
  which is closed when that request ends (`inflow_wrapper/api/webhooks.py:67`).

Seen while reading and not checked: a retry is a fresh job with `retry_count` 0;
the schedule endpoints do not look for a job of the same key, so a client can run
one key twice at once (`LoopSingleFlight` speaks of the loop's jobs only).

## 5. Proofs

`SyncSchedulerProofs` proves, for any workers, keys and jobs with `None` outside
them: `TypeOK`, `OneOwner`, `PoolShrinksOnlyByCancel`, `VerdictMatchesOutcome`,
`LoopSingleFlight` as invariants and `VerdictsStand` as an action property.  None
of the first five is inductive.  `IInv` adds

- `AbsentOccursNowhere`: an id not drawn is in no queue, frame or set, which is
  why a fresh job cannot collide with one in flight;
- `WorkersHold`: what each worker holds at each `pc`, and no two the same job;
- `StatusFollowsTask`: for each point of the executor, which statuses the job may
  have; this gives `VerdictMatchesOutcome`;
- `CancelsAreAsked`: a pending or delivered cancellation comes from a client or
  from `stop()`; this gives `PoolShrinksOnlyByCancel`.

There is one lemma per action, and `StepInv` puts them together.

`CircuitBreakerProofs` proves type correctness, `ThresholdsActedOn`,
`TimeoutRunsFromOpening` and `FailFast` from `BreakerAssumption` (positive
thresholds and timeouts), and `RefinesPolicy`: `Spec => ImplementsPolicy`, with one
lemma for the steps that admit a call, one for those that end one, one for the
rest.

`FailoverProofs` proves, for any finite set of callers, number of endpoints,
priorities, distances, strategies and limits (`FailoverAssumption`): `TypeOK`,
`ConnectionsCounted`, `FailedOut` as invariants and `OutIsLeftAlone` as an action
property.  The inductive invariant adds `LocalsFollow`: a suspended execution has
an endpoint and an attempt within range, and an idle one has neither.  The
argument for `ConnectionsCounted` is about cardinalities: the callers that hold an
endpoint gain or lose exactly the caller that moves (`IdleCounts`, `ReleaseCounts`,
`TryCounts`); it also gives that a count never goes below zero.  `SelectsHealthy`
says that every strategy returns a healthy endpoint, and gives `OutIsLeftAlone`.  The
proof shows that `FailedOut` is kept by calls and checks alone: the sweep of the
loop changes nothing.

`WebhookIntakeProofs` proves, for any finite set of workers, any batches of them that
`start()` may create, any number of overlapping calls of `stop()` and any events:
`TypeOK`, `OnePlace`, `StopDrains`, `NeverInterrupted`, `StrandedOverBacklog` as
invariants.  The inductive invariant adds

- `Counted`: what `join()` counts is the queue and the events in hand (an argument about
  cardinalities); the count is therefore zero when a `stop()` is woken, which gives
  `StopDrains`;
- `Frames` and `CancelsFollow`: a worker has an event exactly while it holds or handles
  one, and a cancellation is pending only for a worker that has not begun to handle;
- `Woken`: while a `stop()` is `joined` nothing is being handled, which is why the workers
  it cancels are not at work (`NeverInterrupted`);
- `OwedAccepted` and `JoinWaits`: what a `stop()` owes was accepted, and one that joins
  has something to wait for, which with `Counted` gives `StrandedOverBacklog`.

`CacheManagerProofs` proves, for any callers and processes: `TypeOK`, `SingleFlight`,
`RemovalSticks` as invariants and `FactoryRunsOnce`, `ForeverOnlyIfTorn` as action
properties.  The invariant adds `RunIsStored` (a value other than None computed under the
lock is on its way or in Redis), `NullsAreKnown` (who holds a None under the lock
got it from a factory whose run does not count), `TornAreKnown`, `NothingUntracked` (the tag has the key, or
there is nothing to have, or it is known why not) and `Duty`: what is due is due to the one
removal under way, which has not yet passed the place where it removes it.

`RealtimeOutboxProofs` proves, for any numbers of messages and attempts: `TypeOK`,
`OnePlace`, `NothingWaitsUntried` as invariants and `RefinesChannel`:
`Spec => ImplementsChannel`.  The inductive invariant adds

- `ToldOnce`: reports are of submitted messages, and no message has both;
- `AttemptLeft`: a message without a report has an attempt left, which keeps
  `attempts` in its type and makes "failed" mean all of them;
- `LiveWasSent`: an awaited emission that is not in the air any more was received, which
  is why an acknowledgement tells the truth;
- `DownIsOffline`: without a stray, `connectionState` is CONNECTED only while
  `this.socket` is up, so that the announcement of a connection does flush, which
  `NothingWaitsUntried` needs.

Flushes and the ends of attempts rearrange sequences.  What that does to the set of
messages and to their being distinct is stated once in lemmas (`AppendElems`,
`ConcatElems`, `TailElems`, `FlushFacts`, `SettleFacts`, `FlightParts`).  `Requeued` is
recursive; its lemma `RequeuedElems` is by induction over the length of the prefix,
where the induction principle is not the library's (which takes an operator) but
`NumberInduction`, which takes the set of numbers that have the property and follows
from the well-foundedness of `<`.

`AckedChannelProofs` proves of the abstract channel what its users rely on
(`ChannelIsHonest`, `ChannelIsFinal`).  Through the refinement these hold of the
outbox: `ReportsAreHonest` and `ReportsStand` are obtained by instantiating the
channel's theorems with the refinement mapping, not proved anew.

*Behind the liveness properties.*  Liveness itself is out of reach, but the part of each
argument that is about single steps is not: that something gets closer to its end
whatever the others do.  Proved of every step are

| Property of the runs | What brings it closer |
|---|---|
| `QueuedJobsAreTaken`, `EventsAreHandled` | `NoOvertaking` (both queues): no waiting job or event is overtaken |
| `StopDrainsPool`, `JoinEnds` | `OneJobAfterStop`, `OneEventAfterStop`: a worker only moves towards its exit after `stop()` |
| `OpenEnds`, `TrialEnds` | `PeriodsRunOut`: the clock of a period is never set back while it lasts |
| `ExecutionEnds` | `ExecutionWearsOff`: every step of an execution leaves it fewer |
| `EveryoneIsTold` | `FlightsUseAttempts`: a message leaves the flushes reported or with one attempt less |

`ExecutedOnce` (a job's task is created once and only goes forward) is proved as well.
`DelayedNeverRuns` and `DelayBlocksKey` need an invariant of their own, `Parked`: a
delayed job is neither queued nor held and has no task.  The formulas of the table, and
those named here, are stated by theorems and are properties of no run; TLC found each of
them true on the bounds of section 3 before it was proved.

Only model-checked: all liveness (`QueuedJobsAreTaken`, `StopDrainsPool`,
`OpenEnds`, `TrialEnds`, `ExecutionEnds`, `SoundComesBack`, `BrokenIsLeft`,
`EveryoneIsTold`, `EventsAreHandled`, `JoinEnds`, `WaitersEnd`), which is outside what
tlapm can prove, and the violations.  Every invariant, action property and refinement
of a passing run has a theorem.

## 6. Plan

Done: the sync scheduler, the circuit breaker, the failover manager, the outbox of
the web client, the incoming webhooks, the cache manager.  Left, in this order; each module comes with its run, mutants and map.

1. `WebSocketRooms`: tasks of the handlers, sends that suspend inside iterations,
   disconnect against reconnect; proofs of the index invariants.
2. `Payouts`: requests as transactions under READ COMMITTED; an abstract life
   cycle of a payout, and where concurrent requests leave it.
3. `RealtimeSession`: rooms and heartbeat of the web client, over the connection
   events of the outbox.
4. `OptimisticUpdates`: overlapping mutations, rollback, undo.
5. `ChatClaims` and `EmailQueue`: rows and Redis keys, check then insert; two
   runners over rows with a status.
6. `WebhookQueue`, `MassMessage`, `BulkOperation`, `DistributedBreaker`, `OfflineSync`.
   As wired in this commit these cannot run to the end: the Redis client has no
   `setex`, `int(task.id)` is taken of a UUID, and nothing imports `offlineSync.ts`;
   they come last and will be modelled as written.
7. Proofs of the safety invariants of 1 to 4.

## 7. Not modelled

The remaining rows of the inventory, for now; their hazards are listed in
`PROJECT.json` with a note.  Pure I/O, statistics, schemas, views, archive and
infrastructure are left out for good: they keep no state whose order of change
matters.  The rows left are mostly routers that this commit does not mount, or code
that cannot run as wired (section 6): they were put behind two that run as
written, the incoming webhooks and the cache manager, which `main.py` starts.  The map covers a small share of the
repository, and a complete one would still: by far most of its lines are schemas,
queries, views, statistics and documentation in the form of code, which have nothing
for a model to say.
