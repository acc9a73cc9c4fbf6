# Sentinel Grid: formal models

TLA+ models of the Sentinel Grid camera platform, checked with TLC; every safety
property of a passing run is also proved with TLAPS, for every value of the constants
(`NothingLeftBehind` for every one with `ReadOnly` false). The code is the reference: `PROJECT.json`
("map") names, for each definition, the source lines it stands for. A
definition is shorter than its code: control is kept (guards, early returns, the
order of effects, every round trip that may fail), data is reduced to what the
properties tell apart.

    tlc -workers 2 -config MCAuditChain.cfg MCAuditChain     # one run
    tlapm AuditChain_proofs.tla                              # one module of proofs

## 1. Inventory

Cameras are listed by a gateway. The stream manager opens each in go2rtc, the
inference service reads it from there, and turns vehicles and plates into events
on two Redis streams. The API stores them, compares plates with a watchlist and
tells connected consoles; its own requests are recorded in an audit log.

    gateway -> gateway-adapter -> stream_manager -> go2rtc
                    |                                  |
                    +----> inference coordinator ----> camera workers (a thread each)
                    |                                  |  PlateEvent, VehicleEvent (XADD)
                    v                                  v
             camera registry (sync)        plate_event_consumer, vehicle_event_consumer,
                    |                      watchlist_engine  (one asyncio task each)
                    v                                  |
                PostgreSQL <---------------------------+---> consoles (WebSocket)
                    ^
                    +------ API requests, each in one transaction with its audit rows

| Component | State it keeps | Operations | What is hard | What makes it correct |
| --- | --- | --- | --- | --- |
| Camera worker (`inference/pipeline.py`, `track_state.py`, `tracker.py`, `camera_source.py`, `snapshot.py`) | capture, back-off, tracker, one session per track, evidence files | connect, read, process a frame, reset, finalize | reconnects and scene cuts in the middle of a track, ids that start again from 1, exceptions half-way through a frame | one vehicle per session, one event per session, every lost track settled |
| Plate normalisation and fusion (`plate_normalizer.py`, `temporal_fusion.py`) | bounded buffer of reads | validate, correct, fuse | votes by length and character, ties, overflow of the buffer | what is published is a plate, and the evidence backs it |
| Inference coordinator (`inference/main.py`) | one worker per camera, the session registry all threads share | poll, start, stop, join | a join that gives up, a thread that died, two threads on one camera | one live worker per listed camera, each session published once |
| Event publisher (`event_publisher.py`) | two capped streams | XADD | refusals and trimming | (best effort) |
| Stream consumers (`plate_event_consumer.py`, `vehicle_event_consumer.py`, `main.py`) | group position, batch, rows | create group, read, store, acknowledge | a failure or a stop between any two round trips | nothing acknowledged before it is stored, loss bounded, nobody waits for ever |
| Watchlist engine and alerts (`watchlist_engine.py`, `alert_dispatcher.py`, `api/alerts.py`) | window of recent alerts, flushed matches, connections | match, broadcast, commit, acknowledge | exceptions swallowed for one read, a broken session, connections that change during a broadcast | every console in scope told, no match recorded unannounced, silence only for duplicates |
| Audit log and transactions (`audit_service.py`, `database.py`, `security/rbac.py`) | hash chain, advisory lock, row locks | append, commit, roll back, verify | concurrent appends, lock orders, clock | the log verifies and agrees with the answers |
| Sessions and tokens (`api/auth.py`, `security/jwt.py`, `api/deps.py`) and the web client that holds them (`apps/web/lib/api-client.ts`, `auth-context.tsx`) | token version, used refresh tokens; tokens in localStorage | login, refresh, logout, reset, revoke | check-then-set, refreshes of two tabs, increments that overlap, a lost answer | rotation uses a token once, a revocation lasts, nobody is signed out without a cause |
| Stream manager (`ingestion-config/stream_manager.py`) | catalogue as last read, failures and windows | reconcile, health check, back-off | two coroutines over one state, failed calls, restarts of either process | go2rtc mirrors the catalogue, every camera ends up served |
| Camera registry (`camera_registry_sync.py`, scheduler, `api/cameras.py`) | `cameras` rows | sync, list, open, create, change, deactivate | two writers of a row, a sync that fails half-way | what was set by hand stays, no row is lost to its managers, listed cameras are registered |
| Gateway adapter (`gateway-adapter/app.py`) | one session cookie and its lock, cache of places | proxied GET, login, geocoding | many requests with one stale cookie, logins that fail half-way, tasks that pile up | no login ends a good session, a refusal has a cause, every request ends |
| Evidence export, retention (`snapshot.py`, `evidence_export.py`, `cleanup_expired_evidence.py`) | files and rows | save, store, export, clean up | files and commits are two systems, and no lock covers both; the clean-up runs where the files are mounted read-only; names that are used twice, on disk or in a bundle | a file outlives its row only by a failed unlink (and where the directory is read-only all do), goes only when an event expires that names it, and a recorded export is whole |
| Rate limit; jurisdiction scope, traces, audit queries | counters; none | INCR; queries | - | - |

What is not modelled is in section 6. `PROJECT.json` lists every component with its
status, and under "hazards" what can go wrong at which line.

## 2. Modules

| Module | Models | Built on |
| --- | --- | --- |
| `PlateNormalizer` | `normalize`: formats, the leftmost correction | - |
| `PlateFusion` | the bounded buffer and `fuse` | `PlateNormalizer` |
| `PlateBuffer` | a track's reads, one after the other | `PlateFusion` |
| `TrackSession` | `TrackSession` and its methods | `PlateFusion` |
| `CameraWorker` | one worker thread with tracker, sessions and files | `TrackSession` |
| `EventDelivery` | abstract: what becomes of an event on its way to a table | - |
| `EventConsumer` | a consumer task with its group, its table and the trimmed stream | implements `EventDelivery` |
| `WatchlistEngine` | the engine, the broadcaster and the consoles | implements `EventDelivery` |
| `AuditChain` | request transactions, their locks and the audit log | - |
| `StreamSupervisor` | the stream manager, go2rtc and the catalogue | - |
| `GatewayAdapter` | the adapter's session with the gateway, its requests, the geocoding tasks | - |
| `SessionTokens` | tokens, their version and blacklist, the pages that hold them | - |
| `InferenceCoordinator` | the main loop, its threads, the registry of sessions they share | - |
| `CameraRegistry` | syncs and endpoints as transactions over the `cameras` rows | - |
| `EvidenceLifecycle` | images, rows, exports and the clean-up | - |
| `*_proofs` | theorems about the module they are named after; `CameraWorker_proofs` also those about `PlateBuffer` and `EvidenceLifecycle`, `AuditChain_proofs` those about `SessionTokens` | these modules |
| `MC*` | instances for TLC; `MCCameraWorker` has `PlateBuffer` beside the worker | that module |

**CameraWorker.** The thread owns its state, so an iteration of the loop is an
action: `TryConnect`, `ReadFails`, `ProcessFrame`, `FrameRaises` (a stage raises
after some of the frame's objects) and `Exit` (the `finally`). The registry of
sessions is shared by all threads but keyed by camera, so one camera is enough.
What the camera shows, what OCR reads and how good a crop is are chosen freely.
`tracker` remembers a vehicle for `Memory` frames and never confuses two while it
runs; a reset forgets all and starts its ids from 1 again. `who`, the vehicles
that left anything in a session, and `announced`, the plate of its last PlateEvent, are
kept by the model only. A `None` from
`read()` is a failed read; a publication that Redis refuses is logged and dropped
by the code and changes nothing here. What a frame may read (`PlateReads`) passed
the thresholds of the pipeline, so it has a positive weight.

**Plates.** `PlateFusion` folds over sets of indices of the buffer, as the code sums
over its list: `Total`, `Weight`, and `FirstMax`, the earliest of the greatest as
`max` gives it. `PlateBuffer` adds reads one by one, dropping the oldest of a full
buffer, and `CorroborationHelps` compares the fusion before and after such a step;
`TrackSession` holds the same buffer.

**EventConsumer.** An action is a round trip of the task: create the group, read
(`>`), store and commit, acknowledge. Each may fail with or without its effect
(`Unanswered`). A read that fails is retried, any other exception kills the task
(`TaskDies`); `ProcessStops` cancels it anywhere, and `Start` follows as the
container restarts. `RedisLosesData` empties the stream: its container has no volume.

**WatchlistEngine.** The same skeleton, with the reads of a batch processed one by
one: `PassOver`, `Note` (the window is noted), `Flush`, `LookUpCamera`, `Send` to
one connection after the other, `EndBroadcast`. Between two of them consoles
connect, vanish and are noticed to have vanished (three states, since the
broadcaster learns of a loss late), and the watchlist is edited. A failure of the
database breaks the session (`broken`) for the rest of the batch; it is taken to
be a lost connection. Matches are told apart by the number of their read.

**AuditChain.** A request is a route, that is, an order of `audit`, `user` (a
row lock on `users`) and its end; `Program` lists the routes the code has.
`record()` is three actions: take the advisory lock, read the newest row, append.
What is flushed is `pending` until commit; a rollback, a lost connection or
Postgres' choice of a deadlock victim drops it. `verify_chain` sorts by time as
the code does; the clock moves at every append, and `StepBack` sets it back. A
row's id stands for its hash.

**StreamSupervisor.** Two coroutines, `Poll` and `Health`, take turns at each
`await`; an action is the answer to one call with all the code up to the next.
A failed call may have had its effect; late effects of calls that timed out are
not modelled. `suspect` is a history: the streams that a failed call, an outdated
push or a restart may have left wrong. go2rtc restarts from the file as last
rendered. The back-off's exponent range is a constant. Gauges and counters are
left out.

**GatewayAdapter.** A request is a coroutine that keeps the cookie it carries;
its steps are those between two awaits: `EnsureSession` (lock, and cookie or
login), the login with its three outcomes, the gateway's answer, `Relock` after a
401 or 403, and one retry. The cookie jar equals `_session_cookie`, so it needs no
variable. The gateway is external and taken at its strictest: a login ends the
session before it. `since` is a history: the disruptions seen when a request began.
A poll adds a geocoding task for each camera without an entry; `LookupStarts` looks
into the cache again under the lock.

**SessionTokens.** A pair of tokens is a number, and `pairs` says with which version
it was made. A refresh is `Select`, `Check`, `Rotate` on the server and `Store` or
`Clear` on the page; the calls of one page wait for its one `promise`, those of two
pages meet only in `stored`. A reset or revocation is a read and a commit of the
version, which is written as an absolute value. `missed` and `known` are histories:
what committed in between, and which pairs it is meant to end. The reuse branch of
`refresh` raises, which rolls its increment back: only `AuditChain` has its locks.

**InferenceCoordinator.** The main loop goes from effect to effect (`Polled`,
`Remove`, `JoinRemoved`, `Start`, ...). A worker here is what it does to the shared
registry (pop all, open, mark as seen, finalize one), which `CameraWorker` takes to
be its own; it may be blocked for as long as it likes, so a join may give up
(`abandoned`) and its camera get a second thread. Sessions of a camera are then
changed by two threads, and the properties say where that begins.

**CameraRegistry.** A sync, from the scheduler or from `POST /cameras/sync`, and a
request are transactions at READ COMMITTED: they read rows, compute the columns
they change (`Keep` for the others), write at their flush, where they wait for
the row locks of another, and commit. A sync that meets a malformed entry rolls
back as a whole. What the recursive query of the jurisdictions returns is the least set
that has a user's grants and the children of its members.

**EvidenceLifecycle.** (`disk` is the directory.) Four programs share a directory and two tables without a
lock, so every file operation and every commit is a step. An image is the event it
shows, and a digest the event whose image was hashed: a file that is replaced
between the copy and the hash of an export gives two different events. Names may
collide (`Reused`), as the code's do, and so may the names in a bundle, which leave
out the day (`ArcOf`). `ReadOnly` says whether the clean-up runs where the directory
is mounted read-only: then an unlink can only fail, and it is no fault that it does.

**Composition.** `EventConsumer` and `WatchlistEngine` implement `EventDelivery`.
`TrackSession` and `CameraWorker` build on `PlateFusion`, which builds on
`PlateNormalizer`. Elsewhere one module is another's environment: the coordinator's
threads are workers reduced to their shared steps, an entry of the registry's
catalogue that gets a location is the outcome of the adapter's tasks, `Save` and `Store` of evidence are the
worker's snapshots and the consumers' rows.

## 3. Runs

| Run | Question | Result |
| --- | --- | --- |
| `camera_worker` | Do cuts, reconnects, exceptions and stops mix vehicles, or lose or duplicate an event? | no |
| | Does a track that announced a plate end without one, or with another that is sure enough to have been announced? | no |
| | Whatever is read, is the fused text a plate, decided by a weight majority, with a confidence backed by a read, and does agreement help? | yes, unless a full buffer drops evidence |
| | Is a lost track settled, and does a stop finalize, even if the stream freezes or reconnects for ever? | yes |
| `event_consumer` | Is anything acknowledged unstored, lost without a failure, delivered twice or out of order, or left waiting? | no |
| `watchlist_engine` | Is every entitled console told, no match recorded unannounced, silence explained, the delivery contract kept, no batch stuck? | yes |
| `audit_chain` | Does the log verify at every moment and agree with the answers; which requests can deadlock; does every request end? | holds; reuse with revoke |
| `audit_denials` | Are denials always audited, as documented? | **violated** |
| `stream_supervisor` | Does go2rtc mirror the catalogue but for what failed, and does every camera that stays end up with a stream? | yes |
| `gateway_adapter` | Do requests that were refused together end one another's new session, is one refused because of the others, and does one hang? | no |
| `session_tokens` | Does a revocation last, is a token exchanged once, and is anyone signed out by the calls of one page? | yes, unless an increment was overtaken; once, unless two refreshes raced; no |
| `inference_coordinator` | When are two threads on one camera, what becomes of its sessions then, and does a listed camera keep a worker? | only after a join gave up; elsewhere published once; yes, unless its thread raised |
| `camera_registry` | Do syncs overwrite what was set by hand, can a row be lost to its managers, is a listed camera registered and located? | only a location set after the sync's read; no; yes |
| `evidence_lifecycle` | Do files outlive their rows, does the clean-up take a file without an expired event, do recorded exports lie? | only as many as unlinks failed; no; not where names are used once |
| `evidence_readonly` | Does the clean-up delete files where it is documented to run? | **violated** |

Every property of a passing run has a mutant in `PROJECT.json`: a plausible bug in
the modelled code that violates it.

### Where the code departs from what is said of it

**Denials are rolled back** (`audit_denials`). `require_permission` flushes the deny
row and raises; `get_db` rolls back on every exception. The docstring says denials are
"always audited". Failed logins, jurisdiction denials and the revocation in
`refresh()` share the pattern.

**The clean-up deletes no file where it is to be run** (`evidence_readonly`). The script
"Deletes plate/vehicle-event evidence (snapshot files + their DB rows)"
(`cleanup_expired_evidence.py:1`) by `docker compose exec api python -m
scripts.cleanup_expired_evidence` (`:18`). The `api` container mounts the directory with
`:ro` (`docker-compose.yml:168`), so every `path.unlink()` raises an `OSError`, which
is logged and otherwise ignored (`:53-58`); the rows are deleted and committed, and
nothing leads to the files any more. The run has no other fault. Where files can be unlinked, each
one left behind takes a failure (`NothingLeftBehind` in `evidence_lifecycle`).

Seven more disagreements have an instance of their own, which is not among the runs
of `PROJECT.json`; `tlc -config <cfg> <module>` shows the counterexample:

| Configuration | Property | What is said | What the code does |
| --- | --- | --- | --- |
| `MCCameraWorkerEvidence` (of `MCCameraWorker`) | `EvidenceShowsItsVehicle` | `track_state.py:1-5`: no vehicle leaks into another's event | evidence is named by day and track id (`snapshot.py:54`), and ids start again after every reset: a later vehicle overwrites the image of an earlier event |
| `MCCameraWorkerAgreement` (of `MCCameraWorker`) | `AgreementNeverHurts` | `temporal_fusion.py:125`: "more agreeing, independent observations should increase confidence" | a read that agrees pushes the oldest out of a full buffer; if that one decided, the plate changes |
| `MCEvidenceLifecycleUnpacked` (of `MCEvidenceLifecycle`) | `EveryMemberVerifies` | the manifest (`evidence_export.py:135`): "Each file's sha256 above is independently verifiable" | a member's name leaves out the day (`:103`): two reads of a plate on one camera, at the same time of the feed on two days, have one name and two digests, and unpacking leaves one image |
| `MCEventConsumerRestart` (of `MCEventConsumer`) | `RestartDropsNothing` | `plate_event_consumer.py:3-4`: a restart resumes "rather than reprocessing or dropping events" | only `>` is read, so what was delivered and not committed stays pending for ever |
| `MCWatchlistEngineRecorded` (of `MCWatchlistEngine`) | `AnnouncedIsRecorded` | `watchlist_engine.py:4-6`: it records a match, and pushes it | the commit follows the last read of the batch: a console can show a match that is in no table |
| `MCStreamSupervisorOutage` (of `MCStreamSupervisor`) | `SupervisionGoesOn` | `stream_manager.py:27-30`: per-camera exponential back-off, capped at 30 s | `2 ** (failures - 1)` is computed before the cap; failure 1025 raises and ends the manager for all cameras |
| `MCSessionTokensRevoked` (of `MCSessionTokens`) | `EverySessionEnds` | `api/auth.py:233`, `api/admin.py:36`: every token issued so far is invalidated | the version is read, incremented and written as a value: of two increments that overlap the second ends nothing, and a third makes the number go back |

Other results are stated inside properties that hold:

* a refresh with a rotated token and a session revocation lock the users row and
  the audit log in opposite orders and can deadlock (`OnlyReuseAndRevokeDeadlock`:
  no other two can);
* a plate that is only the best single read, because what the characters vote for is
  no plate, can be outvoted through a read that agrees with it (`CorroborationHelps`
  speaks of voted plates, and of a full buffer only if the read that it drops weighs
  nothing or has another length);
* the plate of a VehicleEvent, "the final fused plate" (`docs/anpr-pipeline.md:92`), is not
  always the one announced last: A, announced at 70, can be outvoted by surer reads of B, which are fused at 55
  because A's weight is not theirs. The event carries B, no PlateEvent does, and A is not
  in the event (`AnnouncedPlateIsKept`, refuted by `MCCameraWorkerAnnounced.cfg`). Only
  a confidence below what an announcement takes gets there
  (`EventsFollowAnnouncements`);
* a plate that several reads vote together but none shows is published with a
  negative confidence (`ConfidenceIsBacked`);
* two refreshes with one token that are both past the check both succeed
  (`ExchangedOnce`, `raced`), and two tabs can sign each other out
  (`SignedOutForACause`);
* a location set by hand between the read and the commit of a sync is overwritten,
  against the comment at `camera_registry_sync.py:99-100` (`SyncsSpareHandwork`
  speaks of what the sync had read);
* a thread that raises out of its loop, for instance when the float back-off of
  `camera_source.py:120` overflows, is never replaced while its camera stays listed
  (`ListedIsWatched`).

### Bounds, and why they are enough

* `camera_worker`, plates: every buffer of up to three reads, out of eighteen: six texts
  of two lengths, three scores in which weight and confidence disagree. Three reads
  allow a two-to-one majority, a tie broken by length, and a text assembled from
  three; the buffer is then full, and the fourth read drops the first. The buffer
  grows only while the worker has not begun, so that the two do not multiply.
* `camera_worker`, sessions: two vehicles and two sessions let an id be used twice, by
  different vehicles, before and after a reset; grace 2 and memory 1 let the
  tracker forget before the registry does; the session that is opened first is read
  until its buffer of three overflows and beyond, the others once (`ReadOnce`); a
  doubtful read at 70 is outvoted by a sure one. Three outcomes per frame are enough to
  tell a doubtful read, a sure one and an object that is no vehicle apart.
* `event_consumer`: batches of two out of five entries give full, short and
  several batches; the malformed entry shares one with a good entry; a stream of
  three is trimmed before and after delivery; three failures may fall on one batch
  or on three.
* `watchlist_engine`: two reads make one batch of two or two of one, equal or
  different, one of which may not parse; one tick of the clock against a window of
  one lets a second read fall inside or outside; two consoles are what is needed for
  one to fail while the other is still to be sent to.
* `audit_chain`: there are two locks, so a cycle of waiting involves two requests;
  chain, answers and deadlocks are proved for any number (section 5).
* `stream_supervisor`: two cameras are what it takes for one to be repushed while
  the other is reconciled; two edits change one camera twice, or both; the one
  fault may be any failed call or restart at any moment. `MCInit` takes one
  catalogue of those that differ by a renaming. `MaxExponent` 1 lets the counter
  reach its end; `MCStreamSupervisorOutage` has a double's 1023.
* `gateway_adapter`: two requests can be refused together and a third come in
  between; two disruptions let a session end while a login for the first is failing.
  One camera without an entry gets two tasks from two polls. The safety properties
  are proved for any number (section 5).
* `session_tokens`: three increments are what it takes for the version to go back;
  two calls of a page share a refresh while a third, of another page, holds the same
  token; four pairs are the login, two successors that raced and a login from
  elsewhere. All of it at once is too much, so `MCInit` starts either with all calls
  and one revocation, or with one call and everything that moves the version.
* `inference_coordinator`: two changes take a camera away and back, so that an
  abandoned thread meets its successor; two sessions let one be finalized while the
  other is open; one exception may fall anywhere. `MCInit` has one camera with two
  changes, and two cameras with one.
* `camera_registry`: two cameras let a sync fail on one entry after it has written
  another; one district below the state gives a user of either and a row of
  neither; the scheduler's sync and one request at a time, of which there are two,
  let a row be read, changed by hand and written. `MCInit` starts with one camera
  listed and the other absent or malformed, which the one change of the catalogue
  may add, repair, locate or remove.
* `evidence_lifecycle`: a read, and either another with its file name or one of another
  day with its name in a bundle (`MCNext`: never both, which no property relates), and a
  vehicle with two files; two clean-ups select the same row; an export copies and hashes while both work; the
  second failure may fall on the repair of the first. `evidence_readonly` has no failure
  but that of the mount. The two clean-ups are
  interchangeable (symmetry; the run has no liveness property).

`CHECK_DEADLOCK FALSE` is set where the bounds let the system come to rest: all
sessions used up, all entries published, all requests answered, no faults left.

### Fairness

* Camera worker: the thread is scheduled, reads return (FFmpeg gives up on a
  silent stream) and back-off sleeps end. No fairness for what the camera shows,
  for connections succeeding, or for stops.
* Consumers and engine: the event loop runs the task, a round trip returns or
  fails, and a stopped container is started again (`restart: unless-stopped`). A
  send to a dead console ends by the ping timeout. Nothing is assumed of publishers
  or of failures.
* Requests: those that can go on do; lock waiters are queued by Postgres, hence
  strong fairness for taking a lock, and `deadlock_timeout` ends a cycle.
* Stream manager: sleeps and windows end, calls return or time out after ten
  seconds, the container restarts. Nothing is assumed of the catalogue or of
  failures, which are finitely many.
* Gateway adapter: the event loop runs every coroutine that can go on
  (`WF(Serve(r))`, `WF(Geocode)`), HTTP calls end by the client's timeouts, and
  `asyncio.Lock` serves its waiters in turn, so a waiter is passed over only by
  requests that are finitely many.
* Coordinator: the main thread goes on, since every wait of its loop has a timeout.
  Nothing is assumed of the worker threads.
* Registry: the scheduler ticks (`WF(Tick)`: it survives a failed sync), and a
  transaction that can go on does; lock waits end as the holder commits or rolls
  back. Nothing is assumed of requests or of the catalogue.
* `SessionTokens` and `EvidenceLifecycle` have safety properties only.

## 4. Assumptions of the models

* The wall clock advances between two appends to the audit log until it is set
  back: the chain is ordered by that clock, and two rows in one microsecond of it
  are what `StepBack` covers.
* While it runs, the tracker does not give one id to two vehicles.
* The thresholds of the plate pipeline (quality, detection, OCR) are positive, so a
  read that reaches a session has a positive weight (`ReadsAssumption`); formats are
  sequences of sets of characters (`FormatsAssumption`).
* The jurisdictions form one tree (`TreeAssumption`): a state at the root, and no
  cycle above any of them (`models/rbac.py`). `seed_users.py` sets it up so, and no
  endpoint changes it.
* An image of a plate read has one name, and a vehicle's any number
  (`EvidenceAssumptions`).
* A commit of the consumers succeeds or fails. (Their inserts pass `id=None`
  explicitly, `plate_event_consumer.py:105`; a database that refused this would fail
  every batch, which is among the behaviours of `StoreBatch`.)
* A statement that fails in the watchlist engine fails because its connection is
  gone; what was flushed before is then rolled back.
* PostgreSQL runs at READ COMMITTED, Redis executes a command at once, a FastAPI
  dependency with `yield` commits before the answer is sent (as in the pinned version).

## 5. Proofs

| Theorem | For every | Inductive invariant |
| --- | --- | --- |
| `AuditChain_proofs!TypeCorrect`, `ChainAlwaysIntact` | number of requests and ids | `LockInv`: only the holder of the advisory lock is inside `record()` or has rows flushed; `ClockInv`: all stamps are past; `ViewInv`: what each transaction sees is a chain, and what it read is its end |
| `LogMatchesAnswers` | same | `ProgressInv`: a running request has flushed a row exactly when it is past an audit step of its route, and is not answered yet (`CommitIsLast`: a route audits before it commits) |
| `DeadlocksAreKnown` | same | from the two lock orders: `OppositeOrders` finds the only two routes that take the locks in opposite order |
| `AuditChain_proofs!SessionsTyped`, `RevocationsLast` | number of resets, revocations, calls, pages, pairs and failures | `VersionInv`: no pair is ahead of the version and those an increment has ended are behind it; `ReadInv`: an increment under way has seen the present version, or the one before it if another has committed since |
| `TokensAreExchangedOnce` | same | `OnceInv`: a token that was exchanged is on the blacklist, and no refresh with it is past the check |
| `SignOutsHaveACause` | same | `CallerInv`: a call that refreshes is its page's promise; `QuietInv`: without an excuse there is one version and one call that refreshes, with the stored token, which is unused until the call has its successor |
| `EventConsumer_proofs!TypeCorrect`, `AckedAlwaysStored` | entries, batch size, stream length, failures | `BatchInv`: what is about to be acknowledged is stored; `OrderInv`: delivered entries lie below the position |
| `LossAlwaysBounded` | same | every step adds to `Lost` at most the batch, and only with a fault (`LossStep`) |
| `ConsumerDelivers` | same | refinement: under `FateOf`, the initial state is `EventDelivery`'s and each action is one of its actions or a stutter (`DeliverMaps`, `ConcludeMaps`, `UnansweredMaps`, `LossMaps`, `PublishMaps`) |
| `WatchlistEngine_proofs!TypeCorrect`, `RecordedAlwaysAnnounced`, `EveryConsoleAlwaysTold` | reads, consoles, entries, failures | `RecordInv`: nothing is flushed unannounced but the read under way, as long as the session can commit; `ConsoleInv`: a lost connection never comes back, and who was meant and is still up has been sent to or is still on the list |
| `SilenceAlwaysMeansDuplicate` | same, window of any length | `DecisionInv`: what the window holds was noted for a hit of the same entry and camera, which is on record with its time |
| `EngineDelivers` | same | `FlowInv`, and refinement: as for the consumer, a batch being several steps: its reads are concluded or lost when the batch is |
| `StreamSupervisor_proofs!TypeCorrect`, `AlwaysMirrorsCatalogue` | cameras, sources, faults, edits, exponent range | `MirrorInv`: each stream is as wanted, suspect, or still to be done by the reconciliation under way |
| `GatewayAdapter_proofs!TypeCorrect`, `RefusalAlwaysHasACause` | requests, cameras, disruptions | `LockInv`: the lock is held by the one request that logs in, and for the cookie it was refused with; `CarriedInv`: who was refused carries a dead session; `UndisturbedInv`: while nothing has gone wrong since a request began, a cookie other than the one refused is the good one |
| `SessionAlwaysSpared` | same | from `LockInv` and `CarriedInv` |
| `CameraRegistry_proofs!TypeCorrect`, `SyncsAlwaysSpareHandwork` | cameras, jurisdictions, users, requests, failures | `FreshInv`, `SyncInv`: a sync writes no jurisdiction, and no location it has read, but in rows it makes; `FlushInv`: rows flushed as new are in no table yet, and no two transactions have flushed one row |
| `RegistryAlwaysReachable` | same, in any tree | a set that holds a jurisdiction and its children's children is all that is below it (`ClosedBelow`); with `TreeAssumption`, the statewide scope is everything |
| `InferenceCoordinator_proofs!TypeCorrect`, `WorkersAreAlone` | cameras, threads, sessions, exceptions | `EntryInv`: the entry of a camera is its thread, and what is removed has one; `AloneInv`: a thread alive and not abandoned is the entry of its camera |
| `SessionsArePublishedOnce` | same | `CameraInv`, `SessionInv`: where no join gave up, a session is open and unpublished, or held by the one live thread and unpublished, or published once |
| `CameraWorker_proofs!WorkerTyped`, `SessionsAreOfOneVehicle` | vehicles, memory, grace, sessions, buffer bounds, outcomes of frames | `Worker`: ids below `nextId`, reads counted and bounded; `Followed`: a session's vehicle is the one that the tracker has under its id, as long as it has one |
| `SessionsEndInOneEvent` | same | `Numbered`: sessions and events have the numbers 1 to `opened`, each one of them |
| `AnnouncementsAreKept` | same | `Sound`: a session that announced a plate has enough reads, which stay enough; `Told`: what its reads are fused to was announced last or is below the threshold |
| `SessionsAreSettled` | same | `Patient`: a session is in view or has been missed for less than its grace |
| `FusionsAreValid`, `MajorityAlwaysWins`, `ConfidenceAlwaysBacked`, `CorroborationAlwaysHelps` | formats, characters, reads, length of the buffer | about every buffer, by lemmas on weighted sums over index sets; for the last, a full buffer without its first read has the same candidates, votes and confidence if that read has no part in the vote (`FusionOfDropping`), and one more read then only adds to the winner of each place (`FusionOfAppended`) |
| `EvidenceTyped`, `NothingIsLeftBehind`, `UnexpiredAlwaysKeepTheirFiles` | events, names, clean-ups, exports, failures | `NamesInv`: a file is under a name of the event it shows; `CleanInv`: a clean-up unlinks for expired events only, and each name of its rows is cleared or still to do; `RowsInv`: each name of a deleted row is cleared; `StuckInv`: where files can be unlinked, no more names are stuck than faults have been. `NothingIsLeftBehind` assumes `~ReadOnly` |
| `ExportsStayWhole` | same | `BundleInv`: a member shows its event or shares its name, and only the one just added may lack a digest; `RecordInv`: what is recorded is over |

None of the invariants checked is inductive by itself: `ChainIntact` says nothing of
the open transactions that are about to extend the chain, `AckedAreStored` nothing
of the batch about to be acknowledged, `MirrorsCatalogue` nothing of the middle of a
reconciliation, `SessionsPublishedOnce` nothing of the sessions that a thread holds
and has not published yet, `RevocationLasts` nothing of the increments that have read
the version, `ExportsAreWhole` nothing of the bundles not yet recorded. Each was
checked by TLC on the instance of its run before it was proved. The proofs assume of
the constants only the modules' named `ASSUME`s, which TLC evaluates on every run.

The proofs need little induction over data, which TLAPS cannot do with the library's
theorems. Sums of weights are replaced by sets: `CameraWorker_proofs` derives from the
well-foundedness of `<` that a set of numbers with 0 and closed under successor has
all of them, and proves about `Total` with explicit functions of partial sums. The
jurisdiction tree is treated in the same way, with sets of nodes closed upwards.

Only model-checked: all liveness (`EveryRequestEnds`, `LostTrackIsSettled`,
`StopFinalizes`, `WaitingIsServed`, `BatchesEnd`, `EveryCameraServed`,
`EverythingEnds`, `ListedIsWatched`, `ListedIsRegistered`), which TLAPS does not reach,
and the counterexamples of section 3. In `GatewayAdapter`, `StreamSupervisor` and the
other modules `TypeOK` is no property of a run: it is proved instead.

## 6. Not modelled

* Vision models, OCR and classifiers compute; any result they may give is an input.
  The score of a fuzzy match is an order of preference.
* The pages and dashboards of the console render. What they do to sessions and
  alerts is in `SessionTokens` and `WatchlistEngine`.
* The rate limiter is one counter per window, with one INCR per request: each window
  has its own key, so a missed EXPIRE changes no answer.
* Vehicle traces and audit queries read. The jurisdiction scope appears where it
  decides something: who sees an alert, who sees a camera.
* Migrations, seed scripts and the catalogue mock run before or instead of the
  system; what they set up is assumed.
* Late effects of calls that timed out (stream manager), the trimming of the two
  streams nobody reads, the authentication of the alert socket, and passwords.

## 7. What is left

1. An abstract specification of one camera's session registry that both
   `CameraWorker` and `InferenceCoordinator` implement, where no join gives up.
2. Safety halves of the liveness properties: what a request, a batch or a
   reconciliation waits for can always happen (that a lock waited for is held by a
   request that can go on, for any number of requests).
